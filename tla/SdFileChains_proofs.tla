------------------------ MODULE SdFileChains_proofs ------------------------
(***************************************************************************)
(* Proofs about the chains of files in SdFile, for any geometry of the     *)
(* volume, any files, modes and sizes, and any number of failed transfers  *)
(* and losses of power: bytes stay where they were put, a position and its *)
(* current cluster belong together, reads give back what was written, and  *)
(* the card alone is whole at any moment.                                  *)
(*                                                                         *)
(* The properties follow the entries of the FAT from a first cluster, by a *)
(* recursive function that one changed entry may change everywhere.  The   *)
(* invariant has sequences of clusters instead, one for each file as the   *)
(* program sees the volume (P) and one for each as the card has it (Q),    *)
(* which the steps change in a way that can be said: a cluster is put at   *)
(* the end, or the end is cut off.  Phase says of each thing a call can be *)
(* at what it knows of its file's sequence.  That the function finds the   *)
(* clusters of the sequence is shown once, near the end (ClusterAtIs).     *)
(*                                                                         *)
(* Each task of a call has a lemma ...Sound: after it there are sequences  *)
(* again.  Assumed are CountAssumption, EocAssumption, ModesAssumption,    *)
(* FaultsAssumption and NoneAssumption of SdFile.                          *)
(***************************************************************************)
EXTENDS SdFile_proofs, FiniteSetTheorems

-----------------------------------------------------------------------------
(***************************************************************************)
(* Positions                                                               *)
(***************************************************************************)
LEMMA PlaceIs ==
  ASSUME NEW p \in Nat
  PROVE  /\ Index(p) \in Nat /\ InCluster(p) \in 0 .. ClusterSize - 1
         /\ p = Index(p) * ClusterSize + InCluster(p)
  BY SizesAre, DivisionIs DEF Index, InCluster

LEMMA PlacesDiffer ==
  ASSUME NEW p \in Nat, NEW q \in Nat, Index(p) = Index(q), InCluster(p) = InCluster(q)
  PROVE  p = q
<1>1. p = Index(p) * ClusterSize + InCluster(p) /\ q = Index(q) * ClusterSize + InCluster(q)
  BY PlaceIs
<1> QED
  BY <1>1

LEMMA PlaceOf ==
  ASSUME NEW k \in Int, NEW r \in 0 .. ClusterSize - 1
  PROVE  Index(k * ClusterSize + r) = k /\ InCluster(k * ClusterSize + r) = r
  BY SizesAre, QuotientIs DEF Index, InCluster

LEMMA IndexGrows ==
  ASSUME NEW p \in Nat, NEW q \in Nat, p <= q
  PROVE  Index(p) <= Index(q)
<1> DEFINE d == ClusterSize
           a == Index(p)
           b == Index(q)
           r == InCluster(p)
           s == InCluster(q)
<1>1. d \in Nat \ {0} /\ a \in Nat /\ b \in Nat /\ r \in 0 .. d - 1 /\ s \in 0 .. d - 1
      /\ p = a * d + r /\ q = b * d + s
  BY SizesAre, PlaceIs
<1> HIDE DEF d, a, b, r, s
<1> SUFFICES ASSUME a > b PROVE FALSE
  BY <1>1 DEF a, b
<1>2. a >= b + 1
  BY <1>1
<1>3. a * d >= (b + 1) * d
  BY <1>1, <1>2
<1>4. (b + 1) * d = b * d + d
  BY <1>1
<1> DEFINE x == a * d
           y == b * d
<1>5. x \in Nat /\ y \in Nat /\ x >= y + d /\ p = x + r /\ q = y + s
  BY <1>1, <1>3, <1>4
<1> HIDE DEF x, y
<1> QED
  BY <1>1, <1>5

LEMMA AtClusterIs ==
  ASSUME NEW p \in Nat
  PROVE  AtCluster(p) <=> InCluster(p) = 0
<1> DEFINE d == BlockSize
           k == BlockOfCluster(p)
           r == Offset(p)
           x == k * d
<1>1. d \in Nat \ {0}
  BY CountAssumption
<1>2. r \in 0 .. d - 1
  BY <1>1, DivisionIs DEF Offset
<1>3. r + 0 < d /\ 0 \in Nat
  BY <1>1, <1>2
<1>4. k \in 0 .. BlocksPerCluster - 1 /\ InCluster(p + 0) = k * d + r + 0
  BY <1>3, PieceInBlock
<1>5. AtCluster(p) <=> r = 0 /\ k = 0
  BY DEF AtCluster
<1> HIDE DEF d, k, r
<1>6. k \in Nat /\ p + 0 = p
  BY <1>4, CountAssumption
<1>7. x \in Nat /\ (x = 0 <=> k = 0)
  <2>1. k = 0 => x = 0
    BY <1>1
  <2>2. k >= 1 => k * d >= 1 * d
    BY <1>1, <1>6
  <2>3. x \in Nat
    BY <1>1, <1>6
  <2>4. 1 * d = d
    BY <1>1
  <2> HIDE DEF x
  <2>5. k >= 1 => x >= d
    BY <2>2, <2>4 DEF x
  <2> QED
    BY <1>1, <1>6, <2>1, <2>3, <2>5
<1>8. InCluster(p) = x + r + 0
  BY <1>4, <1>6
<1> HIDE DEF x
<1> QED
  BY <1>2, <1>5, <1>7, <1>8

LEMMA IndexBefore ==
  ASSUME NEW p \in Nat \ {0}
  PROVE  /\ p - 1 \in Nat
         /\ AtCluster(p) => Index(p) = Index(p - 1) + 1
         /\ ~AtCluster(p) => Index(p) = Index(p - 1)
<1> DEFINE d == ClusterSize
           a == Index(p)
           r == InCluster(p)
           x == a * d
<1>1. d \in Nat \ {0} /\ a \in Nat /\ r \in 0 .. d - 1 /\ p = a * d + r
  BY SizesAre, PlaceIs
<1>2. AtCluster(p) <=> r = 0
  BY AtClusterIs
<1>3. \A k \in Int : \A s \in 0 .. d - 1 : Index(k * d + s) = k
  BY PlaceOf
<1> HIDE DEF d, r, a
<1>4. x \in Int /\ p = x + r
  BY <1>1
<1>5. ASSUME r = 0 PROVE Index(p - 1) = a - 1
  <2>1. (a - 1) * d = x - d
    BY <1>1
  <2> HIDE DEF x
  <2>2. p - 1 = (x - d) + (d - 1)
    BY <1>1, <1>4, <1>5
  <2>3. p - 1 = (a - 1) * d + (d - 1)
    BY <2>1, <2>2
  <2>4. a - 1 \in Int /\ d - 1 \in 0 .. d - 1
    BY <1>1
  <2> QED
    BY <1>3, <2>3, <2>4
<1>6. ASSUME r # 0 PROVE Index(p - 1) = a
  <2>1. r - 1 \in 0 .. d - 1
    BY <1>1, <1>6
  <2>2. p - 1 = x + (r - 1)
    <3> HIDE DEF x
    <3> QED
      BY <1>1, <1>4
  <2>3. a \in Int
    BY <1>1
  <2> QED
    BY <1>3, <2>1, <2>2, <2>3
<1>7. Index(p) = a
  BY DEF a
<1> QED
  BY <1>1, <1>2, <1>5, <1>6, <1>7

LEMMA IndexAtZero == Index(0) = 0 /\ InCluster(0) = 0 /\ AtCluster(0)
<1>1. ClusterSize \in Nat \ {0} /\ 0 \in Int /\ 0 \in 0 .. ClusterSize - 1
  BY SizesAre
<1>2. Index(0 * ClusterSize + 0) = 0 /\ InCluster(0 * ClusterSize + 0) = 0
  BY <1>1, PlaceOf
<1>3. 0 * ClusterSize + 0 = 0
  BY <1>1
<1> QED
  BY <1>2, <1>3, AtClusterIs

\* the bytes of the volume
Full == ClusterCount * ClusterSize

LEMMA FullIs == Full \in Nat /\ Position = 0 .. Full
  BY SizesAre, CountAssumption DEF Full, Position

\* a position in one of the first n clusters, n no more than there are
LEMMA PlaceFits ==
  ASSUME NEW p \in Nat, NEW n \in Nat, n <= ClusterCount, Index(p) < n
  PROVE  p + 1 <= Full
<1> DEFINE d == ClusterSize
           a == Index(p)
           r == InCluster(p)
           m == ClusterCount
<1>1. d \in Nat \ {0} /\ a \in Nat /\ r \in 0 .. d - 1 /\ p = a * d + r /\ m \in Nat /\ Full = m * d
  BY SizesAre, PlaceIs, CountAssumption DEF Full
<1>2. a + 1 <= m
  BY <1>1
<1> HIDE DEF d, a, r, m
<1>3. (a + 1) * d <= m * d /\ (a + 1) * d = a * d + d
  BY <1>1, <1>2
<1> DEFINE x == a * d
           y == m * d
<1>4. x \in Nat /\ y \in Nat /\ x + d <= y /\ p = x + r /\ Full = y
  BY <1>1, <1>3
<1> HIDE DEF x, y
<1> QED
  BY <1>1, <1>4

LEMMA BytesPlaced ==
  ASSUME O.pos \in Nat, Arg \in Nat, NEW q \in Bytes
  PROVE  /\ q \in Nat /\ q >= O.pos /\ q < O.pos + Piece
         /\ Index(q) = Index(O.pos)
         /\ (O.pos \div ClusterSize) * ClusterSize + InCluster(q) = q
<1> DEFINE p == O.pos
           n == Piece
           j == q - p
           r == Offset(p)
           a == Index(p)
           w == InCluster(p)
<1>1. p \in Nat /\ n \in Nat /\ r \in Nat /\ n <= BlockSize - r /\ BlockSize \in Nat /\ r + 0 < BlockSize
  BY PieceIs, CountAssumption
<1>2. q \in p .. p + n - 1
  BY DEF Bytes
<1>3. (O.pos \div ClusterSize) = a
  BY DEF Index
<1>4. a \in Nat /\ w \in 0 .. ClusterSize - 1 /\ p = a * ClusterSize + w
  BY <1>1, PlaceIs
<1>5. w \in Int /\ BlockOfCluster(p) * BlockSize \in Int
  <2>1. BlockOfCluster(p) \in 0 .. BlocksPerCluster - 1
    BY <1>1, PieceInBlock
  <2> QED
    BY <1>1, <1>4, <2>1, SizesAre
<1>6. q \in Nat /\ q >= O.pos /\ q < O.pos + Piece
  <2> HIDE DEF p, n
  <2>1. q \in Nat /\ q >= p /\ q < p + n
    BY <1>1, <1>2
  <2> QED
    BY <2>1 DEF p, n
<1>7. InCluster(p + 0) = BlockOfCluster(p) * BlockSize + r + 0
  BY <1>1, PieceInBlock
<1> HIDE DEF n, a, w
<1>8. j \in Nat /\ r + j < BlockSize /\ q = p + j
  <2> HIDE DEF p, r
  <2> QED
    BY <1>1, <1>2
<1> HIDE DEF j
<1>9. InCluster(p + j) = BlockOfCluster(p) * BlockSize + r + j /\ InCluster(p + j) \in 0 .. ClusterSize - 1
  BY <1>8, <1>1, PieceInBlock
<1> DEFINE y == BlockOfCluster(p) * BlockSize
           z == InCluster(p + j)
<1>10. y \in Int /\ p + 0 = p
  BY <1>1, <1>5
<1>11. w = y + r + 0 /\ z = y + r + j /\ z \in 0 .. ClusterSize - 1
  BY <1>7, <1>9, <1>10 DEF w
<1> HIDE DEF y, z, r, p
<1>12. z = w + j
  BY <1>1, <1>5, <1>8, <1>10, <1>11
<1> DEFINE x == a * ClusterSize
<1>13. x \in Int /\ p = x + w
  BY <1>4, SizesAre
<1>14. p + j = x + z
  <2> HIDE DEF x
  <2> QED
    BY <1>5, <1>8, <1>12, <1>13
<1>15. Index(p + j) = a /\ InCluster(p + j) = z
  <2>1. a \in Int
    BY <1>4
  <2>2. Index(a * ClusterSize + z) = a
    BY <1>11, <2>1, PlaceOf
  <2> QED
    BY <1>14, <2>2 DEF z
<1> QED
  BY <1>3, <1>6, <1>8, <1>14, <1>15 DEF a, p

LEMMA CrossedAre ==
  ASSUME NEW p \in Nat \ {0}, NEW q \in Nat \ {0}
  PROVE  /\ Index(p - 1) \in Nat /\ Index(q - 1) \in Nat
         /\ Crossed(p, q) = Index(q - 1) - Index(p - 1)
         /\ Crossed(1, q) = Index(q - 1)
<1>1. Index(p - 1) \in Nat /\ Index(q - 1) \in Nat
  BY PlaceIs
<1>2. Index(1 - 1) = 0
  BY IndexAtZero
<1>3. Crossed(p, q) = Index(q - 1) - Index(p - 1) /\ Crossed(1, q) = Index(q - 1) - Index(1 - 1)
  BY DEF Crossed, Index
<1> QED
  BY <1>1, <1>2, <1>3

-----------------------------------------------------------------------------
(***************************************************************************)
(* Chains: sequences of clusters, and what the FAT says of them            *)
(***************************************************************************)
\* x.at[0] .. x.at[x.n - 1] are the clusters of a chain, from its first one
Trail  == [n : Nat, at : [Nat -> Nat]]
Trails == [File -> Trail]
NoTrail    == [n |-> 0, at |-> [i \in Nat |-> 0]]

\* the FAT links the clusters of x to each other; and, from head h to an end of chain
Chain(fat, x) ==
  \A i \in Nat : i < x.n => x.at[i] \in Cluster /\ (i + 1 < x.n => fat[x.at[i]] = x.at[i + 1])
Links(fat, h, x) ==
  /\ h = IF x.n = 0 THEN 0 ELSE x.at[0]
  /\ \A i \in Nat : i < x.n =>
       x.at[i] \in Cluster /\ fat[x.at[i]] = IF i + 1 = x.n THEN Eoc ELSE x.at[i + 1]

\* no cluster of a chain of X is in another chain of Y, or at another place
Apart(X, Y) ==
  \A f \in File, g \in File : \A i \in Nat, j \in Nat :
    i < X[f].n /\ j < Y[g].n /\ X[f].at[i] = Y[g].at[j] => f = g /\ i = j
Simple(x) == \A i \in Nat, j \in Nat : i < x.n /\ j < x.n /\ x.at[i] = x.at[j] => i = j
Misses(x, c) == \A i \in Nat : i < x.n => x.at[i] # c

\* the k-th cluster of x, or what is found behind its last; the one curCluster_ should
\* be at position p, which at a boundary is the one before; the last; what is found at
\* all by going along x
At(x, k)    == IF x.n = 0 THEN 0 ELSE IF k < x.n THEN x.at[k] ELSE Eoc
AtPos(x, p) == IF p = 0 THEN 0 ELSE At(x, Index(p - 1))
AtEnd(x)    == IF x.n = 0 THEN 0 ELSE x.at[x.n - 1]
Near(x, c)  == c = 0 \/ c = Eoc \/ \E i \in Nat : i < x.n /\ x.at[i] = c

\* x is long enough for l bytes, and has the first l bytes of f
Holds(v, f, x, l) ==
  \A p \in Nat : p < l => Index(p) < x.n /\ v.data[x.at[Index(p)]][InCluster(p)] = <<f, p>>

LEMMA ClustersAre ==
  /\ \A c \in Cluster : c \in Nat /\ c # 0 /\ c # Eoc /\ c # Free
  /\ Eoc \in Nat /\ Eoc # 0 /\ Eoc # Free /\ Free = 0
  BY CountAssumption, EocAssumption DEF Cluster, Free

LEMMA NilIs == NoTrail \in Trail /\ NoTrail.n = 0
  BY DEF NoTrail, Trail

LEMMA AtIs ==
  ASSUME NEW fat, NEW h, NEW x \in Trail, Links(fat, h, x), NEW k \in Nat
  PROVE  /\ At(x, k) = 0 <=> x.n = 0
         /\ At(x, k) \in Cluster => k < x.n /\ At(x, k) = x.at[k] /\ fat[At(x, k)] = At(x, k + 1)
         /\ At(x, k) \in Cluster \cup {0, Eoc}
         /\ x.n # 0 => At(x, 0) = h
         /\ x.n = 0 => h = 0
         /\ Near(x, At(x, k))
<1>1. x.n \in Nat /\ x.at \in [Nat -> Nat]
  BY DEF Trail
<1>2. CASE x.n = 0
  BY <1>1, <1>2, ClustersAre DEF At, Links, Near
<1>3. CASE x.n # 0 /\ k < x.n
  <2>1. At(x, k) = x.at[k] /\ x.at[k] \in Cluster
    BY <1>1, <1>3 DEF At, Links
  <2>2. fat[x.at[k]] = At(x, k + 1)
    BY <1>1, <1>3 DEF At, Links
  <2>3. At(x, 0) = h
    BY <1>1, <1>3 DEF At, Links
  <2> QED
    BY <1>3, <2>1, <2>2, <2>3, ClustersAre DEF Near
<1>4. CASE x.n # 0 /\ ~(k < x.n)
  <2>1. At(x, k) = Eoc /\ At(x, 0) = h
    BY <1>1, <1>4 DEF At, Links
  <2> QED
    BY <1>4, <2>1, ClustersAre DEF Near
<1> QED
  BY <1>2, <1>3, <1>4

LEMMA AtOnce ==
  ASSUME NEW fat, NEW h, NEW x \in Trail, Links(fat, h, x), Simple(x), NEW k \in Nat, NEW j \in Nat,
         j < x.n, At(x, k) = x.at[j]
  PROVE  k = j
<1>1. x.at[j] \in Cluster
  BY DEF Links
<1>2. k < x.n /\ At(x, k) = x.at[k]
  BY <1>1, AtIs
<1> QED
  BY <1>2 DEF Simple

LEMMA NearOn ==
  ASSUME NEW fat, NEW h, NEW x \in Trail, Links(fat, h, x), NEW c \in Cluster, Near(x, c)
  PROVE  /\ Near(x, fat[c]) /\ fat[c] \in Cluster \cup {Eoc}
         /\ \E i \in Nat : /\ i < x.n /\ x.at[i] = c
                           /\ fat[c] = IF i + 1 = x.n THEN Eoc ELSE x.at[i + 1]
<1>1. PICK i \in Nat : i < x.n /\ x.at[i] = c
  BY ClustersAre DEF Near
<1>2. x.n \in Nat
  BY DEF Trail
<1>3. fat[c] = IF i + 1 = x.n THEN Eoc ELSE x.at[i + 1]
  BY <1>1 DEF Links
<1>4. CASE i + 1 = x.n
  BY <1>1, <1>3, <1>4 DEF Near
<1>5. CASE i + 1 # x.n
  <2>1. i + 1 \in Nat /\ i + 1 < x.n
    BY <1>1, <1>2, <1>5
  <2>2. x.at[i + 1] \in Cluster
    BY <2>1 DEF Links
  <2> QED
    BY <1>1, <1>3, <1>5, <2>1, <2>2 DEF Near
<1> QED
  BY <1>4, <1>5

LEMMA LinksKept ==
  ASSUME NEW fat, NEW fat2, NEW h, NEW x \in Trail, Links(fat, h, x),
         \A i \in Nat : i < x.n => fat2[x.at[i]] = fat[x.at[i]]
  PROVE  Links(fat2, h, x)
  BY DEF Links

LEMMA LinkedNotFree ==
  ASSUME NEW fat, NEW h, NEW x \in Trail, Links(fat, h, x), NEW i \in Nat, i < x.n
  PROVE  x.at[i] \in Cluster /\ fat[x.at[i]] # Free
<1>1. x.n \in Nat /\ x.at[i] \in Cluster /\ fat[x.at[i]] = IF i + 1 = x.n THEN Eoc ELSE x.at[i + 1]
  BY DEF Links, Trail
<1>2. i + 1 # x.n => x.at[i + 1] \in Cluster
  <2> SUFFICES ASSUME i + 1 # x.n PROVE x.at[i + 1] \in Cluster
    OBVIOUS
  <2>1. i + 1 \in Nat /\ i + 1 < x.n
    BY <1>1
  <2> QED
    BY <2>1 DEF Links
<1> QED
  BY <1>1, <1>2, ClustersAre

LEMMA HoldsKept ==
  ASSUME NEW v, NEW v2, NEW f, NEW x \in Trail, NEW l \in Nat, NEW l2 \in Nat, l2 <= l, Holds(v, f, x, l),
         \A i \in Nat : i < x.n => v2.data[x.at[i]] = v.data[x.at[i]]
  PROVE  Holds(v2, f, x, l2)
<1> SUFFICES ASSUME NEW p \in Nat, p < l2
             PROVE  Index(p) < x.n /\ v2.data[x.at[Index(p)]][InCluster(p)] = <<f, p>>
  BY DEF Holds
<1>1. p < l
  OBVIOUS
<1>2. Index(p) \in Nat /\ Index(p) < x.n /\ v.data[x.at[Index(p)]][InCluster(p)] = <<f, p>>
  BY <1>1, PlaceIs DEF Holds
<1> QED
  BY <1>2

LEMMA HoldsNone ==
  ASSUME NEW v, NEW f, NEW x
  PROVE  Holds(v, f, x, 0)
  BY DEF Holds

LEMMA ApartIs ==
  ASSUME NEW P \in Trails, Apart(P, P), NEW f \in File
  PROVE  P[f] \in Trail /\ Simple(P[f])
  BY DEF Apart, Simple, Trails

-----------------------------------------------------------------------------
(***************************************************************************)
(* Files and their chains, in the view and on the card                     *)
(***************************************************************************)
\* where the chain of f begins, by its entry, and by its object if it is open; its size
HeadIn(v, f)     == IF v.entry[f].used THEN v.entry[f].first ELSE 0
HeadOf(v, o, f)  == IF o.open THEN o.first ELSE HeadIn(v, f)
SizeOf(v, o, f)  == IF o.open THEN o.size ELSE IF v.entry[f].used THEN v.entry[f].size ELSE 0

\* the entry of the open object o of file f
Entered(e, o, ct, f) ==
  /\ e.used
  /\ o.first = 0 => o.size = 0 /\ o.pos = 0 /\ o.cur = 0
  /\ f \notin ct \/ ~o.dirDirty =>
       e.first \in {0, o.first} /\ e.size <= o.size /\ (e.first = 0 => e.size = 0)
  /\ ~o.dirDirty => e.first = o.first /\ e.size = o.size

\* x is the chain of f: it begins where the open object o says, or else the entry, and
\* has the bytes, l of them if f is open
Base(v, o, ct, sp, f, x, l) ==
  /\ Links(v.fat, HeadOf(v, o, f), x)
  /\ o.open => /\ Entered(v.entry[f], o, ct, f)
               /\ Near(x, o.cur)
               /\ f \notin sp => Holds(v, f, x, l)
  /\ ~o.open => /\ o = Closed
                /\ v.entry[f].used =>
                     /\ v.entry[f].first = 0 => v.entry[f].size = 0
                     /\ f \notin sp => Holds(v, f, x, v.entry[f].size)

\* curCluster_ goes with curPosition_; the bytes below the position are there
Placed(o, ad, f, x) == o.open /\ f \notin ad => o.cur = AtPos(x, o.pos)
Reach(v, o, ad, sp, f, x) == o.open /\ f \notin ad /\ f \notin sp => Holds(v, f, x, o.pos)

\* what holds of a file no call is at work on
Fine(v, o, ct, sp, ad, f, x) ==
  Base(v, o, ct, sp, f, x, o.size) /\ Placed(o, ad, f, x) /\ Reach(v, o, ad, sp, f, x)

\* what card c tells of file f, no more than m bytes
Told(c, m, sp, f, x) ==
  /\ Links(c.fat, HeadIn(c, f), x)
  /\ c.entry[f].used =>
       /\ c.entry[f].first = 0 => c.entry[f].size = 0
       /\ c.entry[f].size <= m
       /\ f \notin sp => Holds(c, f, x, c.entry[f].size)

\* the card c has chains Q: they meet those of the view, P, in the same file at the same
\* place only, their clusters are not free in the view, and they have the bytes that
\* card c says there are, no more than there are by the view. Of a file that was cut
\* and not yet told to the card nothing is said.
Backed(c, v, ob, ct, sp, Q, P) ==
  /\ Apart(Q, Q) /\ Apart(Q, P)
  /\ \A f \in File : f \in ct => Q[f].n = 0
  /\ \A f \in File : f \notin ct => Told(c, SizeOf(v, ob[f], f), sp, f, Q[f])
  /\ \A f \in File : \A i \in Nat : i < Q[f].n => v.fat[Q[f].at[i]] # Free

\* chains for the card after a flush: each as it was, or that of the view, or none
Mixed(R, Q, P) == \A f \in File : R[f] = Q[f] \/ R[f] = P[f] \/ R[f] = NoTrail

\* what a flush will find of file f
Anchored(v, k, o, ct, sp, f, x) ==
  Base(v, o, ct, sp, f, x, o.size) \/ (f \in ct /\ k.block # DirBlock /\ o.open)

LEMMA MixedApart ==
  ASSUME NEW P \in Trails, NEW R \in Trails, Apart(P, P), \A f \in File : R[f] = P[f] \/ R[f] = NoTrail
  PROVE  Apart(R, R) /\ Apart(R, P)
<1>1. \A f \in File : \A i \in Nat : i < R[f].n => i < P[f].n /\ R[f].at[i] = P[f].at[i]
  BY NilIs
<1> QED
  BY <1>1 DEF Apart

LEMMA FileHere ==
  ASSUME NEW v, IsVolume(v), NEW f \in File
  PROVE  v.entry[f].used \in BOOLEAN /\ v.entry[f].first \in Nat /\ v.entry[f].size \in Nat
  BY DEF IsVolume, DirEntries

\* the chain of a file by its entry, when the card is made equal to the view
LEMMA ToldNow ==
  ASSUME NEW v, IsVolume(v), NEW o \in Object, NEW ct, NEW sp, NEW f \in File, NEW x \in Trail,
         Base(v, o, ct, sp, f, x, o.size), f \notin ct \/ ~o.dirDirty
  PROVE  \E y \in {x, NoTrail} : Told(v, SizeOf(v, o, f), sp, f, y)
<1>1. o.size \in Nat /\ o.open \in BOOLEAN
  BY DEF Object
<1>2. v.entry[f].used \in BOOLEAN /\ v.entry[f].first \in Nat /\ v.entry[f].size \in Nat
  BY FileHere
<1>3. \A w, g : Holds(w, g, NoTrail, 0)
  BY HoldsNone
<1>4. Links(v.fat, 0, NoTrail)
  BY NilIs DEF Links
<1>5. CASE ~o.open
  <2>1. Links(v.fat, HeadIn(v, f), x)
    BY <1>5 DEF Base, HeadOf
  <2>2. v.entry[f].used => (v.entry[f].first = 0 => v.entry[f].size = 0)
        /\ (f \notin sp => Holds(v, f, x, v.entry[f].size))
    BY <1>5 DEF Base
  <2>3. v.entry[f].used => SizeOf(v, o, f) = v.entry[f].size
    BY <1>5 DEF SizeOf
  <2> QED
    BY <1>2, <2>1, <2>2, <2>3 DEF Told
<1>6. CASE o.open
  <2>1. /\ v.entry[f].used /\ v.entry[f].first \in {0, o.first} /\ v.entry[f].size <= o.size
        /\ (v.entry[f].first = 0 => v.entry[f].size = 0)
    BY <1>6 DEF Base, Entered
  <2>2. SizeOf(v, o, f) = o.size /\ HeadIn(v, f) = v.entry[f].first
    BY <1>6, <2>1 DEF SizeOf, HeadIn
  <2>3. CASE v.entry[f].first = 0
    BY <1>3, <1>4, <2>1, <2>2, <2>3 DEF Told
  <2>4. CASE v.entry[f].first = o.first
    <3>1. Links(v.fat, o.first, x) /\ (f \notin sp => Holds(v, f, x, o.size))
      BY <1>6 DEF Base, HeadOf
    <3>2. f \notin sp => Holds(v, f, x, v.entry[f].size)
      BY <1>1, <1>2, <2>1, <3>1, HoldsKept
    <3> QED
      BY <2>1, <2>2, <2>4, <3>1, <3>2 DEF Told
  <2> QED
    BY <2>1, <2>3, <2>4
<1> QED
  BY <1>1, <1>5, <1>6

\* The card keeps what it has or is made equal to the view.
LEMMA CardStep ==
  ASSUME NEW P \in Trails, NEW Q \in Trails, Apart(P, P), IsVolume(view),
         Backed(card, view, obj, cut, spoiled, Q, P),
         obj \in [File -> Object], NEW ct,
         \A f \in File : Anchored(view, cache, obj[f], cut, spoiled, f, P[f]),
         (card' = card /\ ct = cut)
           \/ (card' = view /\ ct = IF Hit(DirBlock) THEN {f \in cut : obj[f].dirDirty} ELSE cut)
  PROVE  \E R \in Trails : Mixed(R, Q, P) /\ Backed(card', view, obj, ct, spoiled, R, P)
<1>1. CASE card' = card /\ ct = cut
  BY <1>1 DEF Mixed
<1>2. CASE card' = view /\ ct = IF Hit(DirBlock) THEN {f \in cut : obj[f].dirDirty} ELSE cut
  <2>1. ASSUME NEW f \in File, f \notin ct
        PROVE  \E y \in {P[f], NoTrail} : Told(view, SizeOf(view, obj[f], f), spoiled, f, y)
    <3>1. f \notin cut \/ (Hit(DirBlock) /\ ~obj[f].dirDirty)
      BY <1>2, <2>1
    <3>2. Base(view, obj[f], cut, spoiled, f, P[f], obj[f].size)
      BY <3>1 DEF Anchored, Hit
    <3> QED
      BY <3>1, <3>2, ToldNow DEF Trails
  <2> DEFINE R == [f \in File |-> IF f \in ct THEN NoTrail
                                  ELSE CHOOSE y \in {P[f], NoTrail} :
                                         Told(view, SizeOf(view, obj[f], f), spoiled, f, y)]
  <2>2. ASSUME NEW f \in File
        PROVE  /\ R[f] = P[f] \/ R[f] = NoTrail
               /\ f \in ct => R[f] = NoTrail
               /\ f \notin ct => Told(view, SizeOf(view, obj[f], f), spoiled, f, R[f])
    BY <2>1
  <2>3. R \in Trails
    <3>1. DOMAIN R = File /\ R = [f \in File |-> R[f]]
      OBVIOUS
    <3>2. \A f \in File : R[f] \in Trail
      BY <2>2, NilIs DEF Trails
    <3> HIDE DEF R
    <3> QED
      BY <3>1, <3>2 DEF Trails
  <2> HIDE DEF R
  <2>4. Apart(R, R) /\ Apart(R, P)
    BY <2>2, <2>3, MixedApart
  <2>5. ASSUME NEW f \in File, NEW i \in Nat, i < R[f].n PROVE view.fat[R[f].at[i]] # Free
    <3>1. R[f] = P[f] /\ f \notin ct
      BY <2>2, <2>5, NilIs
    <3>2. f \notin cut \/ Hit(DirBlock)
      BY <1>2, <3>1
    <3>3. Links(view.fat, HeadOf(view, obj[f], f), P[f])
      BY <3>2 DEF Anchored, Base, Hit
    <3> QED
      BY <2>5, <3>1, <3>3, LinkedNotFree DEF Trails
  <2>6. Mixed(R, Q, P)
    BY <2>2 DEF Mixed
  <2>7. Backed(card', view, obj, ct, spoiled, R, P)
    BY <1>2, <2>2, <2>4, <2>5, NilIs DEF Backed
  <2> QED
    BY <2>3, <2>6, <2>7
<1> QED
  BY <1>1, <1>2

\* the view looks the same along chain x
SameAlong(v, v2, x) ==
  \A i \in Nat : i < x.n => v2.fat[x.at[i]] = v.fat[x.at[i]] /\ v2.data[x.at[i]] = v.data[x.at[i]]

LEMMA BaseKept ==
  ASSUME NEW v, NEW v2, IsVolume(v), NEW o \in Object, NEW ct, NEW ct2, NEW sp, NEW sp2, NEW f \in File,
         NEW x \in Trail, NEW l \in Nat, Base(v, o, ct, sp, f, x, l),
         v2.entry[f] = v.entry[f], SameAlong(v, v2, x),
         f \notin ct2 => f \notin ct \/ ~o.dirDirty,
         f \in sp => f \in sp2
  PROVE  Base(v2, o, ct2, sp2, f, x, l)
<1>1. Links(v2.fat, HeadOf(v2, o, f), x)
  <2>1. HeadOf(v2, o, f) = HeadOf(v, o, f)
    BY DEF HeadOf, HeadIn
  <2> QED
    BY <2>1, LinksKept DEF Base, SameAlong
<1>2. \A l2 \in Nat : Holds(v, f, x, l2) => Holds(v2, f, x, l2)
  BY HoldsKept DEF SameAlong
<1>3. CASE o.open
  <2>1. Entered(v2.entry[f], o, ct2, f)
    BY <1>3 DEF Base, Entered
  <2> QED
    BY <1>1, <1>2, <1>3, <2>1 DEF Base
<1>4. CASE ~o.open
  <2>1. v.entry[f].size \in Nat
    BY FileHere
  <2> QED
    BY <1>1, <1>2, <1>4, <2>1 DEF Base
<1> QED
  BY <1>3, <1>4

LEMMA FineKept ==
  ASSUME NEW v, NEW v2, IsVolume(v), NEW o \in Object, NEW ct, NEW ct2, NEW sp, NEW sp2, NEW ad, NEW ad2,
         NEW f \in File, NEW x \in Trail, Fine(v, o, ct, sp, ad, f, x),
         v2.entry[f] = v.entry[f], SameAlong(v, v2, x),
         f \notin ct2 => f \notin ct \/ ~o.dirDirty,
         f \in sp => f \in sp2, f \in ad => f \in ad2
  PROVE  Fine(v2, o, ct2, sp2, ad2, f, x)
<1>1. o.size \in Nat /\ o.pos \in Nat
  BY DEF Object
<1>2. Base(v2, o, ct2, sp2, f, x, o.size)
  BY <1>1, BaseKept DEF Fine
<1>3. Reach(v2, o, ad2, sp2, f, x)
  BY <1>1, HoldsKept DEF Fine, Reach, SameAlong
<1>4. Placed(o, ad2, f, x)
  BY DEF Fine, Placed
<1> QED
  BY <1>2, <1>3, <1>4 DEF Fine

LEMMA BackedOn ==
  ASSUME NEW c, NEW v, NEW v2, NEW ob, NEW ob2, NEW ct, NEW ct2, NEW sp, NEW sp2,
         NEW Q \in Trails, NEW P, NEW P2, IsVolume(c), Backed(c, v, ob, ct, sp, Q, P),
         Apart(Q, P2), ct \subseteq ct2,
         \A f \in File : f \notin ct2 =>
           /\ SizeOf(v, ob[f], f) \in Nat /\ SizeOf(v2, ob2[f], f) \in Nat
           /\ SizeOf(v, ob[f], f) <= SizeOf(v2, ob2[f], f)
           /\ f \in sp /\ f \notin sp2 => SizeOf(v, ob[f], f) = 0
           /\ \A i \in Nat : i < Q[f].n => v2.fat[Q[f].at[i]] # Free,
         NEW R, R = [f \in File |-> IF f \in ct2 THEN NoTrail ELSE Q[f]]
  PROVE  R \in Trails /\ Backed(c, v2, ob2, ct2, sp2, R, P2)
<1>1. R \in Trails
  BY NilIs DEF Trails
<1>2. \A f \in File : (f \in ct2 => R[f] = NoTrail) /\ (f \notin ct2 => R[f] = Q[f])
  OBVIOUS
<1>3. \A f \in File : \A i \in Nat : i < R[f].n => f \notin ct2 /\ i < Q[f].n /\ R[f].at[i] = Q[f].at[i]
  BY <1>2, NilIs
<1>4. Apart(R, R) /\ Apart(R, P2)
  BY <1>3 DEF Apart, Backed
<1>5. ASSUME NEW f \in File, f \notin ct2
      PROVE  Told(c, SizeOf(v2, ob2[f], f), sp2, f, R[f])
  <2>1. Told(c, SizeOf(v, ob[f], f), sp, f, R[f])
    BY <1>2, <1>5 DEF Backed
  <2>2. c.entry[f].size \in Nat
    BY FileHere
  <2>3. SizeOf(v, ob[f], f) \in Nat /\ SizeOf(v2, ob2[f], f) \in Nat
        /\ SizeOf(v, ob[f], f) <= SizeOf(v2, ob2[f], f)
        /\ (f \in sp /\ f \notin sp2 => SizeOf(v, ob[f], f) = 0)
    BY <1>5
  <2> DEFINE m == SizeOf(v, ob[f], f)
             m2 == SizeOf(v2, ob2[f], f)
  <2> HIDE DEF m, m2
  <2>4. ASSUME c.entry[f].used, f \notin sp2 PROVE Holds(c, f, R[f], c.entry[f].size)
    <3>1. CASE f \in sp
      <4>1. m = 0
        BY <2>3, <2>4, <3>1 DEF m
      <4>2. c.entry[f].size <= 0
        BY <2>1, <2>4, <4>1 DEF Told, m
      <4>3. c.entry[f].size = 0
        BY <2>2, <4>2
      <4> QED
        BY <4>3, HoldsNone
    <3>2. CASE f \notin sp
      BY <2>1, <2>4, <3>2 DEF Told
    <3> QED
      BY <3>1, <3>2
  <2>5. ASSUME c.entry[f].used PROVE c.entry[f].size <= m2
    <3>1. c.entry[f].size <= m /\ m \in Nat /\ m2 \in Nat /\ m <= m2
      BY <2>1, <2>3, <2>5 DEF Told, m, m2
    <3> QED
      BY <2>2, <3>1
  <2> QED
    BY <2>1, <2>4, <2>5 DEF Told, m2
<1>6. \A f \in File : \A i \in Nat : i < R[f].n => v2.fat[R[f].at[i]] # Free
  BY <1>3
<1>7. \A f \in File : f \in ct2 => R[f].n = 0
  BY <1>2, NilIs
<1> QED
  BY <1>1, <1>4, <1>5, <1>6, <1>7 DEF Backed

\* all that holds whatever file w is in the middle of
Ground(w, P, Q) ==
  /\ P \in Trails /\ Q \in Trails /\ Apart(P, P)
  /\ Backed(card, view, obj, cut, spoiled, Q, P)
  /\ \A f \in File : f # w => Fine(view, obj[f], cut, spoiled, adrift, f, P[f])

\* cluster c is in no chain of X
Outside(X, c) == \A f \in File : Misses(X[f], c)

LEMMA SizeOfIs ==
  ASSUME NEW v, IsVolume(v), NEW o \in Object, NEW f \in File
  PROVE  SizeOf(v, o, f) \in Nat
  BY FileHere DEF SizeOf, Object

\* Chains that grow by clusters of nobody's stay apart.
LEMMA GrowsApart ==
  ASSUME NEW w \in File, NEW P \in Trails, NEW P2 \in Trails, Apart(P, P), Simple(P2[w]),
         \A f \in File : f # w => P2[f] = P[f],
         \A i \in Nat : i < P2[w].n =>
           (i < P[w].n /\ P2[w].at[i] = P[w].at[i]) \/ Outside(P, P2[w].at[i])
  PROVE  Apart(P2, P2)
<1> SUFFICES ASSUME NEW f \in File, NEW g \in File, NEW i \in Nat, NEW j \in Nat,
                    i < P2[f].n, j < P2[g].n, P2[f].at[i] = P2[g].at[j]
             PROVE  f = g /\ i = j
  BY DEF Apart
<1>1. CASE f = w /\ g = w
  BY <1>1 DEF Simple
<1>2. CASE f # w /\ g = w
  BY <1>2 DEF Apart, Outside, Misses
<1>3. CASE f = w /\ g # w
  BY <1>3 DEF Apart, Outside, Misses
<1>4. CASE f # w /\ g # w
  BY <1>4 DEF Apart
<1> QED
  BY <1>1, <1>2, <1>3, <1>4

LEMMA GrowsBeside ==
  ASSUME NEW w \in File, NEW P \in Trails, NEW P2 \in Trails, NEW R \in Trails, Apart(R, P),
         \A f \in File : f # w => P2[f] = P[f],
         \A i \in Nat : i < P2[w].n =>
           (i < P[w].n /\ P2[w].at[i] = P[w].at[i]) \/ Outside(R, P2[w].at[i])
  PROVE  Apart(R, P2)
<1> SUFFICES ASSUME NEW f \in File, NEW g \in File, NEW i \in Nat, NEW j \in Nat,
                    i < R[f].n, j < P2[g].n, R[f].at[i] = P2[g].at[j]
             PROVE  f = g /\ i = j
  BY DEF Apart
<1>1. CASE g = w
  BY <1>1 DEF Apart, Outside, Misses
<1>2. CASE g # w
  BY <1>2 DEF Apart
<1> QED
  BY <1>1, <1>2

LEMMA MixedMisses ==
  ASSUME NEW P, NEW Q, NEW R, Mixed(R, Q, P), NEW c, NEW f \in File, Misses(P[f], c), Misses(Q[f], c)
  PROVE  Misses(R[f], c)
<1>1. R[f] = Q[f] \/ R[f] = P[f] \/ R[f] = NoTrail
  BY DEF Mixed
<1> QED
  BY <1>1, NilIs DEF Misses

-----------------------------------------------------------------------------
(***************************************************************************)
(* What a step of one file leaves of the others                            *)
(***************************************************************************)
LEMMA CutsIs ==
  ASSUME NEW freed, Cuts(freed), card' = card \/ card' = view
  PROVE  \E ct : /\ cut' = freed \cup ct
                 /\ \/ card' = card /\ ct = cut
                    \/ card' = view /\ ct = IF Hit(DirBlock) THEN {f \in cut : obj[f].dirDirty} ELSE cut
<1>1. CASE card' = view
  BY <1>1 DEF Cuts
<1>2. CASE card' # view
  BY <1>2 DEF Cuts
<1> QED
  BY <1>1, <1>2

\* A step changes the file w only, and what it frees is w's.
LEMMA GroundStep ==
  ASSUME IInv, IInv', NEW w \in File, NEW P, NEW Q, Ground(w, P, Q),
         Anchored(view, cache, obj[w], cut, spoiled, w, P[w]),
         NEW freed \in SUBSET {w}, Cuts(freed), card' = card \/ card' = view,
         NEW P2 \in Trails, Simple(P2[w]), \A f \in File : f # w => P2[f] = P[f],
         \A i \in Nat : i < P2[w].n =>
           \/ i < P[w].n /\ P2[w].at[i] = P[w].at[i]
           \/ Outside(P, P2[w].at[i]) /\ Outside(Q, P2[w].at[i]),
         \A f \in File : f # w =>
           /\ obj'[f] = obj[f] /\ view'.entry[f] = view.entry[f] /\ SameAlong(view, view', P[f])
           /\ (f \in adrift => f \in adrift') /\ (f \in spoiled <=> f \in spoiled'),
         \A c \in Cluster : view.fat[c] # Free /\ view'.fat[c] = Free =>
           w \in freed /\ \A f \in File : f # w => Misses(Q[f], c),
         w \notin cut' =>
           /\ SizeOf(view, obj[w], w) <= SizeOf(view', obj'[w], w)
           /\ w \in spoiled /\ w \notin spoiled' => SizeOf(view, obj[w], w) = 0
  PROVE  \E R \in Trails : Mixed(R, Q, P) /\ Ground(w, P2, R)'
<1>1. PICK ct : /\ cut' = freed \cup ct
                /\ \/ card' = card /\ ct = cut
                   \/ card' = view /\ ct = IF Hit(DirBlock) THEN {f \in cut : obj[f].dirDirty} ELSE cut
  BY CutsIs
<1>2. /\ P \in Trails /\ Q \in Trails /\ Apart(P, P) /\ Backed(card, view, obj, cut, spoiled, Q, P)
      /\ \A f \in File : f # w => Fine(view, obj[f], cut, spoiled, adrift, f, P[f])
  BY DEF Ground
<1>3. /\ IsVolume(view) /\ IsVolume(card) /\ obj \in [File -> Object]
      /\ IsVolume(view') /\ IsVolume(card') /\ obj' \in [File -> Object]
  BY DEF IInv, Coherent
<1>4. \A f \in File : Anchored(view, cache, obj[f], cut, spoiled, f, P[f])
  BY <1>2 DEF Fine, Anchored
<1>5. PICK R1 \in Trails : Mixed(R1, Q, P) /\ Backed(card', view, obj, ct, spoiled, R1, P)
  BY <1>1, <1>2, <1>3, <1>4, CardStep
<1>6. \A i \in Nat : i < P2[w].n =>
        /\ (i < P[w].n /\ P2[w].at[i] = P[w].at[i]) \/ Outside(P, P2[w].at[i])
        /\ (i < P[w].n /\ P2[w].at[i] = P[w].at[i]) \/ Outside(R1, P2[w].at[i])
  BY <1>5, MixedMisses DEF Outside
<1>7. Apart(P2, P2)
  BY <1>2, <1>6, GrowsApart
<1>8. Apart(R1, P2)
  BY <1>2, <1>5, <1>6, GrowsBeside DEF Backed
<1>9. \A f \in File : SizeOf(view, obj[f], f) \in Nat /\ SizeOf(view', obj'[f], f) \in Nat
  BY <1>3, SizeOfIs
<1>10. ASSUME NEW f \in File, f # w PROVE SizeOf(view, obj[f], f) = SizeOf(view', obj'[f], f)
  BY <1>10 DEF SizeOf
<1>11. ASSUME NEW f \in File, f \notin cut', NEW i \in Nat, i < R1[f].n
       PROVE  view'.fat[R1[f].at[i]] # Free
  <2> DEFINE c == R1[f].at[i]
  <2>1. f \notin ct /\ (f = w => w \notin freed)
    BY <1>1, <1>11
  <2>2. c \in Cluster
    <3>1. Links(card'.fat, HeadIn(card', f), R1[f])
      BY <1>5, <2>1 DEF Backed, Told
    <3> QED
      BY <1>11, <3>1 DEF Links
  <2>3. view.fat[c] # Free
    BY <1>5, <1>11 DEF Backed
  <2> SUFFICES ASSUME view'.fat[c] = Free PROVE FALSE
    OBVIOUS
  <2>4. w \in freed /\ f # w /\ Misses(Q[f], c)
    BY <2>1, <2>2, <2>3
  <2>5. Misses(P[f], c)
    BY <2>3, <2>4 DEF SameAlong, Misses
  <2> QED
    BY <1>5, <1>11, <2>4, <2>5, MixedMisses DEF Misses
<1> DEFINE R == [f \in File |-> IF f \in cut' THEN NoTrail ELSE R1[f]]
<1>12. ct \subseteq cut'
  BY <1>1
<1>13. \A f \in File : f \notin cut' =>
         /\ SizeOf(view, obj[f], f) <= SizeOf(view', obj'[f], f)
         /\ (f \in spoiled /\ f \notin spoiled' => SizeOf(view, obj[f], f) = 0)
  <2> SUFFICES ASSUME NEW f \in File, f \notin cut'
               PROVE  /\ SizeOf(view, obj[f], f) <= SizeOf(view', obj'[f], f)
                      /\ (f \in spoiled /\ f \notin spoiled' => SizeOf(view, obj[f], f) = 0)
    OBVIOUS
  <2>1. CASE f = w
    BY <2>1
  <2>2. CASE f # w
    BY <1>9, <1>10, <2>2
  <2> QED
    BY <2>1, <2>2
<1>14. PICK S : S = R
  OBVIOUS
<1>15. S \in Trails /\ Backed(card', view', obj', cut', spoiled', S, P2)
  BY <1>3, <1>5, <1>8, <1>9, <1>11, <1>12, <1>13, <1>14, BackedOn
<1>16. Mixed(S, Q, P)
  BY <1>5, <1>14 DEF Mixed
<1>17. ASSUME NEW f \in File, f # w
       PROVE  Fine(view', obj'[f], cut', spoiled', adrift', f, P2[f])
  <2>1. f \notin cut' => f \notin cut \/ ~obj[f].dirDirty
    BY <1>1, <1>17
  <2>2. Fine(view, obj[f], cut, spoiled, adrift, f, P[f]) /\ obj[f] \in Object /\ P[f] \in Trail
    BY <1>2, <1>3, <1>17 DEF Trails
  <2>3. Fine(view', obj[f], cut', spoiled', adrift', f, P[f])
    BY <1>3, <1>17, <2>1, <2>2, FineKept
  <2> QED
    BY <1>17, <2>3
<1> QED
  BY <1>7, <1>15, <1>16, <1>17 DEF Ground

\* ... and does not change the view
LEMMA GroundLooks ==
  ASSUME IInv, IInv', NEW w \in File, NEW P, NEW Q, Ground(w, P, Q),
         Anchored(view, cache, obj[w], cut, spoiled, w, P[w]),
         Cuts({}), card' = card \/ card' = view, view' = view,
         \A f \in File : f # w =>
           /\ obj'[f] = obj[f]
           /\ (f \in adrift => f \in adrift') /\ (f \in spoiled <=> f \in spoiled'),
         w \notin cut' =>
           /\ SizeOf(view, obj[w], w) <= SizeOf(view, obj'[w], w)
           /\ w \in spoiled /\ w \notin spoiled' => SizeOf(view, obj[w], w) = 0
  PROVE  \E R \in Trails : Mixed(R, Q, P) /\ Ground(w, P, R)'
<1>1. P \in Trails /\ Simple(P[w])
  BY ApartIs DEF Ground
<1>2. \A f \in File : SameAlong(view, view', P[f])
  BY DEF SameAlong
<1>3. {} \in SUBSET {w}
  OBVIOUS
<1> QED
  BY <1>1, <1>2, <1>3, GroundStep

-----------------------------------------------------------------------------
(***************************************************************************)
(* The inductive invariant                                                 *)
(***************************************************************************)
EasyTask == [do : {"sync", "flush", "look", "stamp", "range", "seek"}, arg : Nat]
\* tasks that change no chain, and the end of a file of length l
Easy(l) == EasyTask \cup {t \in {Task("erase", 0)} : l = 0}

\* n more bytes stay within the volume; curCluster_ is c, unless the file is adrift, and
\* then the rest of the transfer at least stays within the volume
Fits(o, n)             == o.pos + n <= Full /\ o.size + n <= Full
Tracks(o, f, ad, c, n) == o.cur = c \/ (f \in ad /\ Fits(o, n))

\* k clusters to go, then s; what truncate(n) has to do when it is where to cut, and
\* when the rest of the chain is freed; then r
Hops(k, s)       == [i \in 1 .. k |-> Task("hop", 0)] \o s
Cutting(h, n, r) == <<IF n = 0 THEN Task("free", h) ELSE Task("tail", 0)>> \o (<<Task("shrink", n)>> \o r)
Ending(n, r)     == IF n = 0 THEN <<Task("shrink", 0)>> \o r ELSE <<Task("end", 0)>> \o (<<Task("shrink", n)>> \o r)

\* what follows a seek to a
After(o, f, ad, R, a) ==
  \/ R \in Seq(Easy(o.size))
  \/ \E n \in Nat \ {0} : R = <<Task("put", n)>> /\ (f \in ad => Fits(o, n))
  \/ o.size > 0 /\ \E r \in Seq(Easy(a)) : R = Cutting(o.first, a, r)

\* close, open, and a seek that has not begun
Closing ==
  /\ O.open
  /\ \/ todo = <<Task("sync", 0), Task("flush", 0), Task("shut", 0)>>
     \/ ~O.dirDirty /\ todo = <<Task("flush", 0), Task("shut", 0)>>
     \/ ~O.dirDirty /\ todo = <<Task("shut", 0)>>
Opening ==
  /\ ~O.open
  /\ \E m \in SUBSET Flags :
       \/ ~view.entry[who].used /\ todo = <<Task("create", 0), Task("flush", 0), Task("find", m)>>
       \/ view.entry[who].used /\ todo = <<Task("flush", 0), Task("find", m)>>
       \/ view.entry[who].used /\ todo = <<Task("find", m)>>
Setting ==
  O.open /\ \E a \in Nat : \E R \in Seq(Plain) :
    todo = <<Task("seek", a)>> \o R /\ After(O, who, adrift, R, a)

\* Five things a call can be at, and what it knows of chain x of its file. First, all
\* that changes no chain: the file is as if nothing was going on.
Intact(x, l)  == O.open /\ Base(view, O, cut, spoiled, who, x, l)
FineNow(x)    == Fine(view, O, cut, spoiled, adrift, who, x)
Quiet(x) ==
  /\ got = {} /\ FineNow(x)
  /\ \/ todo \in Seq(Easy(O.size)) /\ SizeOf(view, O, who) = O.size
     \/ Closing \/ Opening \/ Setting

\* A read: what it has got is what the file has; before a piece curCluster_ is the
\* cluster of the position, at a boundary still the one before.
Reading(x) ==
  /\ Intact(x, O.size) /\ Reach(view, O, adrift, spoiled, who, x)
  /\ \A r \in got : who \notin adrift /\ who \notin spoiled /\ r[1] < O.size => r[2] = <<who, r[1]>>
  /\ \E n \in Nat :
       \/ todo = <<Task("read", n)>> /\ Tracks(O, who, adrift, AtPos(x, O.pos), n)
       \/ n > 0 /\ todo = <<Task("copy", n)>> /\ Tracks(O, who, adrift, At(x, Index(O.pos)), n)

\* A write: the same, and it may be about to take a cluster, or have taken c and be
\* about to tie it to the end of x: nobody has c, on the card neither.
Writing(x, P, Q) ==
  /\ got = {} /\ Intact(x, O.size) /\ Reach(view, O, adrift, spoiled, who, x)
  /\ \E n \in Nat :
       \/ /\ todo = <<Task("put", n)>> /\ Tracks(O, who, adrift, AtPos(x, O.pos), n)
          /\ n = 0 /\ who \in adrift => who \in spoiled
       \/ n > 0 /\ todo = <<Task("fill", n)>> /\ Tracks(O, who, adrift, At(x, Index(O.pos)), n)
       \/ /\ n > 0 /\ AtCluster(O.pos) /\ Tracks(O, who, adrift, AtPos(x, O.pos), n) /\ O.cur = AtEnd(x)
          /\ \/ todo = <<Task("take", 0), Task("fill", n)>>
             \/ x.n > 0 /\ \E c \in Cluster :
                  /\ todo = <<Task("tie", c), Task("fill", n)>>
                  /\ view.fat[c] = Eoc /\ Outside(P, c) /\ Outside(Q, c)

\* A seek to a with k clusters to go: the cluster reached is k before the one of a.
Seeking(x) ==
  /\ got = {} /\ Intact(x, O.size)
  /\ \E k \in Nat, a \in Nat \ {0} : \E R \in Seq(Plain) :
       /\ todo = Hops(k, <<Task("arrive", a)>> \o R)
       /\ a <= O.size /\ After(O, who, adrift, R, a)
       /\ who \notin adrift => k <= Index(a - 1) /\ O.cur = At(x, Index(a - 1) - k)

\* a chain that is being freed
Loose(D, P, Q) ==
  /\ D.n > 0 /\ Simple(D) /\ Links(view.fat, D.at[0], D)
  /\ \A i \in Nat : i < D.n => Outside(P, D.at[i]) /\ Outside(Q, D.at[i])

\* the first clusters of a file, for n bytes; what they are linked to is freed
Torn(x, n) ==
  /\ who \in cut /\ cache.block # DirBlock
  /\ Entered(view.entry[who], O, cut, who) /\ Chain(view.fat, x)
  /\ n = 0 => x.n = 0
  /\ n > 0 => x.n > 0 /\ O.first = x.at[0] /\ view.fat[x.at[x.n - 1]] # Free
  /\ O.cur = AtEnd(x) /\ (who \notin adrift => O.cur = AtPos(x, n))
  /\ who \notin spoiled => Holds(view, who, x, n)

\* to be cut where the position is; a cluster of the chain is to be freed, the s-th
\* from now on, or the first of those that were cut off; the clusters that stay are
\* to be ended; the object is to be told
CutsFirst(x, n, r) == FineNow(x) /\ (n = 0 => who \notin adrift) /\ todo = Cutting(O.first, n, r)
FreesNext(x, n, r) ==
  /\ FineNow(x) /\ n > 0 /\ (who \in adrift => who \in spoiled)
  /\ \E s \in Nat \ {0} : /\ s < x.n /\ O.cur = x.at[s - 1]
                          /\ todo = <<Task("free", x.at[s])>> \o Ending(n, r)
FreesLoose(x, n, r, P, Q) ==
  /\ Torn(x, n)
  /\ \E D \in Trail : Loose(D, P, Q) /\ todo = <<Task("free", D.at[0])>> \o Ending(n, r)
EndsChain(x, n, r) == Torn(x, n) /\ todo = Ending(n, r)
Shrinks(x, n, r) ==
  /\ n > 0 /\ Intact(x, n) /\ Placed(O, adrift, who, x)
  /\ todo = <<Task("shrink", n)>> \o r

\* A truncate to n bytes; r tells the directory and finds the position again. Between
\* the first free and the end of chain x only a chain of what is kept, and D of what is
\* not, and the card may have any part of either.
Truncating(x, P, Q) ==
  /\ got = {} /\ O.open /\ O.size > 0
  /\ \E n \in Nat : \E r \in Seq(Easy(n)) :
       /\ n <= O.size /\ O.pos = n
       /\ \/ CutsFirst(x, n, r) \/ FreesNext(x, n, r) \/ FreesLoose(x, n, r, P, Q)
          \/ EndsChain(x, n, r) \/ Shrinks(x, n, r)

\* the call in progress
Phase(P, Q) ==
  LET x == P[who] IN Quiet(x) \/ Reading(x) \/ Writing(x, P, Q) \/ Seeking(x) \/ Truncating(x, P, Q)

\* P are the chains of the files in the view, Q on the card
Sound(P, Q) ==
  /\ Ground(who, P, Q)
  /\ who = None => got = {}
  /\ who # None => Phase(P, Q)

\* The inductive invariant. Once clusters were freed that something still refers to no
\* call goes on and nothing is said of chains.
ChainInv ==
  /\ IInv /\ TypeOK
  /\ broken => Idle
  /\ ~broken => \E P \in Trails, Q \in Trails : Sound(P, Q)

LEMMA ConsIs ==
  ASSUME NEW a \in Plain, NEW s \in Seq(Plain)
  PROVE  /\ <<a>> \o s # <<>> /\ Head(<<a>> \o s) = a /\ Tail(<<a>> \o s) = s
         /\ <<a>> \o s \in Seq(Plain)
  OBVIOUS

LEMMA EasyIs ==
  ASSUME NEW l \in Nat
  PROVE  /\ Easy(l) \subseteq Plain
         /\ \A t \in Easy(l) : /\ t.do \in {"sync", "flush", "look", "stamp", "range", "seek", "erase"}
                               /\ t.do = "erase" => l = 0
                               /\ t.arg \in Nat
         /\ \A d \in {"sync", "flush", "look", "stamp", "range", "seek"} : \A n \in Nat : Task(d, n) \in Easy(l)
         /\ Task("erase", 0) \in Easy(0)
  BY DEF Easy, EasyTask, Plain, Task

LEMMA EasyList ==
  ASSUME NEW l \in Nat, NEW s \in Seq(Easy(l))
  PROVE  /\ s \in Seq(Plain)
         /\ s # <<>> => Head(s) \in Easy(l) /\ Tail(s) \in Seq(Easy(l))
  BY EasyIs

LEMMA HopsIs ==
  ASSUME NEW k \in Nat, NEW s \in Seq(Plain)
  PROVE  /\ k = 0 => Hops(k, s) = s
         /\ k > 0 => /\ Hops(k, s) # <<>> /\ Head(Hops(k, s)) = Task("hop", 0)
                     /\ Tail(Hops(k, s)) = Hops(k - 1, s)
         /\ Hops(k, s) \in Seq(Plain)
<1> DEFINE h == [i \in 1 .. k |-> Task("hop", 0)]
           g == [i \in 1 .. k - 1 |-> Task("hop", 0)]
<1>1. h \in Seq(Plain) /\ Len(h) = k /\ Hops(k, s) = h \o s
  BY HopsAre DEF Hops
<1>2. Hops(k, s) \in Seq(Plain)
  BY <1>1, JoinIs
<1>3. k = 0 => h = <<>>
  BY <1>1
<1>4. k = 0 => Hops(k, s) = s
  BY <1>1, <1>3
<1>5. ASSUME k > 0
      PROVE  Hops(k, s) # <<>> /\ Head(Hops(k, s)) = Task("hop", 0) /\ Tail(Hops(k, s)) = Hops(k - 1, s)
  <2>1. k - 1 \in Nat
    BY <1>5
  <2>2. g \in Seq(Plain) /\ Len(g) = k - 1 /\ Hops(k - 1, s) = g \o s
    BY <2>1, HopsAre DEF Hops
  <2>3. \A i \in 1 .. k : h[i] = Task("hop", 0)
    OBVIOUS
  <2>4. \A i \in 1 .. k - 1 : g[i] = Task("hop", 0)
    OBVIOUS
  <2> HIDE DEF h, g
  <2>5. /\ Len(h \o s) = k + Len(s) /\ Len(s) \in Nat /\ h \o s \in Seq(Plain)
        /\ \A i \in 1 .. k + Len(s) : (h \o s)[i] = IF i <= k THEN h[i] ELSE s[i - k]
    BY <1>1, ConcatProperties, LenProperties
  <2>6. h \o s # <<>> /\ Head(h \o s) = Task("hop", 0)
    <3>1. h \o s # <<>>
      BY <1>5, <2>5
    <3>2. Head(h \o s) = (h \o s)[1] /\ 1 \in 1 .. k + Len(s) /\ 1 \in 1 .. k
      BY <1>5, <2>5, <3>1
    <3> QED
      BY <2>3, <2>5, <3>1, <3>2
  <2>7. Tail(h \o s) \in Seq(Plain) /\ g \o s \in Seq(Plain)
    BY <1>1, <2>2, <2>6, JoinIs
  <2>8. /\ Len(Tail(h \o s)) = k - 1 + Len(s) /\ Len(g \o s) = k - 1 + Len(s)
        /\ \A i \in 1 .. k - 1 + Len(s) : Tail(h \o s)[i] = (h \o s)[i + 1]
        /\ \A i \in 1 .. k - 1 + Len(s) : (g \o s)[i] = IF i <= k - 1 THEN g[i] ELSE s[i - (k - 1)]
    <3>1. Len(Tail(h \o s)) = Len(h \o s) - 1 /\ \A i \in 1 .. Len(h \o s) - 1 : Tail(h \o s)[i] = (h \o s)[i + 1]
      BY <2>5, <2>6, HeadTailProperties
    <3>2. Len(h \o s) - 1 = k - 1 + Len(s)
      BY <1>5, <2>5
    <3>3. Len(g \o s) = k - 1 + Len(s)
          /\ \A i \in 1 .. k - 1 + Len(s) : (g \o s)[i] = IF i <= k - 1 THEN g[i] ELSE s[i - (k - 1)]
      BY <2>2, ConcatProperties
    <3> QED
      BY <3>1, <3>2, <3>3
  <2>9. ASSUME NEW i \in 1 .. k - 1 + Len(s) PROVE Tail(h \o s)[i] = (g \o s)[i]
    <3>1. Tail(h \o s)[i] = (h \o s)[i + 1] /\ (g \o s)[i] = IF i <= k - 1 THEN g[i] ELSE s[i - (k - 1)]
      BY <2>8
    <3> DEFINE l == Len(s)
    <3>2. i \in Nat \ {0} /\ l \in Nat /\ i <= k - 1 + l /\ i + 1 \in 1 .. k + l
      BY <1>5, <2>5
    <3> HIDE DEF l
    <3>3. (h \o s)[i + 1] = IF i + 1 <= k THEN h[i + 1] ELSE s[i + 1 - k]
      BY <2>5, <3>2 DEF l
    <3>4. CASE i <= k - 1
      <4>1. i + 1 <= k /\ i + 1 \in 1 .. k /\ i \in 1 .. k - 1
        BY <3>2, <3>4
      <4> QED
        BY <2>3, <2>4, <3>1, <3>3, <3>4, <4>1
    <3>5. CASE i > k - 1
      <4>1. ~(i + 1 <= k) /\ ~(i <= k - 1) /\ i + 1 - k = i - (k - 1)
        BY <3>2, <3>5
      <4> QED
        BY <3>1, <3>3, <4>1
    <3>6. i <= k - 1 \/ i > k - 1
      BY <3>2
    <3> QED
      BY <3>4, <3>5, <3>6, Zenon
  <2>10. Tail(h \o s) = g \o s
    BY <2>7, <2>8, <2>9, SeqEqual
  <2> QED
    BY <1>1, <2>2, <2>6, <2>10
<1> QED
  BY <1>2, <1>4, <1>5

-----------------------------------------------------------------------------
(***************************************************************************)
(* The task at hand                                                        *)
(***************************************************************************)
LEMMA HeadIs ==
  ASSUME NEW a \in Plain, NEW s \in Seq(Plain), todo = <<a>> \o s
  PROVE  todo # <<>> /\ Head(todo) = a /\ Rest = s /\ ~Idle /\ Arg = a.arg
  BY ConsIs DEF Rest, Idle, Arg

LEMMA CuttingIs ==
  ASSUME NEW h \in Nat, NEW n \in Nat, NEW r \in Seq(Easy(n))
  PROVE  /\ Cutting(h, n, r) \in Seq(Plain) /\ Cutting(h, n, r) # <<>>
         /\ Head(Cutting(h, n, r)) = IF n = 0 THEN Task("free", h) ELSE Task("tail", 0)
         /\ Tail(Cutting(h, n, r)) = <<Task("shrink", n)>> \o r
         /\ <<Task("shrink", n)>> \o r \in Seq(Plain) /\ r \in Seq(Plain)
<1>1. r \in Seq(Plain) /\ Task("shrink", n) \in Plain /\ Task("free", h) \in Plain /\ Task("tail", 0) \in Plain
  BY EasyList, TaskIs
<1>2. <<Task("shrink", n)>> \o r \in Seq(Plain)
  BY <1>1, ConsIs
<1> QED
  BY <1>1, <1>2, ConsIs DEF Cutting

LEMMA EndingIs ==
  ASSUME NEW n \in Nat, NEW r \in Seq(Easy(n))
  PROVE  /\ Ending(n, r) \in Seq(Plain) /\ Ending(n, r) # <<>>
         /\ Head(Ending(n, r)) = IF n = 0 THEN Task("shrink", 0) ELSE Task("end", 0)
         /\ Tail(Ending(n, r)) = IF n = 0 THEN r ELSE <<Task("shrink", n)>> \o r
         /\ <<Task("shrink", n)>> \o r \in Seq(Plain) /\ r \in Seq(Plain)
<1>1. r \in Seq(Plain) /\ Task("shrink", n) \in Plain /\ Task("shrink", 0) \in Plain /\ Task("end", 0) \in Plain
  BY EasyList, TaskIs
<1>2. <<Task("shrink", n)>> \o r \in Seq(Plain)
  BY <1>1, ConsIs
<1> QED
  BY <1>1, <1>2, ConsIs DEF Ending

\* the tasks that change no chain
QuietDo == {"sync", "flush", "look", "stamp", "range", "seek", "erase", "shut", "create", "find"}

LEMMA QuietHead ==
  ASSUME NEW x, Quiet(x), O \in Object, ~Idle
  PROVE  Head(todo).do \in QuietDo
<1>1. O.size \in Nat /\ 0 \in Nat
  BY DEF Object
<1>2. CASE todo \in Seq(Easy(O.size))
  <2>1. Head(todo) \in Easy(O.size)
    BY <1>1, <1>2, EasyList DEF Idle
  <2> QED
    BY <1>1, <2>1, EasyIs DEF QuietDo
<1>3. CASE Closing
  BY <1>3 DEF Closing, Task, QuietDo
<1>4. CASE Opening
  BY <1>4 DEF Opening, Task, QuietDo
<1>5. CASE Setting
  <2>1. PICK a \in Nat, R \in Seq(Plain) : todo = <<Task("seek", a)>> \o R
    BY <1>5 DEF Setting
  <2>2. Head(todo) = Task("seek", a)
    BY <2>1, TaskIs, HeadIs
  <2> QED
    BY <2>2 DEF Task, QuietDo
<1> QED
  BY <1>2, <1>3, <1>4, <1>5 DEF Quiet

LEMMA ReadingHead ==
  ASSUME NEW x, Reading(x)
  PROVE  Head(todo).do \in {"read", "copy"}
  BY DEF Reading, Task

LEMMA WritingHead ==
  ASSUME NEW x, NEW P, NEW Q, Writing(x, P, Q)
  PROVE  Head(todo).do \in {"put", "fill", "take", "tie"}
  BY DEF Writing, Task

LEMMA SeekingHead ==
  ASSUME NEW x, Seeking(x)
  PROVE  Head(todo).do \in {"hop", "arrive"}
<1>1. PICK k \in Nat, a \in Nat \ {0}, R \in Seq(Plain) : todo = Hops(k, <<Task("arrive", a)>> \o R)
  BY DEF Seeking
<1>2. Task("arrive", a) \in Plain
  BY TaskIs
<1>3. <<Task("arrive", a)>> \o R \in Seq(Plain) /\ Head(<<Task("arrive", a)>> \o R) = Task("arrive", a)
  BY <1>2, ConsIs
<1>4. Head(todo) = IF k = 0 THEN Task("arrive", a) ELSE Task("hop", 0)
  <2> DEFINE s == <<Task("arrive", a)>> \o R
  <2> HIDE DEF s
  <2>1. s \in Seq(Plain) /\ Head(s) = Task("arrive", a) /\ todo = Hops(k, s)
    BY <1>1, <1>3 DEF s
  <2>2. CASE k = 0
    BY <2>1, <2>2, HopsIs
  <2>3. CASE k > 0
    BY <2>1, <2>3, HopsIs
  <2> QED
    BY <2>2, <2>3
<1> QED
  BY <1>4 DEF Task

LEMMA TruncatingHead ==
  ASSUME NEW x \in Trail, NEW P, NEW Q, Truncating(x, P, Q), O \in Object
  PROVE  Head(todo).do \in {"tail", "free", "end", "shrink"}
<1>0. PICK n \in Nat : \E r \in Seq(Easy(n)) :
        \/ todo = Cutting(O.first, n, r) \/ todo = Ending(n, r) \/ todo = <<Task("shrink", n)>> \o r
        \/ \E c \in Nat : todo = <<Task("free", c)>> \o Ending(n, r)
  <2>1. x.at \in [Nat -> Nat] /\ 0 \in Nat /\ \A D \in Trail : D.at[0] \in Nat
    BY DEF Trail
  <2>2. \A s \in Nat \ {0} : x.at[s] \in Nat
    BY <2>1
  <2> QED
    BY <2>1, <2>2, ZenonT(30) DEF Truncating, CutsFirst, FreesNext, FreesLoose, EndsChain, Shrinks
<1>1. PICK r \in Seq(Easy(n)) :
        \/ todo = Cutting(O.first, n, r) \/ todo = Ending(n, r) \/ todo = <<Task("shrink", n)>> \o r
        \/ \E c \in Nat : todo = <<Task("free", c)>> \o Ending(n, r)
  BY <1>0
<1>2. O.first \in Nat
  BY DEF Object
<1>3. r \in Seq(Plain) /\ Ending(n, r) \in Seq(Plain) /\ Task("shrink", n) \in Plain
  BY EndingIs, TaskIs
<1>4. CASE todo = Cutting(O.first, n, r)
  <2>1. Head(todo) = Task("free", O.first) \/ Head(todo) = Task("tail", 0)
    BY <1>2, <1>4, CuttingIs
  <2> QED
    BY <2>1 DEF Task
<1>5. CASE todo = Ending(n, r)
  <2>1. Head(todo) = Task("shrink", 0) \/ Head(todo) = Task("end", 0)
    BY <1>5, EndingIs
  <2> QED
    BY <2>1 DEF Task
<1>6. CASE todo = <<Task("shrink", n)>> \o r
  BY <1>3, <1>6, HeadIs DEF Task
<1>7. CASE \E c \in Nat : todo = <<Task("free", c)>> \o Ending(n, r)
  <2>1. PICK c \in Nat : todo = <<Task("free", c)>> \o Ending(n, r)
    BY <1>7
  <2>2. Task("free", c) \in Plain
    BY TaskIs
  <2>3. Head(todo) = Task("free", c)
    BY <1>3, <2>1, <2>2, HeadIs
  <2> QED
    BY <2>3 DEF Task
<1> QED
  BY <1>1, <1>4, <1>5, <1>6, <1>7

\* the task at hand tells the phase
LEMMA AtPhase ==
  ASSUME ChainInv, NEW d, Doing(d)
  PROVE  /\ who \in File /\ O \in Object /\ O = obj[who] /\ ~broken /\ ~Idle
         /\ \E P \in Trails, Q \in Trails :
              /\ Ground(who, P, Q) /\ P[who] \in Trail /\ Simple(P[who])
              /\ d \in QuietDo => Quiet(P[who])
              /\ d \in {"read", "copy"} => Reading(P[who])
              /\ d \in {"put", "fill", "take", "tie"} => Writing(P[who], P, Q)
              /\ d \in {"hop", "arrive"} => Seeking(P[who])
              /\ d \in {"tail", "free", "end", "shrink"} => Truncating(P[who], P, Q)
<1>1. ~Idle /\ Head(todo).do = d
  BY DEF Doing
<1>2. ~broken
  BY <1>1 DEF ChainInv
<1>3. who \in File /\ who # None
  BY <1>1, NoneAssumption DEF ChainInv, IInv, Carried, Idle
<1>4. O \in Object
  BY <1>3 DEF ChainInv, IInv, O
<1>5. PICK P \in Trails, Q \in Trails : Sound(P, Q)
  BY <1>2 DEF ChainInv
<1>6. Ground(who, P, Q) /\ Phase(P, Q)
  BY <1>3, <1>5 DEF Sound
<1>7. P[who] \in Trail /\ Simple(P[who])
  BY <1>3, <1>6, ApartIs DEF Ground
<1>8. CASE Quiet(P[who])
  <2>1. d \in QuietDo
    BY <1>1, <1>4, <1>8, QuietHead
  <2> QED
    BY <1>1, <1>2, <1>3, <1>4, <1>6, <1>7, <1>8, <2>1 DEF QuietDo, O
<1>9. CASE Reading(P[who])
  <2>1. d \in {"read", "copy"}
    BY <1>1, <1>9, ReadingHead
  <2> QED
    BY <1>1, <1>2, <1>3, <1>4, <1>6, <1>7, <1>9, <2>1 DEF QuietDo, O
<1>10. CASE Writing(P[who], P, Q)
  <2>1. d \in {"put", "fill", "take", "tie"}
    BY <1>1, <1>10, WritingHead
  <2> QED
    BY <1>1, <1>2, <1>3, <1>4, <1>6, <1>7, <1>10, <2>1 DEF QuietDo, O
<1>11. CASE Seeking(P[who])
  <2>1. d \in {"hop", "arrive"}
    BY <1>1, <1>11, SeekingHead
  <2> QED
    BY <1>1, <1>2, <1>3, <1>4, <1>6, <1>7, <1>11, <2>1 DEF QuietDo, O
<1>12. CASE Truncating(P[who], P, Q)
  <2>1. d \in {"tail", "free", "end", "shrink"}
    BY <1>1, <1>4, <1>7, <1>12, TruncatingHead
  <2> QED
    BY <1>1, <1>2, <1>3, <1>4, <1>6, <1>7, <1>12, <2>1 DEF QuietDo, O
<1> QED
  BY <1>6, <1>8, <1>9, <1>10, <1>11, <1>12 DEF Phase

(* what a step comes to *)
LEMMA EndsSound ==
  ASSUME NEW w \in File, NEW P, NEW Q, Ground(w, P, Q)', who' = None, got' = {},
         Fine(view', obj'[w], cut', spoiled', adrift', w, P[w])
  PROVE  Sound(P, Q)'
  BY DEF Sound, Ground

LEMMA GoesSound ==
  ASSUME NEW w \in File, NEW P, NEW Q, Ground(w, P, Q)', who' = w, Phase(P, Q)'
  PROVE  Sound(P, Q)'
  BY NoneAssumption DEF Sound

LEMMA QuietGoes ==
  ASSUME NEW w \in File, NEW P, NEW Q, Ground(w, P, Q)', who' = w, got' = {},
         Fine(view', obj'[w], cut', spoiled', adrift', w, P[w]),
         \/ todo' \in Seq(Easy(obj'[w].size)) /\ SizeOf(view', obj'[w], w) = obj'[w].size
         \/ Closing' \/ Opening' \/ Setting'
  PROVE  Sound(P, Q)'
<1>1. O' = obj'[w]
  BY DEF O
<1>2. Quiet(P[w])'
  BY <1>1 DEF Quiet, FineNow
<1>3. Phase(P, Q)'
  BY <1>2 DEF Phase
<1> QED
  BY <1>3, GoesSound

\* the call goes on with tasks that change no chain, or returns
LEMMA EasyGoes ==
  ASSUME NEW w \in File, who = w, NEW P, NEW Q, Ground(w, P, Q)', got' = {}, NEW s, Then(s),
         s \in Seq(Easy(obj'[w].size)), SizeOf(view', obj'[w], w) = obj'[w].size,
         Fine(view', obj'[w], cut', spoiled', adrift', w, P[w])
  PROVE  Sound(P, Q)'
<1>1. CASE s = <<>>
  BY <1>1, EndsSound DEF Then
<1>2. CASE s # <<>>
  BY <1>2, QuietGoes DEF Then
<1> QED
  BY <1>1, <1>2

\* object u is o but for its place
SameBut(u, o) ==
  u.open = o.open /\ u.mode = o.mode /\ u.first = o.first /\ u.size = o.size /\ u.dirDirty = o.dirDirty

LEMMA CurSet ==
  ASSUME NEW o \in Object, NEW c \in Nat
  PROVE  SameBut([o EXCEPT !.cur = c], o) /\ [o EXCEPT !.cur = c].cur = c /\ [o EXCEPT !.cur = c].pos = o.pos
<1>1. [o EXCEPT !.cur = c] = [open |-> o.open, mode |-> o.mode, first |-> o.first, cur |-> c,
                              pos |-> o.pos, size |-> o.size, dirDirty |-> o.dirDirty]
  BY DEF Object
<1> QED
  BY <1>1 DEF SameBut

LEMMA CurMoved ==
  ASSUME NEW o \in Object, NEW c \in Nat, NEW u, u = [o EXCEPT !.cur = c]
  PROVE  u \in Object /\ SameBut(u, o) /\ u.pos = o.pos /\ u.cur = c
<1> DEFINE v == [o EXCEPT !.cur = c]
<1>1. SameBut(v, o) /\ v.cur = c /\ v.pos = o.pos
  BY CurSet, Zenon
<1>2. v \in Object
  BY 0 \in Nat, MovedIs, Zenon
<1> HIDE DEF v
<1>3. u = v
  BY DEF v
<1> QED
  BY ONLY <1>1, <1>2, <1>3

LEMMA PosSet ==
  ASSUME NEW o \in Object, NEW p \in Nat
  PROVE  SameBut([o EXCEPT !.pos = p], o) /\ [o EXCEPT !.pos = p].cur = o.cur /\ [o EXCEPT !.pos = p].pos = p
<1>1. [o EXCEPT !.pos = p] = [open |-> o.open, mode |-> o.mode, first |-> o.first, cur |-> o.cur,
                              pos |-> p, size |-> o.size, dirDirty |-> o.dirDirty]
  BY DEF Object
<1> QED
  BY <1>1 DEF SameBut

LEMMA PlaceSet ==
  ASSUME NEW o \in Object, NEW c \in Nat, NEW p \in Nat
  PROVE  LET u == [o EXCEPT !.cur = c, !.pos = p] IN SameBut(u, o) /\ u.cur = c /\ u.pos = p
<1>1. [o EXCEPT !.cur = c] \in Object
  BY MovedIs
<1>2. [o EXCEPT !.cur = c, !.pos = p] = [[o EXCEPT !.cur = c] EXCEPT !.pos = p]
  OBVIOUS
<1>3. SameBut([o EXCEPT !.cur = c], o) /\ [o EXCEPT !.cur = c].cur = c
  BY CurSet
<1> DEFINE m == [o EXCEPT !.cur = c]
<1> HIDE DEF m
<1>4. SameBut([m EXCEPT !.pos = p], m) /\ [m EXCEPT !.pos = p].cur = m.cur /\ [m EXCEPT !.pos = p].pos = p
  BY <1>1, PosSet DEF m
<1>5. [o EXCEPT !.cur = c, !.pos = p] = [m EXCEPT !.pos = p]
  BY <1>2 DEF m
<1>6. SameBut(m, o) /\ m.cur = c
  BY <1>3 DEF m
<1> QED
  BY <1>4, <1>5, <1>6 DEF SameBut

LEMMA SetsIs ==
  ASSUME IInv, who \in File, NEW u, Sets(u)
  PROVE  obj'[who] = u /\ \A f \in File : f # who => obj'[f] = obj[f]
  BY DEF IInv, Sets

\* volume v with another entry f
SetEntry(v, f, u)     == [v EXCEPT !.entry[f] = u]
TellEntry(v, f, a, b) == [v EXCEPT !.entry[f].first = a, !.entry[f].size = b]
EraseEntry(v, f)      == [v EXCEPT !.entry[f].used = FALSE]

LEMMA EntryOf ==
  ASSUME NEW v, NEW u, NEW f \in File, IsVolume(v)
  PROVE  /\ SetEntry(v, f, u).fat = v.fat /\ SetEntry(v, f, u).data = v.data
         /\ SetEntry(v, f, u).entry[f] = u
         /\ \A g \in File : g # f => SetEntry(v, f, u).entry[g] = v.entry[g]
<1>0. PICK v2 : v2 = [v EXCEPT !.entry[f] = u]
  OBVIOUS
<1> DEFINE e == [v.entry EXCEPT ![f] = u]
<1>1. v.entry \in DirEntries /\ v = [fat |-> v.fat, entry |-> v.entry, data |-> v.data]
  BY DEF IsVolume
<1>2. v2 = [v EXCEPT !.entry = e]
  BY <1>0, <1>1
<1>3. e[f] = u /\ \A g \in File : g # f => e[g] = v.entry[g]
  BY <1>1 DEF DirEntries
<1> HIDE DEF e
<1>4. v2 = [fat |-> v.fat, entry |-> e, data |-> v.data]
  BY <1>1, <1>2
<1>5. v2.fat = v.fat /\ v2.data = v.data /\ v2.entry = e
  BY <1>4
<1>6. v2 = SetEntry(v, f, u)
  BY <1>0 DEF SetEntry
<1> QED
  BY <1>3, <1>5, <1>6

LEMMA EntryErased ==
  ASSUME NEW v, NEW f \in File, IsVolume(v)
  PROVE  EraseEntry(v, f) = SetEntry(v, f, [used |-> FALSE, first |-> v.entry[f].first, size |-> v.entry[f].size])
<1> DEFINE e == v.entry[f]
           u == [used |-> FALSE, first |-> e.first, size |-> e.size]
<1>1. e \in [used : BOOLEAN, first : Nat, size : Nat]
  BY DEF IsVolume, DirEntries
<1>2. [e EXCEPT !.used = FALSE] = u
  <2> HIDE DEF e
  <2> DEFINE b == FALSE
  <2>1. b \in BOOLEAN
    OBVIOUS
  <2> HIDE DEF b
  <2>2. [e EXCEPT !.used = b] = [used |-> b, first |-> e.first, size |-> e.size]
    BY <1>1, <2>1
  <2> QED
    BY <2>2 DEF b
<1>3. [v EXCEPT !.entry[f].used = FALSE] = [v EXCEPT !.entry[f] = [e EXCEPT !.used = FALSE]]
  OBVIOUS
<1> HIDE DEF e, u
<1>4. [v EXCEPT !.entry[f].used = FALSE] = [v EXCEPT !.entry[f] = u]
  BY <1>2, <1>3
<1>5. SetEntry(v, f, u) = EraseEntry(v, f)
  BY <1>4 DEF SetEntry, EraseEntry
<1> QED
  BY <1>5 DEF u, e

LEMMA EntryTold ==
  ASSUME NEW v, NEW f \in File, IsVolume(v), NEW a \in Nat, NEW b \in Nat
  PROVE  TellEntry(v, f, a, b) = SetEntry(v, f, [used |-> v.entry[f].used, first |-> a, size |-> b])
<1> DEFINE e == v.entry[f]
           u == [used |-> e.used, first |-> a, size |-> b]
           e1 == [v.entry EXCEPT ![f] = [e EXCEPT !.first = a]]
           e2 == [e1 EXCEPT ![f] = [e1[f] EXCEPT !.size = b]]
           v1 == [v EXCEPT !.entry[f].first = a]
           v2 == [v EXCEPT !.entry[f].first = a, !.entry[f].size = b]
<1>1. v.entry \in DirEntries /\ v = [fat |-> v.fat, entry |-> v.entry, data |-> v.data]
      /\ e \in [used : BOOLEAN, first : Nat, size : Nat]
  BY DEF IsVolume, DirEntries
<1>2. v2 = [v1 EXCEPT !.entry[f].size = b]
  OBVIOUS
<1>3. v1 = [v EXCEPT !.entry = e1] /\ v1.entry = e1
  BY <1>1
<1>4. e1[f] = [e EXCEPT !.first = a]
  BY <1>1 DEF DirEntries
<1>5. [e EXCEPT !.first = a] = [used |-> e.used, first |-> a, size |-> e.size]
  BY <1>1
<1>6. [e1[f] EXCEPT !.size = b] = u
  BY <1>4, <1>5
<1>7. v2 = [v EXCEPT !.entry = e2]
  <2> HIDE DEF v1, e1, v2
  <2>1. v2 = [v1 EXCEPT !.entry = e2]
    BY <1>2, <1>3
  <2> HIDE DEF e2
  <2> QED
    BY <1>1, <1>3, <2>1
<1>8. e2 = [v.entry EXCEPT ![f] = u]
  <2> HIDE DEF e, u
  <2> QED
    BY <1>6, <1>1 DEF DirEntries
<1> HIDE DEF e2, v2
<1>9. v2 = [v EXCEPT !.entry[f] = u]
  BY <1>1, <1>7, <1>8
<1>10. TellEntry(v, f, a, b) = SetEntry(v, f, u)
  BY <1>9 DEF v2, SetEntry, TellEntry
<1> HIDE DEF e
<1> QED
  BY <1>10 DEF u, e

LEMMA LoadsCard ==
  ASSUME NEW b, NEW d, Loads(b, d)
  PROVE  card' = card \/ card' = view
  BY DEF Loads, FlushDone

LEMMA CutOf ==
  ASSUME Cuts({}), card' = card \/ card' = view
  PROVE  /\ \A f \in File : f \notin cut' => f \notin cut \/ ~obj[f].dirDirty
         /\ cut' \subseteq cut
         /\ ~Hit(DirBlock) => cut' = cut
<1>1. PICK ct : /\ cut' = {} \cup ct
                /\ \/ card' = card /\ ct = cut
                   \/ card' = view /\ ct = IF Hit(DirBlock) THEN {f \in cut : obj[f].dirDirty} ELSE cut
  BY CutsIs
<1> QED
  BY <1>1

LEMMA FineAnchored ==
  ASSUME NEW w, NEW x, who = w, FineNow(x)
  PROVE  Anchored(view, cache, obj[w], cut, spoiled, w, x) /\ Base(view, obj[w], cut, spoiled, w, x, obj[w].size)
  BY DEF FineNow, Fine, Anchored, O

\* A step that only looks leaves the file as it is.
LEMMA LooksFine ==
  ASSUME IInv, IInv', NEW w \in File, who = w, NEW P, NEW Q, Ground(w, P, Q), FineNow(P[w]),
         Cuts({}), card' = card \/ card' = view, UNCHANGED <<view, obj, adrift, spoiled>>
  PROVE  /\ \E R \in Trails : Mixed(R, Q, P) /\ Ground(w, P, R)'
         /\ Fine(view', obj'[w], cut', spoiled', adrift', w, P[w])
<1>1. obj[w] \in Object /\ IsVolume(view) /\ P[w] \in Trail
  BY DEF IInv, Coherent, Ground, Trails
<1>2. SizeOf(view, obj[w], w) \in Nat
  BY <1>1, SizeOfIs
<1>3. \E R \in Trails : Mixed(R, Q, P) /\ Ground(w, P, R)'
  <2> DEFINE m == SizeOf(view, obj[w], w)
  <2> HIDE DEF m
  <2>1. m <= m
    BY <1>2 DEF m
  <2>2. SizeOf(view, obj[w], w) <= SizeOf(view, obj'[w], w)
    BY <2>1 DEF m
  <2> QED
    BY <2>2, FineAnchored, GroundLooks
<1>4. SameAlong(view, view', P[w])
  BY DEF SameAlong
<1>5. Fine(view', obj[w], cut', spoiled', adrift', w, P[w])
  BY <1>1, <1>4, CutOf, FineKept DEF FineNow, O
<1> QED
  BY <1>3, <1>5

\* A step that leaves the volume as it is.
LEMMA GroundStays ==
  ASSUME IInv, IInv', NEW w \in File, NEW P, NEW Q, Ground(w, P, Q),
         view' = view, card' = card, cut \subseteq cut', cut' \subseteq cut \cup {w},
         \A f \in File : f # w =>
           /\ obj'[f] = obj[f]
           /\ (f \in adrift => f \in adrift') /\ (f \in spoiled <=> f \in spoiled'),
         w \notin cut' =>
           /\ SizeOf(view, obj[w], w) <= SizeOf(view, obj'[w], w)
           /\ w \in spoiled /\ w \notin spoiled' => SizeOf(view, obj[w], w) = 0
  PROVE  \E R \in Trails : Mixed(R, Q, P) /\ Ground(w, P, R)'
<1>1. /\ P \in Trails /\ Q \in Trails /\ Apart(P, P) /\ Backed(card, view, obj, cut, spoiled, Q, P)
      /\ \A f \in File : f # w => Fine(view, obj[f], cut, spoiled, adrift, f, P[f])
  BY DEF Ground
<1>2. /\ IsVolume(view) /\ IsVolume(card) /\ obj \in [File -> Object] /\ obj' \in [File -> Object]
  BY DEF IInv, Coherent
<1>3. \A f \in File : SizeOf(view, obj[f], f) \in Nat /\ SizeOf(view', obj'[f], f) \in Nat
  BY <1>2, SizeOfIs
<1> DEFINE R == [f \in File |-> IF f \in cut' THEN NoTrail ELSE Q[f]]
<1>4. PICK S : S = R
  OBVIOUS
<1>5. ASSUME NEW f \in File, f \notin cut'
      PROVE  /\ SizeOf(view, obj[f], f) <= SizeOf(view', obj'[f], f)
             /\ (f \in spoiled /\ f \notin spoiled' => SizeOf(view, obj[f], f) = 0)
             /\ \A i \in Nat : i < Q[f].n => view'.fat[Q[f].at[i]] # Free
  <2>1. CASE f = w
    BY <1>1, <1>5, <2>1 DEF Backed
  <2>2. CASE f # w
    BY <1>1, <1>3, <2>2 DEF Backed
  <2> QED
    BY <2>1, <2>2
<1>6. S \in Trails /\ Backed(card', view', obj', cut', spoiled', S, P)
  <2>1. Q \in Trails /\ Backed(card', view, obj, cut, spoiled, Q, P) /\ IsVolume(card') /\ Apart(Q, P)
    BY <1>1, <1>2 DEF Backed
  <2> HIDE DEF R
  <2>2. S = [f \in File |-> IF f \in cut' THEN NoTrail ELSE Q[f]]
    BY <1>4 DEF R
  <2> QED
    BY <1>3, <1>5, <2>1, <2>2, BackedOn
<1>7. Mixed(S, Q, P)
  BY <1>4 DEF Mixed
<1>8. ASSUME NEW f \in File, f # w
      PROVE  Fine(view', obj'[f], cut', spoiled', adrift', f, P[f])
  <2>1. obj[f] \in Object /\ P[f] \in Trail /\ SameAlong(view, view', P[f])
    BY <1>1, <1>2 DEF Trails, SameAlong
  <2>2. Fine(view', obj[f], cut', spoiled', adrift', f, P[f])
    BY <1>1, <1>2, <1>8, <2>1, FineKept
  <2> QED
    BY <1>8, <2>2
<1> QED
  BY <1>1, <1>6, <1>7, <1>8 DEF Ground

-----------------------------------------------------------------------------
(***************************************************************************)
(* Tasks that change no chain                                              *)
(***************************************************************************)
LEMMA OneOf ==
  ASSUME NEW S, NEW s \in S
  PROVE  <<s>> \in Seq(S)
  OBVIOUS

LEMMA NoneOf ==
  ASSUME NEW S
  PROVE  <<>> \in Seq(S)
  OBVIOUS

\* those that may follow a change of the size
EasyDo == {"sync", "flush", "look", "stamp", "range", "seek", "erase"}

\* what a call that touches no chain is at, and what is left of it
LEMMA QuietTasks ==
  ASSUME NEW x, Quiet(x), O \in Object, NEW d, Doing(d)
  PROVE  \/ /\ d \in EasyDo /\ Rest \in Seq(Easy(O.size)) /\ SizeOf(view, O, who) = O.size
            /\ Arg \in Nat /\ (d = "erase" => O.size = 0)
         \/ d = "sync" /\ O.open /\ Rest = <<Task("flush", 0), Task("shut", 0)>>
         \/ d = "flush" /\ O.open /\ ~O.dirDirty /\ Rest = <<Task("shut", 0)>>
         \/ d = "shut" /\ O.open /\ ~O.dirDirty /\ Rest = <<>>
         \/ /\ d = "create" /\ ~O.open /\ ~view.entry[who].used
            /\ \E m \in SUBSET Flags : Rest = <<Task("flush", 0), Task("find", m)>>
         \/ /\ d = "flush" /\ ~O.open /\ view.entry[who].used
            /\ \E m \in SUBSET Flags : Rest = <<Task("find", m)>>
         \/ d = "find" /\ ~O.open /\ view.entry[who].used /\ Rest = <<>> /\ Arg \in SUBSET Flags
         \/ /\ d = "seek" /\ O.open /\ Arg \in Nat /\ Rest \in Seq(Plain)
            /\ After(O, who, adrift, Rest, Arg)
<1>1. O.size \in Nat /\ 0 \in Nat /\ todo # <<>> /\ Head(todo).do = d
  BY DEF Object, Doing, Idle
<1>2. CASE todo \in Seq(Easy(O.size)) /\ SizeOf(view, O, who) = O.size
  <2>1. Head(todo) \in Easy(O.size) /\ Rest \in Seq(Easy(O.size))
    BY <1>1, <1>2, EasyList DEF Rest
  <2>2. d \in EasyDo /\ Arg \in Nat /\ (d = "erase" => O.size = 0)
    BY <1>1, <2>1, EasyIs DEF EasyDo, Arg
  <2> QED
    BY <1>2, <2>1, <2>2
<1>3. CASE Closing
  <2>1. /\ O.open
        /\ \/ todo = <<Task("sync", 0), Task("flush", 0), Task("shut", 0)>>
           \/ ~O.dirDirty /\ todo = <<Task("flush", 0), Task("shut", 0)>>
           \/ ~O.dirDirty /\ todo = <<Task("shut", 0)>>
    BY <1>3 DEF Closing
  <2>2. CASE todo = <<Task("sync", 0), Task("flush", 0), Task("shut", 0)>>
    <3>1. d = "sync"
      BY <1>1, <2>2 DEF Task
    <3>2. Rest = <<Task("flush", 0), Task("shut", 0)>>
      BY <2>2 DEF Rest
    <3> QED
      BY <2>1, <3>1, <3>2
  <2>3. CASE ~O.dirDirty /\ todo = <<Task("flush", 0), Task("shut", 0)>>
    <3>1. d = "flush"
      BY <1>1, <2>3 DEF Task
    <3>2. Rest = <<Task("shut", 0)>>
      BY <2>3 DEF Rest
    <3> QED
      BY <2>1, <2>3, <3>1, <3>2
  <2>4. CASE ~O.dirDirty /\ todo = <<Task("shut", 0)>>
    <3>1. d = "shut"
      BY <1>1, <2>4 DEF Task
    <3>2. Rest = <<>>
      BY <2>4 DEF Rest
    <3> QED
      BY <2>1, <2>4, <3>1, <3>2
  <2> QED
    BY <2>1, <2>2, <2>3, <2>4
<1>4. CASE Opening
  <2>1. PICK m \in SUBSET Flags :
          \/ ~view.entry[who].used /\ todo = <<Task("create", 0), Task("flush", 0), Task("find", m)>>
          \/ view.entry[who].used /\ todo = <<Task("flush", 0), Task("find", m)>>
          \/ view.entry[who].used /\ todo = <<Task("find", m)>>
    BY <1>4 DEF Opening
  <2>2. ~O.open
    BY <1>4 DEF Opening
  <2>3. CASE ~view.entry[who].used /\ todo = <<Task("create", 0), Task("flush", 0), Task("find", m)>>
    <3>1. d = "create"
      BY <1>1, <2>3 DEF Task
    <3>2. Rest = <<Task("flush", 0), Task("find", m)>>
      BY <2>3 DEF Rest
    <3> QED
      BY <2>2, <2>3, <3>1, <3>2
  <2>4. CASE view.entry[who].used /\ todo = <<Task("flush", 0), Task("find", m)>>
    <3>1. d = "flush"
      BY <1>1, <2>4 DEF Task
    <3>2. Rest = <<Task("find", m)>>
      BY <2>4 DEF Rest
    <3> QED
      BY <2>2, <2>4, <3>1, <3>2
  <2>5. CASE view.entry[who].used /\ todo = <<Task("find", m)>>
    <3>1. d = "find" /\ Arg = m
      BY <1>1, <2>5 DEF Task, Arg
    <3>2. Rest = <<>>
      BY <2>5 DEF Rest
    <3> QED
      BY <2>2, <2>5, <3>1, <3>2
  <2> QED
    BY <2>1, <2>3, <2>4, <2>5
<1>5. CASE Setting
  <2>1. PICK a \in Nat, R \in Seq(Plain) : todo = <<Task("seek", a)>> \o R /\ After(O, who, adrift, R, a)
    BY <1>5 DEF Setting
  <2>2. Head(todo) = Task("seek", a) /\ Rest = R
    BY <2>1, TaskIs, HeadIs
  <2>3. Arg = a /\ d = "seek"
    BY <1>1, <2>2 DEF Task, Arg
  <2> QED
    BY <1>5, <2>1, <2>2, <2>3 DEF Setting
<1> QED
  BY <1>2, <1>3, <1>4, <1>5 DEF Quiet

LEMMA FlushSound ==
  ASSUME ChainInv, IInv', DoFlush
  PROVE  \E P \in Trails, Q \in Trails : Sound(P, Q)'
<1>1. Doing("flush") /\ Then(Rest) /\ Cuts({}) /\ UNCHANGED <<view, obj, got, adrift, spoiled>>
      /\ (card' = card \/ card' = view) /\ cache'.block = cache.block
  <2>1. Doing("flush") /\ Then(Rest) /\ Cuts({}) /\ UNCHANGED <<view, obj, got, adrift, spoiled>>
        /\ (card' = card \/ card' = view) /\ cache' = [cache EXCEPT !.dirty = FALSE]
    BY DEF DoFlush, FlushDone
  <2>2. cache = [block |-> cache.block, dirty |-> cache.dirty]
    BY DEF ChainInv, IInv, Coherent
  <2> QED
    BY <2>1, <2>2
<1>2. PICK w \in File : w = who
  BY <1>1, AtPhase
<1>3. O \in Object /\ O = obj[w]
  BY <1>1, <1>2, AtPhase
<1>4. PICK P \in Trails, Q \in Trails : Ground(w, P, Q) /\ Quiet(P[w])
  BY <1>1, <1>2, AtPhase DEF QuietDo
<1>5. got = {} /\ FineNow(P[w]) /\ O.size \in Nat
  BY <1>3, <1>4 DEF Quiet, Object
<1>6. PICK R \in Trails : Ground(w, P, R)'
  BY <1>1, <1>2, <1>4, <1>5, LooksFine DEF ChainInv
<1>7. Fine(view', obj'[w], cut', spoiled', adrift', w, P[w])
  BY <1>1, <1>2, <1>4, <1>5, LooksFine DEF ChainInv
<1>8. obj'[w] = O /\ got' = {} /\ (Rest # <<>> => who' = w) /\ todo' = Rest
  BY <1>1, <1>2, <1>3, <1>5 DEF Then
<1>9. CASE Rest \in Seq(Easy(O.size)) /\ SizeOf(view, O, w) = O.size
  <2>1. SizeOf(view', obj'[w], w) = obj'[w].size
    BY <1>1, <1>8, <1>9
  <2> QED
    BY <1>1, <1>2, <1>6, <1>7, <1>8, <1>9, <2>1, EasyGoes
<1>10. CASE O.open /\ ~O.dirDirty /\ Rest = <<Task("shut", 0)>>
  <2>1. who' = w
    BY <1>8, <1>10
  <2>2. Closing'
    BY <1>8, <1>10, <2>1 DEF Closing, O
  <2> QED
    BY <1>6, <1>7, <1>8, <2>1, <2>2, QuietGoes
<1>11. CASE ~O.open /\ view.entry[who].used /\ \E m \in SUBSET Flags : Rest = <<Task("find", m)>>
  <2>1. who' = w
    BY <1>8, <1>11
  <2>2. Opening'
    BY <1>1, <1>2, <1>8, <1>11, <2>1 DEF Opening, O
  <2> QED
    BY <1>6, <1>7, <1>8, <2>1, <2>2, QuietGoes
<1> QED
  BY <1>1, <1>2, <1>3, <1>4, <1>9, <1>10, <1>11, QuietTasks

LEMMA LookSound ==
  ASSUME ChainInv, IInv', DoLook
  PROVE  \E P \in Trails, Q \in Trails : Sound(P, Q)'
<1>1. (Doing("look") \/ Doing("stamp")) /\ Then(Rest) /\ Cuts({}) /\ UNCHANGED <<view, obj, got, adrift, spoiled>>
      /\ (card' = card \/ card' = view)
  BY LoadsCard DEF DoLook
<1>2. PICK w \in File : w = who
  BY <1>1, AtPhase
<1>3. O \in Object /\ O = obj[w]
  BY <1>1, <1>2, AtPhase
<1>4. PICK P \in Trails, Q \in Trails : Ground(w, P, Q) /\ Quiet(P[w])
  BY <1>1, <1>2, AtPhase DEF QuietDo
<1>5. got = {} /\ FineNow(P[w]) /\ Rest \in Seq(Easy(O.size)) /\ SizeOf(view, O, w) = O.size
  <2>1. got = {} /\ FineNow(P[w])
    BY <1>4 DEF Quiet
  <2>2. CASE Doing("look")
    BY <1>2, <1>3, <1>4, <2>1, <2>2, QuietTasks
  <2>3. CASE Doing("stamp")
    BY <1>2, <1>3, <1>4, <2>1, <2>3, QuietTasks
  <2> QED
    BY <1>1, <2>2, <2>3
<1>6. PICK R \in Trails : Ground(w, P, R)'
  BY <1>1, <1>2, <1>4, <1>5, LooksFine DEF ChainInv
<1>7. Fine(view', obj'[w], cut', spoiled', adrift', w, P[w])
  BY <1>1, <1>2, <1>4, <1>5, LooksFine DEF ChainInv
<1>8. obj'[w] = O /\ got' = {} /\ SizeOf(view', obj'[w], w) = obj'[w].size
  BY <1>1, <1>3, <1>5
<1> QED
  BY <1>1, <1>2, <1>5, <1>6, <1>7, <1>8, EasyGoes

LEMMA RangeSound ==
  ASSUME ChainInv, IInv', DoRange
  PROVE  \E P \in Trails, Q \in Trails : Sound(P, Q)'
<1> DEFINE tasks == IF Entry(Arg) = Arg + 1 THEN <<Task("range", Arg + 1)>> ELSE <<>>
<1>1. Doing("range") /\ Then(tasks) /\ Cuts({}) /\ UNCHANGED <<view, obj, got, adrift, spoiled>>
      /\ (card' = card \/ card' = view)
  BY LoadsCard DEF DoRange
<1>2. PICK w \in File : w = who
  BY <1>1, AtPhase
<1>3. O \in Object /\ O = obj[w]
  BY <1>1, <1>2, AtPhase
<1>4. PICK P \in Trails, Q \in Trails : Ground(w, P, Q) /\ Quiet(P[w])
  BY <1>1, <1>2, AtPhase DEF QuietDo
<1>5. got = {} /\ FineNow(P[w]) /\ Arg \in Nat /\ O.size \in Nat /\ SizeOf(view, O, w) = O.size
  <2>1. got = {} /\ FineNow(P[w]) /\ O.size \in Nat
    BY <1>3, <1>4 DEF Quiet, Object
  <2> QED
    BY <1>1, <1>2, <1>3, <1>4, <2>1, QuietTasks
<1>6. PICK R \in Trails : Ground(w, P, R)'
  BY <1>1, <1>2, <1>4, <1>5, LooksFine DEF ChainInv
<1>7. Fine(view', obj'[w], cut', spoiled', adrift', w, P[w])
  BY <1>1, <1>2, <1>4, <1>5, LooksFine DEF ChainInv
<1>8. obj'[w] = O /\ got' = {} /\ SizeOf(view', obj'[w], w) = obj'[w].size
  BY <1>1, <1>3, <1>5
<1>9. tasks \in Seq(Easy(O.size))
  <2>1. Arg + 1 \in Nat
    BY <1>5
  <2>2. Task("range", Arg + 1) \in Easy(O.size)
    BY <1>5, <2>1, EasyIs
  <2>3. <<Task("range", Arg + 1)>> \in Seq(Easy(O.size))
    BY <2>2, OneOf
  <2>4. <<>> \in Seq(Easy(O.size))
    BY NoneOf
  <2> QED
    BY <2>3, <2>4
<1> HIDE DEF tasks
<1> QED
  BY <1>1, <1>2, <1>6, <1>7, <1>8, <1>9, EasyGoes

LEMMA ShutSound ==
  ASSUME ChainInv, IInv', DoShut
  PROVE  \E P \in Trails, Q \in Trails : Sound(P, Q)'
<1>1. Doing("shut") /\ Sets(Closed) /\ Then(Rest) /\ UNCHANGED <<view, card, got, adrift, spoiled, cut>>
  BY DEF DoShut, volume
<1>2. PICK w \in File : w = who
  BY <1>1, AtPhase
<1>3. O \in Object /\ O = obj[w] /\ obj[w] \in Object
  BY <1>1, <1>2, AtPhase
<1>4. PICK P \in Trails, Q \in Trails : Ground(w, P, Q) /\ Quiet(P[w])
  BY <1>1, <1>2, AtPhase DEF QuietDo
<1>5. got = {} /\ FineNow(P[w])
  BY <1>4 DEF Quiet
<1>6. O.open /\ ~O.dirDirty /\ Rest = <<>>
  BY <1>1, <1>3, <1>4, QuietTasks DEF EasyDo
<1>7. obj'[w] = Closed /\ \A f \in File : f # w => obj'[f] = obj[f]
  BY <1>1, <1>2, SetsIs DEF ChainInv
<1>8. Base(view, O, cut, spoiled, w, P[w], O.size)
  BY <1>2, <1>5 DEF FineNow, Fine
<1>9. /\ view.entry[w].used /\ view.entry[w].first = O.first /\ view.entry[w].size = O.size
      /\ (O.first = 0 => O.size = 0) /\ Links(view.fat, O.first, P[w])
      /\ (w \notin spoiled => Holds(view, w, P[w], O.size))
  BY <1>6, <1>8 DEF Base, Entered, HeadOf
<1>10. ~Closed.open
  BY ClosedIs
<1>11. SizeOf(view, obj[w], w) = O.size /\ SizeOf(view, obj'[w], w) = O.size /\ O.size \in Nat
  BY <1>3, <1>6, <1>7, <1>9, <1>10 DEF SizeOf, Object
<1>12. PICK R \in Trails : Ground(w, P, R)'
  <2>1. SizeOf(view, obj[w], w) <= SizeOf(view, obj'[w], w)
    BY <1>11
  <2> QED
    BY <1>1, <1>4, <1>7, <2>1, GroundStays DEF ChainInv
<1>13. Fine(view', obj'[w], cut', spoiled', adrift', w, P[w])
  <2>1. Base(view, Closed, cut, spoiled, w, P[w], Closed.size)
    BY <1>9, <1>10 DEF Base, HeadOf, HeadIn
  <2> QED
    BY <1>1, <1>7, <1>10, <2>1 DEF Fine, Placed, Reach
<1>14. who' = None /\ got' = {}
  BY <1>1, <1>5, <1>6 DEF Then
<1> QED
  BY <1>12, <1>13, <1>14, EndsSound

-----------------------------------------------------------------------------
(***************************************************************************)
(* The directory entry                                                     *)
(***************************************************************************)
\* A step changes the entry of the file w in the view, and its chain stays or goes.
LEMMA EntryGround ==
  ASSUME IInv, IInv', NEW w \in File, NEW P, NEW Q, Ground(w, P, Q),
         Anchored(view, cache, obj[w], cut, spoiled, w, P[w]),
         Cuts({}), card' = card \/ card' = view,
         view'.fat = view.fat, view'.data = view.data,
         \A f \in File : f # w =>
           /\ obj'[f] = obj[f] /\ view'.entry[f] = view.entry[f]
           /\ (f \in adrift => f \in adrift') /\ (f \in spoiled <=> f \in spoiled'),
         NEW x \in {P[w], NoTrail},
         w \notin cut' =>
           /\ SizeOf(view, obj[w], w) <= SizeOf(view', obj'[w], w)
           /\ w \in spoiled /\ w \notin spoiled' => SizeOf(view, obj[w], w) = 0
  PROVE  \E P2 \in Trails, R \in Trails : P2[w] = x /\ Ground(w, P2, R)'
<1>1. P \in Trails /\ P[w] \in Trail /\ Simple(P[w])
  BY ApartIs DEF Ground
<1>2. x \in Trail /\ Simple(x) /\ (x = P[w] \/ x.n = 0)
  BY <1>1, NilIs DEF Simple
<1>3. PICK P2 : P2 = [P EXCEPT ![w] = x]
  OBVIOUS
<1>4. P2 \in Trails /\ P2[w] = x /\ \A f \in File : f # w => P2[f] = P[f]
  BY <1>1, <1>2, <1>3 DEF Trails
<1>5. \A i \in Nat : i < P2[w].n => i < P[w].n /\ P2[w].at[i] = P[w].at[i]
  BY <1>2, <1>4
<1>6. \A f \in File : f # w => SameAlong(view, view', P[f])
  BY DEF SameAlong
<1>7. \E R \in Trails : Mixed(R, Q, P) /\ Ground(w, P2, R)'
  <2>1. {} \in SUBSET {w}
    OBVIOUS
  <2> QED
    BY <1>2, <1>4, <1>5, <1>6, <2>1, GroundStep
<1> QED
  BY <1>4, <1>7

\* the object of the call changes its place, and nothing else does
LEMMA PlaceGround ==
  ASSUME IInv, IInv', NEW w \in File, NEW P, NEW Q, Ground(w, P, Q),
         UNCHANGED <<view, card, spoiled, cut>>, adrift' \cup {w} = adrift \cup {w},
         SameBut(obj'[w], obj[w]), \A f \in File : f # w => obj'[f] = obj[f]
  PROVE  \E R \in Trails : Mixed(R, Q, P) /\ Ground(w, P, R)'
<1>1. IsVolume(view) /\ obj[w] \in Object
  BY DEF IInv, Coherent
<1> DEFINE m == SizeOf(view, obj[w], w)
<1>2. m \in Nat
  BY <1>1, SizeOfIs
<1>3. SizeOf(view, obj'[w], w) = m
  BY DEF SizeOf, SameBut
<1> HIDE DEF m
<1>4. m <= m
  BY <1>2
<1>5. SizeOf(view, obj[w], w) <= SizeOf(view, obj'[w], w)
  BY <1>3, <1>4 DEF m
<1>6. cut \subseteq cut' /\ cut' \subseteq cut \cup {w}
  OBVIOUS
<1>7. \A f \in File : f # w =>
        /\ obj'[f] = obj[f]
        /\ (f \in adrift => f \in adrift') /\ (f \in spoiled <=> f \in spoiled')
  OBVIOUS
<1>8. w \in spoiled <=> w \in spoiled'
  OBVIOUS
<1> QED
  BY <1>5, <1>6, <1>7, <1>8, GroundStays

\* the place of an open object does not matter to the rest
LEMMA BaseMoved ==
  ASSUME NEW v, NEW o \in Object, NEW u, NEW ct, NEW sp, NEW f, NEW x, NEW l, Base(v, o, ct, sp, f, x, l),
         o.open, SameBut(u, o), Near(x, u.cur), u.first = 0 => u.pos = 0 /\ u.cur = 0
  PROVE  Base(v, u, ct, sp, f, x, l) /\ u.open
  BY DEF Base, SameBut, Entered, HeadOf

LEMMA HeadNear ==
  ASSUME NEW v, NEW o, NEW ct, NEW sp, NEW f, NEW x \in Trail, NEW l, Base(v, o, ct, sp, f, x, l), o.open
  PROVE  /\ Near(x, o.first) /\ At(x, 0) = o.first /\ Near(x, 0) /\ Links(v.fat, o.first, x)
         /\ o.first = 0 <=> x.n = 0
<1>1. Links(v.fat, o.first, x)
  BY DEF Base, HeadOf
<1>2. x.n \in Nat
  BY DEF Trail
<1>3. CASE x.n = 0
  BY <1>1, <1>3 DEF Links, Near, At
<1>4. CASE x.n > 0
  <2>1. o.first = x.at[0] /\ x.at[0] \in Cluster
    BY <1>1, <1>4 DEF Links
  <2> QED
    BY <1>1, <1>4, <2>1, ClustersAre DEF Near, At
<1> QED
  BY <1>2, <1>3, <1>4

LEMMA SyncSound ==
  ASSUME ChainInv, IInv', DoSync
  PROVE  \E P \in Trails, Q \in Trails : Sound(P, Q)'
<1>1. Doing("sync") /\ Then(Rest) /\ UNCHANGED <<got, adrift, spoiled>>
  BY DEF DoSync
<1>2. PICK w \in File : w = who
  BY <1>1, AtPhase
<1>3. O \in Object /\ O = obj[w] /\ O.first \in Nat /\ O.size \in Nat /\ O.dirDirty \in BOOLEAN
      /\ IsVolume(view) /\ IInv
  <2>1. O \in Object /\ O = obj[w] /\ IsVolume(view) /\ IInv
    BY <1>1, <1>2, AtPhase DEF ChainInv, IInv, Coherent
  <2> QED
    BY <2>1 DEF Object
<1>4. PICK P \in Trails, Q \in Trails : Ground(w, P, Q) /\ Quiet(P[w])
  BY <1>1, <1>2, AtPhase DEF QuietDo
<1>5. got = {} /\ FineNow(P[w])
  BY <1>4 DEF Quiet
<1>6. \/ Rest \in Seq(Easy(O.size)) /\ SizeOf(view, O, w) = O.size
      \/ O.open /\ Rest = <<Task("flush", 0), Task("shut", 0)>>
  BY <1>1, <1>2, <1>3, <1>4, QuietTasks
<1>7. \E P2 \in Trails, R \in Trails :
        /\ Ground(w, P2, R)' /\ Fine(view', obj'[w], cut', spoiled', adrift', w, P2[w])
        /\ obj'[w].size = O.size /\ obj'[w].open = O.open /\ ~obj'[w].dirDirty
        /\ SizeOf(view', obj'[w], w) = SizeOf(view, O, w)
  <2>1. CASE ~O.dirDirty /\ UNCHANGED <<volume, obj, cut>>
    <3>1. UNCHANGED <<view, card, spoiled, cut, adrift, obj>>
      BY <1>1, <2>1 DEF volume
    <3>2. \E R \in Trails : Mixed(R, Q, P) /\ Ground(w, P, R)'
      <4>1. SameBut(obj'[w], obj[w]) /\ \A f \in File : f # w => obj'[f] = obj[f]
        BY <3>1 DEF SameBut
      <4> QED
        BY <1>3, <1>4, <3>1, <4>1, PlaceGround
    <3>3. Fine(view', obj'[w], cut', spoiled', adrift', w, P[w])
      BY <1>2, <1>5, <3>1 DEF FineNow, O
    <3> QED
      BY <1>3, <2>1, <3>1, <3>2, <3>3
  <2>2. CASE /\ O.dirDirty /\ Loads(DirBlock, TRUE)
             /\ view' = [view EXCEPT !.entry[who].first = O.first, !.entry[who].size = O.size]
             /\ Sets([O EXCEPT !.dirDirty = FALSE]) /\ Cuts({})
    <3>1. PICK u : u = [used |-> view.entry[w].used, first |-> O.first, size |-> O.size]
      OBVIOUS
    <3>2. view' = SetEntry(view, w, u)
      <4>1. view' = TellEntry(view, w, O.first, O.size)
        BY <1>2, <2>2 DEF TellEntry
      <4>2. TellEntry(view, w, O.first, O.size) = SetEntry(view, w, [used |-> view.entry[w].used, first |-> O.first, size |-> O.size])
        BY <1>3, EntryTold
      <4> QED
        BY <3>1, <4>1, <4>2
    <3>3. /\ view'.fat = view.fat /\ view'.data = view.data /\ view'.entry[w] = u
          /\ \A f \in File : f # w => view'.entry[f] = view.entry[f]
      BY <1>3, <3>2, EntryOf
    <3>4. PICK o : o = [O EXCEPT !.dirDirty = FALSE]
      OBVIOUS
    <3>5. /\ o.open = O.open /\ o.first = O.first /\ o.cur = O.cur /\ o.pos = O.pos /\ o.size = O.size
          /\ ~o.dirDirty
      BY <1>3, <3>4 DEF Object
    <3>6. obj'[w] = o /\ \A f \in File : f # w => obj'[f] = obj[f]
      BY <1>2, <1>3, <2>2, <3>4, SetsIs
    <3>7. Base(view, O, cut, spoiled, w, P[w], O.size) /\ Placed(O, adrift, w, P[w]) /\ Reach(view, O, adrift, spoiled, w, P[w])
      BY <1>2, <1>5 DEF FineNow, Fine
    <3>8. O.open
      BY <2>2, <3>7, ClosedIs DEF Base, Closed
    <3>9. /\ Entered(view.entry[w], O, cut, w) /\ Links(view.fat, O.first, P[w]) /\ Near(P[w], O.cur)
          /\ w \notin spoiled => Holds(view, w, P[w], O.size)
      BY <3>7, <3>8 DEF Base, HeadOf
    <3>10. SizeOf(view, O, w) = O.size /\ SizeOf(view', o, w) = O.size
      BY <3>5, <3>8 DEF SizeOf
    <3>11. \E P2 \in Trails, R \in Trails : P2[w] = P[w] /\ Ground(w, P2, R)'
      <4>1. Anchored(view, cache, obj[w], cut, spoiled, w, P[w])
        BY <1>2, <1>5, FineAnchored
      <4>2. card' = card \/ card' = view
        BY <2>2, LoadsCard
      <4>3. SizeOf(view, obj[w], w) <= SizeOf(view', obj'[w], w)
        BY <1>3, <3>6, <3>10
      <4>4. \A f \in File : f # w =>
              /\ obj'[f] = obj[f] /\ view'.entry[f] = view.entry[f]
              /\ (f \in adrift => f \in adrift') /\ (f \in spoiled <=> f \in spoiled')
        BY <1>1, <3>3, <3>6
      <4> QED
        BY <1>1, <1>3, <1>4, <2>2, <3>3, <4>1, <4>2, <4>3, <4>4, EntryGround
    <3>12. Entered(u, o, cut', w)
      <4>1. u.used /\ u.first = O.first /\ u.size = O.size
        BY <3>1, <3>9 DEF Entered
      <4> QED
        BY <1>3, <3>5, <3>9, <4>1 DEF Entered
    <3>13. Fine(view', o, cut', spoiled', adrift', w, P[w])
      <4>1. Holds(view, w, P[w], O.size) => Holds(view', w, P[w], O.size)
        BY <3>3 DEF Holds
      <4>2. Base(view', o, cut', spoiled', w, P[w], o.size)
        BY <1>1, <3>3, <3>5, <3>8, <3>9, <3>12, <4>1 DEF Base, HeadOf
      <4>3. Holds(view, w, P[w], O.pos) => Holds(view', w, P[w], O.pos)
        BY <3>3 DEF Holds
      <4> QED
        BY <1>1, <3>5, <3>7, <4>2, <4>3 DEF Fine, Placed, Reach
    <3> QED
      BY <3>5, <3>6, <3>10, <3>11, <3>13
  <2> QED
    BY <2>1, <2>2 DEF DoSync
<1>8. PICK P2 \in Trails, R \in Trails :
        /\ Ground(w, P2, R)' /\ Fine(view', obj'[w], cut', spoiled', adrift', w, P2[w])
        /\ obj'[w].size = O.size /\ obj'[w].open = O.open /\ ~obj'[w].dirDirty
        /\ SizeOf(view', obj'[w], w) = SizeOf(view, O, w)
  BY <1>7
<1>9. got' = {}
  BY <1>1, <1>5
<1>10. CASE Rest \in Seq(Easy(O.size)) /\ SizeOf(view, O, w) = O.size
  BY <1>1, <1>2, <1>8, <1>9, <1>10, EasyGoes
<1>11. CASE O.open /\ Rest = <<Task("flush", 0), Task("shut", 0)>>
  <2>1. who' = w /\ todo' = Rest
    BY <1>1, <1>2, <1>11 DEF Then
  <2>2. Closing'
    BY <1>8, <1>11, <2>1 DEF Closing, O
  <2> QED
    BY <1>8, <1>9, <2>1, <2>2, QuietGoes
<1> QED
  BY <1>6, <1>10, <1>11

LEMMA CreateSound ==
  ASSUME ChainInv, IInv', DoCreate
  PROVE  \E P \in Trails, Q \in Trails : Sound(P, Q)'
<1> DEFINE u0 == [used |-> TRUE, first |-> 0, size |-> 0]
<1>1. /\ Doing("create") /\ Then(Rest) /\ UNCHANGED <<obj, got, adrift>> /\ Cuts({})
      /\ Loads(DirBlock, TRUE) /\ view' = [view EXCEPT !.entry[who] = u0] /\ spoiled' = spoiled \ {who}
  BY DEF DoCreate
<1>2. PICK w \in File : w = who
  BY <1>1, AtPhase
<1>3. O \in Object /\ O = obj[w] /\ IsVolume(view) /\ IInv
  BY <1>1, <1>2, AtPhase DEF ChainInv, IInv, Coherent
<1>4. PICK P \in Trails, Q \in Trails : Ground(w, P, Q) /\ Quiet(P[w])
  BY <1>1, <1>2, AtPhase DEF QuietDo
<1>5. got = {} /\ FineNow(P[w]) /\ P[w] \in Trail
  BY <1>4 DEF Quiet, Trails
<1>6. ~O.open /\ ~view.entry[w].used /\ \E m \in SUBSET Flags : Rest = <<Task("flush", 0), Task("find", m)>>
  BY <1>1, <1>2, <1>3, <1>4, QuietTasks DEF EasyDo
<1>7. PICK u : u = u0
  OBVIOUS
<1>8. /\ view'.fat = view.fat /\ view'.data = view.data /\ view'.entry[w] = u
      /\ \A f \in File : f # w => view'.entry[f] = view.entry[f]
  <2>1. view' = SetEntry(view, w, u)
    BY <1>1, <1>2, <1>7 DEF SetEntry
  <2> QED
    BY <1>3, <2>1, EntryOf
<1>9. u.used /\ u.first = 0 /\ u.size = 0
  BY <1>7
<1> HIDE DEF u0
<1>10. Base(view, O, cut, spoiled, w, P[w], O.size)
  BY <1>2, <1>5 DEF FineNow, Fine
<1>11. O = Closed /\ Links(view.fat, 0, P[w])
  BY <1>6, <1>10 DEF Base, HeadOf, HeadIn
<1>12. SizeOf(view, obj[w], w) = 0 /\ SizeOf(view', obj'[w], w) = 0
  BY <1>1, <1>3, <1>6, <1>8, <1>9 DEF SizeOf
<1>13. \E P2 \in Trails, R \in Trails : P2[w] = P[w] /\ Ground(w, P2, R)'
  <2>1. Anchored(view, cache, obj[w], cut, spoiled, w, P[w])
    BY <1>2, <1>5, FineAnchored
  <2>2. card' = card \/ card' = view
    BY <1>1, LoadsCard
  <2>3. SizeOf(view, obj[w], w) <= SizeOf(view', obj'[w], w)
    BY <1>12
  <2>4. \A f \in File : f # w =>
          /\ obj'[f] = obj[f] /\ view'.entry[f] = view.entry[f]
          /\ (f \in adrift => f \in adrift') /\ (f \in spoiled <=> f \in spoiled')
    BY <1>1, <1>2, <1>8
  <2> QED
    BY <1>1, <1>3, <1>4, <1>8, <1>12, <2>1, <2>2, <2>3, <2>4, EntryGround
<1>14. PICK P2 \in Trails, R \in Trails : P2[w] = P[w] /\ Ground(w, P2, R)'
  BY <1>13
<1>15. Fine(view', obj'[w], cut', spoiled', adrift', w, P2[w])
  <2>1. Links(view'.fat, HeadOf(view', Closed, w), P[w]) /\ ~Closed.open
    BY <1>8, <1>9, <1>11, ClosedIs DEF HeadOf, HeadIn
  <2>2. Base(view', Closed, cut', spoiled', w, P[w], Closed.size)
    BY <1>8, <1>9, <2>1, HoldsNone DEF Base
  <2> QED
    BY <1>1, <1>3, <1>11, <1>14, <2>1, <2>2 DEF Fine, Placed, Reach
<1>16. who' = w /\ todo' = Rest /\ got' = {}
  BY <1>1, <1>2, <1>5, <1>6 DEF Then
<1>17. Opening'
  <2>1. ~O'.open /\ (view.entry[who].used)'
    BY <1>1, <1>3, <1>6, <1>8, <1>9, <1>16 DEF O
  <2>2. \E m \in SUBSET Flags : todo' = <<Task("flush", 0), Task("find", m)>>
    BY <1>6, <1>16
  <2> QED
    BY <2>1, <2>2 DEF Opening
<1> QED
  BY <1>14, <1>15, <1>16, <1>17, QuietGoes

LEMMA EraseSound ==
  ASSUME ChainInv, IInv', DoErase
  PROVE  \E P \in Trails, Q \in Trails : Sound(P, Q)'
<1>1. /\ Doing("erase") /\ Then(Rest) /\ Sets(Closed) /\ UNCHANGED <<got, adrift, spoiled>> /\ Cuts({})
      /\ Loads(DirBlock, TRUE) /\ view' = [view EXCEPT !.entry[who].used = FALSE]
  BY DEF DoErase
<1>2. PICK w \in File : w = who
  BY <1>1, AtPhase
<1>3. O \in Object /\ O = obj[w] /\ IsVolume(view) /\ IInv
  BY <1>1, <1>2, AtPhase DEF ChainInv, IInv, Coherent
<1>4. PICK P \in Trails, Q \in Trails : Ground(w, P, Q) /\ Quiet(P[w])
  BY <1>1, <1>2, AtPhase DEF QuietDo
<1>5. got = {} /\ FineNow(P[w])
  BY <1>4 DEF Quiet
<1>6. Rest \in Seq(Easy(0)) /\ SizeOf(view, obj[w], w) = 0
  BY <1>1, <1>2, <1>3, <1>4, QuietTasks DEF EasyDo
<1>7. PICK u : u = [used |-> FALSE, first |-> view.entry[w].first, size |-> view.entry[w].size]
  OBVIOUS
<1>8. /\ view'.fat = view.fat /\ view'.data = view.data /\ view'.entry[w] = u
      /\ \A f \in File : f # w => view'.entry[f] = view.entry[f]
  <2>1. view' = EraseEntry(view, w)
    BY <1>1, <1>2 DEF EraseEntry
  <2>2. view' = SetEntry(view, w, u)
    BY <1>3, <1>7, <2>1, EntryErased
  <2> QED
    BY <1>3, <2>2, EntryOf
<1>9. ~view'.entry[w].used
  BY <1>7, <1>8
<1>10. obj'[w] = Closed /\ ~Closed.open /\ Closed.size = 0 /\ \A f \in File : f # w => obj'[f] = obj[f]
  BY <1>1, <1>2, <1>3, SetsIs, ClosedIs DEF Closed
<1>11. SizeOf(view', obj'[w], w) = 0
  BY <1>9, <1>10 DEF SizeOf
<1>12. \E P2 \in Trails, R \in Trails : P2[w] = NoTrail /\ Ground(w, P2, R)'
  <2>1. Anchored(view, cache, obj[w], cut, spoiled, w, P[w])
    BY <1>2, <1>5, FineAnchored
  <2>2. card' = card \/ card' = view
    BY <1>1, LoadsCard
  <2>3. SizeOf(view, obj[w], w) <= SizeOf(view', obj'[w], w)
    BY <1>6, <1>11
  <2>4. \A f \in File : f # w =>
          /\ obj'[f] = obj[f] /\ view'.entry[f] = view.entry[f]
          /\ (f \in adrift => f \in adrift') /\ (f \in spoiled <=> f \in spoiled')
    BY <1>1, <1>8, <1>10
  <2> QED
    BY <1>1, <1>3, <1>4, <1>6, <1>8, <2>1, <2>2, <2>3, <2>4, EntryGround
<1>13. PICK P2 \in Trails, R \in Trails : P2[w] = NoTrail /\ Ground(w, P2, R)'
  BY <1>12
<1>14. Fine(view', obj'[w], cut', spoiled', adrift', w, P2[w])
  <2>1. Links(view'.fat, HeadOf(view', Closed, w), NoTrail)
    BY <1>9, <1>10, NilIs DEF HeadOf, HeadIn, Links
  <2>2. Base(view', Closed, cut', spoiled', w, NoTrail, Closed.size)
    BY <1>9, <1>10, <2>1 DEF Base
  <2> QED
    BY <1>10, <1>13, <2>2 DEF Fine, Placed, Reach
<1>15. got' = {} /\ Rest \in Seq(Easy(obj'[w].size)) /\ SizeOf(view', obj'[w], w) = obj'[w].size
  BY <1>1, <1>5, <1>6, <1>10, <1>11
<1> QED
  BY <1>1, <1>2, <1>13, <1>14, <1>15, EasyGoes

\* the rest of a call as the code of the model joins it, and as the steps take it apart
Listed(a, b, c, s, t) == <<a, b, c>> \o s \o t
Nested(a, b, c, s)    == <<a>> \o (<<b>> \o (<<c>> \o s))

LEMMA CutList ==
  ASSUME NEW a \in Plain, NEW b \in Plain, NEW c \in Plain, NEW s \in Seq(Plain), NEW t \in Seq(Plain)
  PROVE  Listed(a, b, c, s, t) = Nested(a, b, c, s \o t)
<1>1. <<a>> \in Seq(Plain) /\ <<b>> \in Seq(Plain) /\ <<c>> \in Seq(Plain) /\ <<b, c>> \in Seq(Plain)
      /\ <<a, b, c>> \in Seq(Plain)
  BY ListIs
<1>2. <<a, b, c>> = <<a>> \o <<b, c>> /\ <<b, c>> = <<b>> \o <<c>>
  <2>1. <<a>> \o <<b, c>> \in Seq(Plain) /\ <<b>> \o <<c>> \in Seq(Plain)
    BY <1>1, JoinIs
  <2>2. /\ Len(<<a>> \o <<b, c>>) = 3 /\ Len(<<a, b, c>>) = 3
        /\ Len(<<b>> \o <<c>>) = 2 /\ Len(<<b, c>>) = 2
    BY <1>1, ConcatProperties
  <2>3. \A i \in 1 .. 3 : (<<a>> \o <<b, c>>)[i] = <<a, b, c>>[i]
    <3>1. \A i \in 1 .. 3 : (<<a>> \o <<b, c>>)[i] = IF i <= 1 THEN <<a>>[i] ELSE <<b, c>>[i - 1]
      BY <1>1, ConcatProperties
    <3>2. (<<a>> \o <<b, c>>)[1] = a /\ (<<a>> \o <<b, c>>)[2] = b /\ (<<a>> \o <<b, c>>)[3] = c
      BY <3>1
    <3> QED
      BY <3>2
  <2>4. \A i \in 1 .. 2 : (<<b>> \o <<c>>)[i] = <<b, c>>[i]
    <3>1. \A i \in 1 .. 2 : (<<b>> \o <<c>>)[i] = IF i <= 1 THEN <<b>>[i] ELSE <<c>>[i - 1]
      BY <1>1, ConcatProperties
    <3>2. (<<b>> \o <<c>>)[1] = b /\ (<<b>> \o <<c>>)[2] = c
      BY <3>1
    <3> QED
      BY <3>2
  <2> QED
    BY <1>1, <2>1, <2>2, <2>3, <2>4, SeqEqual
<1> DEFINE r == s \o t
<1>3. r \in Seq(Plain) /\ <<c>> \o r \in Seq(Plain)
  <2>1. r \in Seq(Plain)
    BY JoinIs
  <2> HIDE DEF r
  <2> QED
    BY <1>1, <2>1, JoinIs
<1>4. <<a, b, c>> \o s \o t = <<a, b, c>> \o r
  BY <1>1, ConcatAssociative
<1> HIDE DEF r
<1>5. (<<a>> \o <<b, c>>) \o r = <<a>> \o (<<b, c>> \o r)
  BY <1>1, <1>3, ConcatAssociative
<1>6. (<<b>> \o <<c>>) \o r = <<b>> \o (<<c>> \o r)
  BY <1>1, <1>3, ConcatAssociative
<1> QED
  BY <1>2, <1>4, <1>5, <1>6 DEF r, Listed, Nested

LEMMA EasyJoin ==
  ASSUME NEW l \in Nat, NEW s \in Seq(Easy(l)), NEW t \in Seq(Easy(l))
  PROVE  s \o t \in Seq(Easy(l))
  BY ConcatProperties

\* truncate() seeks, cuts, and tells the directory
LEMMA TruncatedList ==
  ASSUME NEW o \in Object, NEW n \in Nat, o.size > 0
  PROVE  \E r \in Seq(Easy(n)) : Truncated(o, n) = <<Task("seek", n)>> \o Cutting(o.first, n, r)
<1>1. o.first \in Nat /\ o.pos \in Nat /\ 0 \in Nat /\ o.size # 0
  BY DEF Object
<1> DEFINE m == Min({n, o.pos})
           k == IF n = 0 THEN Task("free", o.first) ELSE Task("tail", 0)
           z == <<Task("seek", m)>>
<1>2. m \in Nat
  BY <1>1, LeastIs
<1> HIDE DEF m
<1>3. k \in Plain /\ Task("seek", n) \in Plain /\ Task("shrink", n) \in Plain /\ Task("seek", m) \in Plain
  BY <1>1, <1>2, TaskIs
<1> HIDE DEF k
<1>4. Sync \in Seq(Easy(n)) /\ z \in Seq(Easy(n))
  <2>1. Task("sync", 0) \in Easy(n) /\ Task("flush", 0) \in Easy(n) /\ Task("seek", m) \in Easy(n)
    BY <1>1, <1>2, EasyIs
  <2> DEFINE S == Easy(n)
  <2> HIDE DEF S
  <2>2. Task("sync", 0) \in S /\ Task("flush", 0) \in S /\ Task("seek", m) \in S
    BY <2>1 DEF S
  <2>3. Sync \in Seq(S) /\ z \in Seq(S)
    BY <2>2 DEF Sync
  <2> QED
    BY <2>3 DEF S
<1>5. z \in Seq(Plain) /\ Sync \in Seq(Plain)
  BY <1>3, SyncIs, ListIs
<1>6. Truncated(o, n) = <<Task("seek", n), k, Task("shrink", n)>> \o Sync \o z
  BY <1>1 DEF Truncated, k, m
<1> HIDE DEF z
<1>7. Truncated(o, n) = <<Task("seek", n)>> \o (<<k>> \o (<<Task("shrink", n)>> \o (Sync \o z)))
  <2> DEFINE p == Task("seek", n)
             q == Task("shrink", n)
  <2>1. p \in Plain /\ q \in Plain /\ k \in Plain /\ Truncated(o, n) = Listed(p, k, q, Sync, z)
    BY <1>3, <1>6 DEF Listed
  <2> HIDE DEF p, q
  <2>2. Truncated(o, n) = Nested(p, k, q, Sync \o z)
    BY <1>5, <2>1, CutList
  <2> QED
    BY <2>2 DEF p, q, Nested
<1>8. Sync \o z \in Seq(Easy(n))
  BY <1>4, EasyJoin
<1>9. Cutting(o.first, n, Sync \o z) = <<k>> \o (<<Task("shrink", n)>> \o (Sync \o z))
  BY DEF Cutting, k
<1> QED
  BY <1>7, <1>8, <1>9

\* a new object of the file whose entry it is
LEMMA FoundFine ==
  ASSUME NEW v, IsVolume(v), NEW ct, NEW sp, NEW ad, NEW f \in File, NEW x \in Trail,
         Base(v, Closed, ct, sp, f, x, 0), v.entry[f].used,
         NEW o, o.open, o.first = v.entry[f].first, o.cur = 0, o.pos = 0, o.size = v.entry[f].size, ~o.dirDirty
  PROVE  Fine(v, o, ct, sp, ad, f, x)
<1>1. ~Closed.open
  BY ClosedIs
<1>2. /\ Links(v.fat, v.entry[f].first, x) /\ (v.entry[f].first = 0 => v.entry[f].size = 0)
      /\ (f \notin sp => Holds(v, f, x, v.entry[f].size))
  BY <1>1 DEF Base, HeadOf, HeadIn
<1>3. v.entry[f].size \in Nat
  BY FileHere
<1>4. Entered(v.entry[f], o, ct, f)
  <2>1. v.entry[f].size <= o.size
    BY <1>3
  <2> QED
    BY <1>2, <2>1 DEF Entered
<1>5. Base(v, o, ct, sp, f, x, o.size)
  BY <1>2, <1>4 DEF Base, HeadOf, Near
<1> QED
  BY <1>5, HoldsNone DEF Fine, Placed, Reach, AtPos

LEMMA FindSound ==
  ASSUME ChainInv, IInv', DoFind
  PROVE  \E P \in Trails, Q \in Trails : Sound(P, Q)'
<1> DEFINE o0 == [open |-> TRUE, mode |-> Arg \ {"trunc"}, first |-> view.entry[who].first, cur |-> 0,
                  pos |-> 0, size |-> view.entry[who].size, dirDirty |-> FALSE]
<1>0. PICK o : o = o0
  OBVIOUS
<1>1. /\ Doing("find") /\ UNCHANGED <<view, got, spoiled>> /\ Cuts({}) /\ Loads(DirBlock, FALSE)
      /\ Sets(o) /\ adrift' = adrift \ {who}
      /\ \/ Then(<<>>) \/ Then(Truncated(o, 0))
  BY <1>0 DEF DoFind
<1>2. PICK w \in File : w = who
  BY <1>1, AtPhase
<1>3. O \in Object /\ O = obj[w] /\ IsVolume(view) /\ IInv
  BY <1>1, <1>2, AtPhase DEF ChainInv, IInv, Coherent
<1>4. PICK P \in Trails, Q \in Trails : Ground(w, P, Q) /\ Quiet(P[w])
  BY <1>1, <1>2, AtPhase DEF QuietDo
<1>5. got = {} /\ FineNow(P[w]) /\ P[w] \in Trail
  BY <1>4 DEF Quiet, Trails
<1>6. ~O.open /\ view.entry[w].used
  BY <1>1, <1>2, <1>3, <1>4, QuietTasks DEF EasyDo
<1>7. /\ o.open /\ o.first = view.entry[w].first /\ o.cur = 0 /\ o.pos = 0 /\ o.size = view.entry[w].size
      /\ ~o.dirDirty
  BY <1>0, <1>2
<1>8. obj'[w] = o /\ (\A f \in File : f # w => obj'[f] = obj[f]) /\ o \in Object
  <2>1. obj'[w] = o /\ \A f \in File : f # w => obj'[f] = obj[f]
    BY <1>1, <1>2, <1>3, SetsIs
  <2> QED
    BY <2>1 DEF IInv
<1> HIDE DEF o0
<1>9. Base(view, O, cut, spoiled, w, P[w], O.size)
  BY <1>2, <1>5 DEF FineNow, Fine
<1>10. SizeOf(view, obj[w], w) = view.entry[w].size /\ SizeOf(view, obj'[w], w) = view.entry[w].size
  BY <1>3, <1>6, <1>7, <1>8 DEF SizeOf
<1>11. view.entry[w].size \in Nat
  BY <1>3, FileHere
<1>12. PICK R \in Trails : Mixed(R, Q, P) /\ Ground(w, P, R)'
  <2>1. Anchored(view, cache, obj[w], cut, spoiled, w, P[w])
    BY <1>2, <1>5, FineAnchored
  <2>2. card' = card \/ card' = view
    BY <1>1, LoadsCard
  <2>3. SizeOf(view, obj[w], w) <= SizeOf(view, obj'[w], w)
    BY <1>10, <1>11
  <2>4. \A f \in File : f # w =>
          /\ obj'[f] = obj[f]
          /\ (f \in adrift => f \in adrift') /\ (f \in spoiled <=> f \in spoiled')
    BY <1>1, <1>2, <1>8
  <2> QED
    BY <1>1, <1>3, <1>4, <2>1, <2>2, <2>3, <2>4, GroundLooks
<1>13. Fine(view', obj'[w], cut', spoiled', adrift', w, P[w])
  <2>1. O = Closed
    BY <1>6, <1>9 DEF Base
  <2>2. Base(view, Closed, cut', spoiled', w, P[w], 0)
    BY <1>1, <1>9, <2>1, ClosedIs DEF Base
  <2>3. Fine(view, o, cut', spoiled', adrift', w, P[w])
    BY <1>3, <1>5, <1>6, <1>7, <2>2, FoundFine
  <2> QED
    BY <1>1, <1>8, <2>3
<1>14. got' = {}
  BY <1>1, <1>5
<1>15. CASE Then(<<>>)
  BY <1>12, <1>13, <1>14, <1>15, EndsSound DEF Then
<1>16. CASE Then(Truncated(o, 0)) /\ o.size > 0
  <2>1. PICK r \in Seq(Easy(0)) : Truncated(o, 0) = <<Task("seek", 0)>> \o Cutting(o.first, 0, r)
    BY <1>8, <1>16, TruncatedList
  <2>2. o.first \in Nat
    BY <1>8 DEF Object
  <2>3. Cutting(o.first, 0, r) \in Seq(Plain) /\ Task("seek", 0) \in Plain
    BY <2>2, CuttingIs, TaskIs
  <2>4. Truncated(o, 0) # <<>>
    BY <2>1, <2>3, ConsIs
  <2>5. who' = w /\ todo' = <<Task("seek", 0)>> \o Cutting(o.first, 0, r)
    BY <1>2, <1>16, <2>1, <2>4 DEF Then
  <2>6. O' = o
    BY <1>8, <2>5 DEF O
  <2>7. After(o, w, adrift', Cutting(o.first, 0, r), 0)
    BY <1>16 DEF After
  <2>8. Setting'
    BY <1>7, <2>3, <2>5, <2>6, <2>7 DEF Setting
  <2> QED
    BY <1>12, <1>13, <1>14, <2>5, <2>8, QuietGoes
<1>17. CASE Then(Truncated(o, 0)) /\ ~(o.size > 0)
  <2>1. o.size = 0
    BY <1>7, <1>11, <1>17
  <2>2. Then(<<>>)
    BY <1>17, <2>1 DEF Truncated
  <2> QED
    BY <1>15, <2>2
<1> QED
  BY <1>1, <1>15, <1>16, <1>17

-----------------------------------------------------------------------------
(***************************************************************************)
(* Seeking                                                                 *)
(***************************************************************************)
\* what follows a seek, once it is there
LEMMA AfterGoes ==
  ASSUME NEW w \in File, who = w, NEW P, NEW Q, Ground(w, P, Q)', got' = {}, NEW R, Then(R),
         NEW u, u = obj'[w], u.open, u.size > 0 \/ u.size = 0, NEW a \in Nat, u.pos = a, a <= u.size,
         Fine(view', u, cut', spoiled', adrift', w, P[w]),
         a = 0 => w \notin adrift',
         After(u, w, adrift', R, a), R \in Seq(Plain)
  PROVE  Sound(P, Q)'
<1>1. SizeOf(view', u, w) = u.size
  BY DEF SizeOf
<1>2. CASE R \in Seq(Easy(u.size))
  BY <1>1, <1>2, EasyGoes
<1>3. R # <<>> => who' = w /\ todo' = R /\ O' = u
  BY DEF Then, O
<1>4. Base(view', u, cut', spoiled', w, P[w], u.size) /\ Placed(u, adrift', w, P[w]) /\ Reach(view', u, adrift', spoiled', w, P[w])
  BY DEF Fine
<1>5. CASE \E n \in Nat \ {0} : R = <<Task("put", n)>> /\ (w \in adrift' => Fits(u, n))
  <2>1. PICK n \in Nat \ {0} : R = <<Task("put", n)>> /\ (w \in adrift' => Fits(u, n))
    BY <1>5
  <2>2. who' = w /\ todo' = R /\ O' = u
    BY <1>3, <2>1
  <2>3. n \in Nat /\ n # 0
    OBVIOUS
  <2>4. Tracks(u, w, adrift', AtPos(P[w], u.pos), n)
    BY <1>4, <2>1 DEF Tracks, Placed
  <2>5. Writing(P[w], P, Q)'
    <3>1. Intact(P[w], O.size)' /\ Reach(view, O, adrift, spoiled, who, P[w])'
      BY <1>4, <2>2 DEF Intact
    <3>2. Tracks(O, who, adrift, AtPos(P[w], O.pos), n)'
      BY <2>2, <2>4
    <3>3. todo' = <<Task("put", n)>>
      BY <2>1, <2>2
    <3> QED
      BY <2>3, <3>1, <3>2, <3>3 DEF Writing
  <2>6. Phase(P, Q)'
    BY <2>2, <2>5 DEF Phase
  <2> QED
    BY <2>2, <2>6, GoesSound
<1>6. CASE u.size > 0 /\ \E r \in Seq(Easy(a)) : R = Cutting(u.first, a, r)
  <2>1. PICK r \in Seq(Easy(a)) : R = Cutting(u.first, a, r)
    BY <1>6
  <2>2. R # <<>>
    <3>1. a \in Nat /\ Cutting(u.first, a, r) # <<>>
      <4>1. r \in Seq(Plain) /\ Task("shrink", a) \in Plain
        BY EasyList, TaskIs
      <4>2. <<Task("shrink", a)>> \o r \in Seq(Plain)
        BY <4>1, ConsIs
      <4>3. \A h : <<h>> \o (<<Task("shrink", a)>> \o r) # <<>>
        <5> DEFINE s == <<Task("shrink", a)>> \o r
        <5>1. s \in Seq(Plain)
          BY <4>2
        <5> HIDE DEF s
        <5>2. \A h : <<h>> \o s # <<>>
          BY <5>1
        <5> QED
          BY <5>2 DEF s
      <4> QED
        BY <4>3 DEF Cutting
    <3> QED
      BY <2>1, <3>1
  <2>3. who' = w /\ todo' = R /\ O' = u
    BY <1>3, <2>2
  <2>4. Truncating(P[w], P, Q)'
    <3>1. FineNow(P[w])'
      BY <2>3 DEF FineNow
    <3>2. a <= O'.size /\ O'.pos = a /\ O'.open /\ O'.size > 0 /\ got' = {}
      BY <1>6, <2>3
    <3>3. todo' = Cutting(O', a, r) \/ todo' = Cutting(O'.first, a, r)
      BY <2>1, <2>3
    <3>4. a = 0 => who' \notin adrift'
      BY <2>3
    <3>5. todo' = Cutting(O'.first, a, r)
      BY <2>1, <2>3
    <3> QED
      BY <3>1, <3>2, <3>4, <3>5 DEF Truncating, CutsFirst, FreesNext, FreesLoose, EndsChain, Shrinks
  <2>5. Phase(P, Q)'
    BY <2>3, <2>4 DEF Phase
  <2> QED
    BY <2>3, <2>5, GoesSound
<1> QED
  BY <1>2, <1>5, <1>6 DEF After

\* the clusters to follow, one by one
LEMMA HopsList ==
  ASSUME NEW k \in Nat, NEW a \in Nat, NEW R \in Seq(Plain)
  PROVE  /\ [i \in 1 .. k |-> Task("hop", 0)] \o <<Task("arrive", a)>> \o R = Hops(k, <<Task("arrive", a)>> \o R)
         /\ Hops(k, <<Task("arrive", a)>> \o R) # <<>>
         /\ <<Task("arrive", a)>> \o R \in Seq(Plain)
<1> DEFINE h == [i \in 1 .. k |-> Task("hop", 0)]
           g == <<Task("arrive", a)>>
<1>1. h \in Seq(Plain) /\ g \in Seq(Plain) /\ Task("arrive", a) \in Plain
  BY HopsAre, TaskIs, ListIs
<1>2. g \o R \in Seq(Plain) /\ g \o R # <<>>
  BY <1>1, ConsIs
<1>3. Hops(k, g \o R) # <<>>
  <2> DEFINE s == g \o R
  <2> HIDE DEF s
  <2>1. s \in Seq(Plain) /\ s # <<>>
    BY <1>2 DEF s
  <2>2. Hops(k, s) # <<>>
    BY <2>1, HopsIs
  <2> QED
    BY <2>2 DEF s
<1>4. Hops(k, g \o R) = h \o (g \o R)
  BY DEF Hops
<1> HIDE DEF h, g
<1>5. h \o g \o R = h \o (g \o R)
  BY <1>1, ConcatAssociative
<1> QED
  BY <1>2, <1>3, <1>4, <1>5 DEF h, g

\* a seek to where there are bytes
LEMMA SeekFar ==
  ASSUME ChainInv, IInv', DoSeek, Arg > 0, Arg <= O.size
  PROVE  \E P \in Trails, Q \in Trails : Sound(P, Q)'
<1> DEFINE restarts == O.pos = 0 \/ Crossed(O.pos, Arg) < 0
           hops == IF restarts THEN Crossed(1, Arg) ELSE Crossed(O.pos, Arg)
<1>1. Doing("seek") /\ UNCHANGED <<volume, spoiled, cut>>
  BY DEF DoSeek
<1>2. PICK w \in File : w = who
  BY <1>1, AtPhase
<1>3. /\ O \in Object /\ O = obj[w] /\ IsVolume(view) /\ IInv /\ O.size \in Nat /\ O.pos \in Nat
      /\ O.first \in Nat /\ O.cur \in Nat
  <2>1. O \in Object /\ O = obj[w] /\ IsVolume(view) /\ IInv
    BY <1>1, <1>2, AtPhase DEF ChainInv, IInv, Coherent
  <2> QED
    BY <2>1 DEF Object
<1>4. PICK P \in Trails, Q \in Trails : Ground(w, P, Q) /\ Quiet(P[w])
  BY <1>1, <1>2, AtPhase DEF QuietDo
<1>5. got = {} /\ FineNow(P[w]) /\ P[w] \in Trail
  BY <1>4 DEF Quiet, Trails
<1>6. Base(view, O, cut, spoiled, w, P[w], O.size) /\ Placed(O, adrift, w, P[w]) /\ Reach(view, O, adrift, spoiled, w, P[w])
  BY <1>2, <1>5 DEF FineNow, Fine
<1>7. Arg \in Nat \ {0} /\ Rest \in Seq(Plain)
  BY <1>1, AtTask DEF ChainInv
<1>8. O.open
  BY <1>3, <1>6, <1>7, ClosedIs DEF Base, Closed
<1>9. After(O, w, adrift, Rest, Arg)
  <2>1. Rest \in Seq(Easy(O.size)) \/ After(O, w, adrift, Rest, Arg)
    BY <1>1, <1>2, <1>3, <1>4, QuietTasks
  <2> QED
    BY <2>1 DEF After
<1>10. /\ \/ restarts /\ Sets([O EXCEPT !.cur = O.first]) /\ adrift' = adrift \ {w}
          \/ ~restarts /\ UNCHANGED <<obj, adrift>>
       /\ Then([i \in 1 .. hops |-> Task("hop", 0)] \o <<Task("arrive", Arg)>> \o Rest) /\ got' = got
  BY <1>2, <1>3, <1>7 DEF DoSeek, Returns
<1>11. /\ Crossed(1, Arg) = Index(Arg - 1) /\ Index(Arg - 1) \in Nat
       /\ O.pos # 0 => Crossed(O.pos, Arg) = Index(Arg - 1) - Index(O.pos - 1) /\ Index(O.pos - 1) \in Nat
  <2>1. 1 \in Nat \ {0}
    OBVIOUS
  <2>2. Crossed(1, Arg) = Index(Arg - 1) /\ Index(Arg - 1) \in Nat
    BY <1>7, <2>1, CrossedAre
  <2>3. O.pos # 0 => O.pos \in Nat \ {0}
    BY <1>3
  <2> QED
    BY <1>7, <2>2, <2>3, CrossedAre
<1> HIDE DEF restarts
<1>12. hops \in Nat /\ hops <= Index(Arg - 1)
  <2>1. CASE restarts
    BY <1>11, <2>1
  <2>2. CASE ~restarts
    BY <1>11, <2>2 DEF restarts
  <2> QED
    BY <2>1, <2>2
<1>13. \E u \in Object :
         /\ obj'[w] = u /\ SameBut(u, O) /\ u.pos = O.pos /\ \A f \in File : f # w => obj'[f] = obj[f]
         /\ Near(P[w], u.cur) /\ (u.first = 0 => u.pos = 0 /\ u.cur = 0)
         /\ (w \notin adrift' => u.cur = At(P[w], Index(Arg - 1) - hops))
         /\ adrift' \cup {w} = adrift \cup {w} /\ (w \in adrift' => w \in adrift)
  <2>1. CASE restarts /\ Sets([O EXCEPT !.cur = O.first]) /\ adrift' = adrift \ {w}
    <3>1. PICK u : u = [O EXCEPT !.cur = O.first]
      OBVIOUS
    <3>2. u \in Object /\ SameBut(u, O) /\ u.pos = O.pos /\ u.cur = O.first
      BY <1>3, <3>1, CurMoved
    <3>3. obj'[w] = u /\ \A f \in File : f # w => obj'[f] = obj[f]
      BY <1>2, <1>3, <2>1, <3>1, SetsIs
    <3>4. Near(P[w], O.first) /\ At(P[w], 0) = O.first
      BY <1>5, <1>6, <1>8, HeadNear
    <3>5. Index(Arg - 1) - hops = 0
      BY <1>11, <2>1
    <3>6. u.first = 0 => u.pos = 0 /\ u.cur = 0
      BY <1>6, <1>8, <3>2 DEF Base, Entered, SameBut
    <3> QED
      BY <2>1, <3>2, <3>3, <3>4, <3>5, <3>6
  <2>2. CASE ~restarts /\ UNCHANGED <<obj, adrift>>
    <3>1. O.pos # 0 /\ hops = Index(Arg - 1) - Index(O.pos - 1)
      BY <1>11, <2>2 DEF restarts
    <3>2. Index(Arg - 1) - hops = Index(O.pos - 1)
      BY <1>11, <3>1
    <3>3. w \notin adrift' => O.cur = At(P[w], Index(Arg - 1) - hops)
      BY <1>6, <1>8, <2>2, <3>1, <3>2 DEF Placed, AtPos
    <3>4. Near(P[w], O.cur) /\ (O.first = 0 => O.pos = 0 /\ O.cur = 0)
      BY <1>6, <1>8 DEF Base, Entered
    <3> QED
      BY <1>3, <2>2, <3>3, <3>4 DEF SameBut
  <2> QED
    BY <1>10, <2>1, <2>2
<1> HIDE DEF hops
<1>14. PICK u \in Object :
         /\ obj'[w] = u /\ SameBut(u, O) /\ u.pos = O.pos /\ \A f \in File : f # w => obj'[f] = obj[f]
         /\ Near(P[w], u.cur) /\ (u.first = 0 => u.pos = 0 /\ u.cur = 0)
         /\ (w \notin adrift' => u.cur = At(P[w], Index(Arg - 1) - hops))
         /\ adrift' \cup {w} = adrift \cup {w} /\ (w \in adrift' => w \in adrift)
  BY <1>13
<1>15. PICK S \in Trails : Mixed(S, Q, P) /\ Ground(w, P, S)'
  BY <1>1, <1>3, <1>4, <1>14, PlaceGround DEF volume
<1>16. Base(view', u, cut', spoiled', w, P[w], u.size) /\ u.open
  <2>1. Base(view, u, cut, spoiled, w, P[w], O.size) /\ u.open /\ u.size = O.size
    BY <1>3, <1>6, <1>8, <1>14, BaseMoved DEF SameBut
  <2> QED
    BY <1>1, <2>1 DEF volume
<1>17. todo' = Hops(hops, <<Task("arrive", Arg)>> \o Rest) /\ who' = w
  <2> DEFINE h == [i \in 1 .. hops |-> Task("hop", 0)] \o <<Task("arrive", Arg)>> \o Rest
  <2>1. h = Hops(hops, <<Task("arrive", Arg)>> \o Rest) /\ Hops(hops, <<Task("arrive", Arg)>> \o Rest) # <<>>
    BY <1>7, <1>12, HopsList
  <2>2. Then(h)
    BY <1>10 DEF hops
  <2> HIDE DEF h
  <2> QED
    BY <1>2, <2>1, <2>2 DEF Then
<1>18. PICK a, k, r : a = Arg /\ k = hops /\ r = Rest
  OBVIOUS
<1>19. Seeking(P[w])'
  <2>1. O' = u /\ who' = w
    BY <1>14, <1>17 DEF O
  <2>2. k \in Nat /\ a \in Nat \ {0} /\ r \in Seq(Plain) /\ todo' = Hops(k, <<Task("arrive", a)>> \o r)
    BY <1>7, <1>12, <1>17, <1>18
  <2>3. a <= u.size /\ After(u, w, adrift', r, a)
    BY <1>9, <1>14, <1>18 DEF After, SameBut, Fits
  <2>4. w \notin adrift' => k <= Index(a - 1) /\ u.cur = At(P[w], Index(a - 1) - k)
    BY <1>12, <1>14, <1>18
  <2>5. Intact(P[w], O.size)' /\ got' = {}
    BY <1>5, <1>10, <1>16, <2>1 DEF Intact
  <2> QED
    BY <2>1, <2>2, <2>3, <2>4, <2>5 DEF Seeking
<1>20. Phase(P, S)'
  BY <1>17, <1>19 DEF Phase
<1> QED
  BY <1>15, <1>17, <1>20, GoesSound

\* The object of the call changes its place, and its chain is looked at at most.
LEMMA MovesOn ==
  ASSUME IInv, IInv', NEW w \in File, NEW P, NEW Q, Ground(w, P, Q),
         NEW o \in Object, o = obj[w], o.open, Base(view, o, cut, spoiled, w, P[w], o.size),
         view' = view, spoiled' = spoiled,
         (Cuts({}) /\ (card' = card \/ card' = view)) \/ (card' = card /\ cut' = cut),
         adrift' \cup {w} = adrift \cup {w},
         NEW u \in Object, obj'[w] = u, SameBut(u, o), \A f \in File : f # w => obj'[f] = obj[f],
         Near(P[w], u.cur), u.first = 0 => u.pos = 0 /\ u.cur = 0
  PROVE  /\ \E R \in Trails : Mixed(R, Q, P) /\ Ground(w, P, R)'
         /\ Base(view', u, cut', spoiled', w, P[w], u.size) /\ u.open
<1>1. IsVolume(view) /\ P[w] \in Trail /\ o.size \in Nat
  BY DEF IInv, Coherent, Ground, Trails, Object
<1>2. SizeOf(view, obj[w], w) = o.size /\ SizeOf(view, obj'[w], w) = o.size /\ u.size = o.size
  BY DEF SizeOf, SameBut
<1>3. Base(view, u, cut, spoiled, w, P[w], u.size) /\ u.open
  BY <1>2, BaseMoved
<1>4. CASE card' = card /\ cut' = cut
  BY <1>3, <1>4, PlaceGround
<1>5. CASE Cuts({}) /\ (card' = card \/ card' = view)
  <2>1. Anchored(view, cache, obj[w], cut, spoiled, w, P[w])
    BY DEF Anchored
  <2>2. SizeOf(view, obj[w], w) <= SizeOf(view, obj'[w], w)
    BY <1>1, <1>2
  <2>3. \A f \in File : f # w =>
          /\ obj'[f] = obj[f]
          /\ (f \in adrift => f \in adrift') /\ (f \in spoiled <=> f \in spoiled')
    OBVIOUS
  <2>4. \E R \in Trails : Mixed(R, Q, P) /\ Ground(w, P, R)'
    BY <1>5, <2>1, <2>2, <2>3, GroundLooks
  <2>5. w \notin cut' => w \notin cut \/ ~u.dirDirty
    BY <1>5, CutOf DEF SameBut
  <2>6. SameAlong(view, view', P[w])
    BY DEF SameAlong
  <2>7. Base(view', u, cut', spoiled', w, P[w], u.size)
    BY <1>1, <1>2, <1>3, <2>5, <2>6, BaseKept
  <2> QED
    BY <1>3, <2>4, <2>7
<1> QED
  BY <1>4, <1>5

LEMMA SameObject ==
  ASSUME NEW a \in Object, NEW b \in Object, SameBut(a, b), a.cur = b.cur, a.pos = b.pos
  PROVE  a = b
<1>1. /\ a = [open |-> a.open, mode |-> a.mode, first |-> a.first, cur |-> a.cur, pos |-> a.pos,
              size |-> a.size, dirDirty |-> a.dirDirty]
      /\ b = [open |-> b.open, mode |-> b.mode, first |-> b.first, cur |-> b.cur, pos |-> b.pos,
              size |-> b.size, dirDirty |-> b.dirDirty]
  BY DEF Object
<1> QED
  BY <1>1 DEF SameBut

LEMMA ClosedStays == [Closed EXCEPT !.cur = 0, !.pos = 0] = Closed
<1>1. Closed \in Object /\ Closed.cur = 0 /\ Closed.pos = 0 /\ 0 \in Nat
  BY ClosedIs DEF Closed
<1>2. PICK c \in Nat : c = 0
  OBVIOUS
<1>3. PICK o \in Object : o = Closed
  BY <1>1
<1>4. PICK u : u = [o EXCEPT !.cur = c, !.pos = c]
  OBVIOUS
<1>5. u \in Object /\ SameBut(u, o) /\ u.cur = c /\ u.pos = c
  BY <1>4, PlaceSet, MovedIs
<1>6. u = o
  BY <1>1, <1>2, <1>3, <1>5, SameObject
<1> QED
  BY <1>2, <1>3, <1>4, <1>6

LEMMA SeekHome ==
  ASSUME ChainInv, IInv', DoSeek, Arg = 0
  PROVE  \E P \in Trails, Q \in Trails : Sound(P, Q)'
<1>1. Doing("seek") /\ UNCHANGED <<volume, spoiled, cut>>
  BY DEF DoSeek
<1>2. PICK w \in File : w = who
  BY <1>1, AtPhase
<1>3. /\ O \in Object /\ O = obj[w] /\ IsVolume(view) /\ IInv /\ O.size \in Nat /\ O.open \in BOOLEAN
  <2>1. O \in Object /\ O = obj[w] /\ IsVolume(view) /\ IInv
    BY <1>1, <1>2, AtPhase DEF ChainInv, IInv, Coherent
  <2> QED
    BY <2>1 DEF Object
<1>4. PICK P \in Trails, Q \in Trails : Ground(w, P, Q) /\ Quiet(P[w])
  BY <1>1, <1>2, AtPhase DEF QuietDo
<1>5. got = {} /\ FineNow(P[w]) /\ P[w] \in Trail
  BY <1>4 DEF Quiet, Trails
<1>6. Base(view, O, cut, spoiled, w, P[w], O.size)
  BY <1>2, <1>5 DEF FineNow, Fine
<1>7. Rest \in Seq(Plain)
  BY <1>1, AtTask DEF ChainInv
<1>8. PICK u : u = [O EXCEPT !.cur = 0, !.pos = 0]
  OBVIOUS
<1>9. Sets(u) /\ adrift' = adrift \ {w} /\ Then(Rest) /\ got' = got
  BY <1>1, <1>2, <1>3, <1>8 DEF DoSeek
<1>10. u \in Object /\ SameBut(u, O) /\ u.cur = 0 /\ u.pos = 0
  <2>1. 0 \in Nat
    OBVIOUS
  <2>2. \A c \in Nat, p \in Nat : LET m == [O EXCEPT !.cur = c, !.pos = p] IN
          m \in Object /\ SameBut(m, O) /\ m.cur = c /\ m.pos = p
    BY <1>3, PlaceSet, MovedIs, ZenonT(60)
  <2> QED
    BY <1>8, <2>1, <2>2, ZenonT(60)
<1>11. obj'[w] = u /\ \A f \in File : f # w => obj'[f] = obj[f]
  BY <1>2, <1>3, <1>9, SetsIs
<1>12. adrift' \cup {w} = adrift \cup {w} /\ w \notin adrift' /\ got' = {}
  BY <1>5, <1>9
<1>13. PICK R : R = Rest
  OBVIOUS
<1>14. CASE O.open
  <2>1. Near(P[w], u.cur)
    BY <1>10 DEF Near
  <2>2. /\ \E S \in Trails : Mixed(S, Q, P) /\ Ground(w, P, S)'
        /\ Base(view', u, cut', spoiled', w, P[w], u.size) /\ u.open
    BY <1>1, <1>3, <1>4, <1>6, <1>10, <1>11, <1>12, <1>14, <2>1, MovesOn DEF volume
  <2>3. PICK S \in Trails : Mixed(S, Q, P) /\ Ground(w, P, S)'
    BY <2>2
  <2>4. Fine(view', u, cut', spoiled', adrift', w, P[w])
    BY <1>10, <1>12, <2>2, HoldsNone DEF Fine, Placed, Reach, AtPos
  <2>5. After(O, w, adrift, R, 0)
    <3>1. Rest \in Seq(Easy(O.size)) \/ After(O, w, adrift, Rest, Arg)
      BY <1>1, <1>2, <1>3, <1>4, QuietTasks
    <3> QED
      BY <1>13, <3>1 DEF After
  <2>6. After(u, w, adrift', R, 0)
    BY <1>10, <1>12, <2>5 DEF After, SameBut
  <2>7. 0 \in Nat /\ 0 <= u.size /\ (u.size > 0 \/ u.size = 0) /\ u.pos = 0
    BY <1>3, <1>10 DEF SameBut
  <2>8. Then(R) /\ R \in Seq(Plain)
    BY <1>7, <1>9, <1>13
  <2> QED
    BY <1>2, <1>10, <1>11, <1>12, <2>2, <2>3, <2>4, <2>6, <2>7, <2>8, AfterGoes
<1>15. CASE ~O.open
  <2>1. O = Closed
    BY <1>6, <1>15 DEF Base
  <2>2. u = O
    BY <1>8, <2>1, ClosedStays
  <2>3. R \in Seq(Easy(O.size)) /\ SizeOf(view, O, w) = O.size
    BY <1>1, <1>2, <1>3, <1>4, <1>13, <1>15, QuietTasks
  <2>4. SameBut(obj'[w], obj[w])
    BY <1>3, <1>10, <1>11
  <2>5. PICK S \in Trails : Mixed(S, Q, P) /\ Ground(w, P, S)'
    BY <1>1, <1>3, <1>4, <1>11, <1>12, <2>4, PlaceGround DEF volume
  <2>6. Fine(view', obj'[w], cut', spoiled', adrift', w, P[w])
    BY <1>1, <1>6, <1>11, <1>15, <2>2 DEF Fine, Placed, Reach, volume
  <2>7. obj'[w].size = O.size /\ SizeOf(view', obj'[w], w) = O.size
    BY <1>1, <1>11, <2>2, <2>3 DEF volume
  <2>8. Then(R)
    BY <1>9, <1>13
  <2> QED
    BY <1>2, <1>12, <2>3, <2>5, <2>6, <2>7, <2>8, EasyGoes
<1> QED
  BY <1>3, <1>14, <1>15

LEMMA SeekSound ==
  ASSUME ChainInv, IInv', DoSeek
  PROVE  \E P \in Trails, Q \in Trails : Sound(P, Q)'
<1>1. Doing("seek") /\ UNCHANGED <<volume, spoiled, cut>>
  BY DEF DoSeek
<1>2. PICK w \in File : w = who
  BY <1>1, AtPhase
<1>3. O = obj[w] /\ IInv
  BY <1>1, <1>2, AtPhase DEF ChainInv
<1>4. CASE Arg > O.size /\ Returns /\ UNCHANGED <<obj, adrift>>
  <2>1. PICK P \in Trails, Q \in Trails : Ground(w, P, Q) /\ Quiet(P[w])
    BY <1>1, <1>2, AtPhase DEF QuietDo
  <2>2. FineNow(P[w])
    BY <2>1 DEF Quiet
  <2>3. SameBut(obj'[w], obj[w]) /\ \A f \in File : f # w => obj'[f] = obj[f]
    BY <1>4 DEF SameBut
  <2>4. PICK S \in Trails : Mixed(S, Q, P) /\ Ground(w, P, S)'
    BY <1>1, <1>3, <1>4, <2>1, <2>3, PlaceGround DEF volume
  <2>5. Fine(view', obj'[w], cut', spoiled', adrift', w, P[w])
    BY <1>1, <1>2, <1>3, <1>4, <2>2 DEF FineNow, volume
  <2>6. who' = None /\ got' = {}
    BY <1>4 DEF Returns, Then
  <2> QED
    BY <2>4, <2>5, <2>6, EndsSound
<1> QED
  BY <1>4, SeekHome, SeekFar DEF DoSeek

LEMMA HopSound ==
  ASSUME ChainInv, IInv', DoHop
  PROVE  \E P \in Trails, Q \in Trails : Sound(P, Q)'
<1>1. /\ Doing("hop") /\ InFat(O.cur) /\ (card' = card \/ card' = view) /\ Cuts({})
      /\ Sets([O EXCEPT !.cur = Entry(O.cur)]) /\ Then(Rest) /\ UNCHANGED <<view, got, adrift, spoiled>>
  BY LoadsCard DEF DoHop
<1>2. PICK w \in File : w = who
  BY <1>1, AtPhase
<1>3. /\ O \in Object /\ O = obj[w] /\ IsVolume(view) /\ Coherent(view, card, cache) /\ IInv /\ O.cur \in Nat
      /\ O.first \in Nat /\ O.size \in Nat
  <2>1. O \in Object /\ O = obj[w] /\ IsVolume(view) /\ Coherent(view, card, cache) /\ IInv
    BY <1>1, <1>2, AtPhase DEF ChainInv, IInv, Coherent
  <2> QED
    BY <2>1 DEF Object
<1>4. PICK P \in Trails, Q \in Trails : Ground(w, P, Q) /\ Seeking(P[w]) /\ P[w] \in Trail
  BY <1>1, <1>2, AtPhase
<1>5. got = {} /\ O.open /\ Base(view, O, cut, spoiled, w, P[w], O.size)
  BY <1>2, <1>4 DEF Seeking, Intact
<1>6. PICK k0 \in Nat, a \in Nat \ {0}, R \in Seq(Plain) :
        /\ todo = Hops(k0, <<Task("arrive", a)>> \o R)
        /\ a <= O.size /\ After(O, w, adrift, R, a)
        /\ w \notin adrift => k0 <= Index(a - 1) /\ O.cur = At(P[w], Index(a - 1) - k0)
  BY <1>2, <1>4 DEF Seeking
<1>7. <<Task("arrive", a)>> \o R \in Seq(Plain)
  BY HopsList
<1> DEFINE s == <<Task("arrive", a)>> \o R
<1>8. k0 > 0
  <2>1. Head(s) = Task("arrive", a) /\ s # <<>>
    <3>1. Task("arrive", a) \in Plain
      BY TaskIs
    <3> QED
      BY <3>1, ConsIs
  <2>2. Head(todo).do = "hop"
    BY <1>1 DEF Doing
  <2>3. Head(s).do # "hop"
    BY <2>1 DEF Task
  <2> HIDE DEF s
  <2>4. k0 # 0
    BY <1>6, <1>7, <2>2, <2>3, HopsIs DEF s
  <2> QED
    BY <2>4
<1>9. Rest = Hops(k0 - 1, s) /\ Hops(k0 - 1, s) # <<>>
  <2>1. Rest = Hops(k0 - 1, s)
    <3> HIDE DEF s
    <3> QED
      BY <1>6, <1>7, <1>8, HopsIs DEF s, Rest
  <2>2. k0 - 1 \in Nat
    BY <1>8
  <2> QED
    BY <2>1, <2>2, HopsList
<1>10. PICK e : e = Entry(O.cur)
  OBVIOUS
<1>11. e \in Nat
  BY <1>1, <1>3, <1>10, EntryIs
<1>12. PICK u : u = [O EXCEPT !.cur = e]
  OBVIOUS
<1>13. u \in Object /\ SameBut(u, O) /\ u.cur = e /\ u.pos = O.pos
  BY <1>3, <1>11, <1>12, CurMoved
<1>14. obj'[w] = u /\ \A f \in File : f # w => obj'[f] = obj[f]
  BY <1>1, <1>2, <1>3, <1>10, <1>12, SetsIs
<1>15. Links(view.fat, O.first, P[w]) /\ Near(P[w], O.cur) /\ O.first # 0 /\ P[w].n # 0
  <2>1. O.size > 0
    BY <1>3, <1>6
  <2>2. O.first # 0
    BY <1>5, <2>1 DEF Base, Entered
  <2> QED
    <3>1. Links(view.fat, O.first, P[w]) /\ (O.first = 0 <=> P[w].n = 0)
      BY <1>4, <1>5, HeadNear
    <3>2. Near(P[w], O.cur)
      BY <1>5 DEF Base
    <3> QED
      BY <2>2, <3>1, <3>2
<1>16. Near(P[w], e)
  <2>1. CASE O.cur = 0
    BY <1>10, <2>1 DEF Entry, Near
  <2>2. CASE O.cur \in Cluster
    <3>1. e = view.fat[O.cur]
      BY <1>10, <2>2, ClustersAre DEF Entry
    <3> QED
      BY <1>4, <1>15, <2>2, <3>1, NearOn
  <2> QED
    BY <1>1, <2>1, <2>2 DEF InFat
<1>17. w \notin adrift => k0 - 1 <= Index(a - 1) /\ e = At(P[w], Index(a - 1) - (k0 - 1))
  <2> SUFFICES ASSUME w \notin adrift
               PROVE  k0 - 1 <= Index(a - 1) /\ e = At(P[w], Index(a - 1) - (k0 - 1))
    OBVIOUS
  <2> DEFINE i == Index(a - 1)
  <2>1. i \in Nat
    <3>1. a - 1 \in Nat
      OBVIOUS
    <3> QED
      BY <3>1, PlaceIs
  <2>2. k0 <= i /\ O.cur = At(P[w], i - k0)
    BY <1>6
  <2> HIDE DEF i
  <2>3. k0 - 1 <= i /\ i - k0 \in Nat /\ i - (k0 - 1) = (i - k0) + 1
    BY <1>8, <2>1, <2>2
  <2>4. O.cur # 0
    BY <1>4, <1>15, <2>2, <2>3, AtIs
  <2>5. O.cur \in Cluster /\ e = view.fat[O.cur]
    BY <1>1, <1>10, <2>4 DEF InFat, Entry
  <2>6. e = At(P[w], (i - k0) + 1)
    BY <1>4, <1>15, <2>2, <2>3, <2>5, AtIs
  <2> QED
    BY <2>3, <2>6 DEF i
<1>18. /\ \E S \in Trails : Mixed(S, Q, P) /\ Ground(w, P, S)'
       /\ Base(view', u, cut', spoiled', w, P[w], u.size) /\ u.open
  <2>1. u.first = 0 => u.pos = 0 /\ u.cur = 0
    BY <1>13, <1>15 DEF SameBut
  <2> QED
    BY <1>1, <1>3, <1>4, <1>5, <1>13, <1>14, <1>16, <2>1, MovesOn
<1>19. PICK S \in Trails : Mixed(S, Q, P) /\ Ground(w, P, S)'
  BY <1>18
<1>20. who' = w /\ todo' = Hops(k0 - 1, <<Task("arrive", a)>> \o R)
  BY <1>1, <1>2, <1>9 DEF Then
<1>21. Seeking(P[w])'
  <2>1. O' = u /\ who' = w
    BY <1>14, <1>20 DEF O
  <2>2. k0 - 1 \in Nat
    BY <1>8
  <2>3. a <= u.size /\ After(u, w, adrift', R, a)
    BY <1>1, <1>6, <1>13 DEF After, SameBut, Fits
  <2>4. w \notin adrift' => k0 - 1 <= Index(a - 1) /\ u.cur = At(P[w], Index(a - 1) - (k0 - 1))
    BY <1>1, <1>13, <1>17
  <2>5. Intact(P[w], O.size)' /\ got' = {}
    BY <1>1, <1>5, <1>18, <2>1 DEF Intact
  <2> QED
    BY <1>20, <2>1, <2>2, <2>3, <2>4, <2>5 DEF Seeking
<1>22. Phase(P, S)'
  BY <1>20, <1>21 DEF Phase
<1> QED
  BY <1>19, <1>20, <1>22, GoesSound

LEMMA ArriveSound ==
  ASSUME ChainInv, IInv', DoArrive
  PROVE  \E P \in Trails, Q \in Trails : Sound(P, Q)'
<1>1. /\ Doing("arrive") /\ Sets([O EXCEPT !.pos = Arg]) /\ Then(Rest)
      /\ UNCHANGED <<view, card, got, adrift, spoiled, cut>>
  BY DEF DoArrive, volume
<1>2. PICK w \in File : w = who
  BY <1>1, AtPhase
<1>3. /\ O \in Object /\ O = obj[w] /\ IInv /\ O.first \in Nat /\ O.size \in Nat
  <2>1. O \in Object /\ O = obj[w] /\ IInv
    BY <1>1, <1>2, AtPhase DEF ChainInv
  <2> QED
    BY <2>1 DEF Object
<1>4. PICK P \in Trails, Q \in Trails : Ground(w, P, Q) /\ Seeking(P[w]) /\ P[w] \in Trail
  BY <1>1, <1>2, AtPhase
<1>5. got = {} /\ O.open /\ Base(view, O, cut, spoiled, w, P[w], O.size)
  BY <1>2, <1>4 DEF Seeking, Intact
<1>6. PICK k0 \in Nat, a \in Nat \ {0}, R \in Seq(Plain) :
        /\ todo = Hops(k0, <<Task("arrive", a)>> \o R)
        /\ a <= O.size /\ After(O, w, adrift, R, a)
        /\ w \notin adrift => k0 <= Index(a - 1) /\ O.cur = At(P[w], Index(a - 1) - k0)
  BY <1>2, <1>4 DEF Seeking
<1> DEFINE s == <<Task("arrive", a)>> \o R
<1>7. s \in Seq(Plain) /\ Task("arrive", a) \in Plain
  BY HopsList, TaskIs
<1>8. k0 = 0
  <2>1. Head(todo).do = "arrive"
    BY <1>1 DEF Doing
  <2>2. Task("hop", 0).do # "arrive"
    BY DEF Task
  <2> HIDE DEF s
  <2>3. ~(k0 > 0)
    BY <1>6, <1>7, <2>1, <2>2, HopsIs DEF s
  <2> QED
    BY <2>3
<1>9. todo = s
  <2> HIDE DEF s
  <2> QED
    BY <1>6, <1>7, <1>8, HopsIs DEF s
<1>10. Rest = R /\ Arg = a
  <2>1. Rest = R /\ Arg = Task("arrive", a).arg
    BY <1>7, <1>9, HeadIs
  <2> QED
    BY <2>1 DEF Task
<1>11. PICK u : u = [O EXCEPT !.pos = a]
  OBVIOUS
<1>12. u \in Object /\ SameBut(u, O) /\ u.cur = O.cur /\ u.pos = a
  BY <1>3, <1>11, PosSet, MovedIs
<1>13. obj'[w] = u /\ \A f \in File : f # w => obj'[f] = obj[f]
  BY <1>1, <1>2, <1>3, <1>10, <1>11, SetsIs
<1>14. Near(P[w], O.cur) /\ O.first # 0
  <2>1. O.size > 0
    BY <1>3, <1>6
  <2> QED
    BY <1>5, <2>1 DEF Base, Entered
<1>15. /\ \E S \in Trails : Mixed(S, Q, P) /\ Ground(w, P, S)'
       /\ Base(view', u, cut', spoiled', w, P[w], u.size) /\ u.open
  <2>1. u.first = 0 => u.pos = 0 /\ u.cur = 0
    BY <1>12, <1>14 DEF SameBut
  <2> QED
    BY <1>1, <1>3, <1>4, <1>5, <1>12, <1>13, <1>14, <2>1, MovesOn
<1>16. PICK S \in Trails : Mixed(S, Q, P) /\ Ground(w, P, S)'
  BY <1>15
<1>17. Fine(view', u, cut', spoiled', adrift', w, P[w])
  <2>1. w \notin adrift => O.cur = AtPos(P[w], a)
    <3>1. a - 1 \in Nat
      OBVIOUS
    <3>2. Index(a - 1) - 0 = Index(a - 1)
      BY <3>1, PlaceIs
    <3> QED
      BY <1>6, <1>8, <3>2 DEF AtPos
  <2>2. w \notin spoiled => Holds(view', w, P[w], a)
    <3>1. w \notin spoiled => Holds(view', w, P[w], u.size)
      BY <1>1, <1>15 DEF Base
    <3> QED
      <4>1. u.size = O.size /\ a <= O.size /\ O.size \in Nat /\ a \in Nat
        BY <1>3, <1>6, <1>12 DEF SameBut
      <4>2. \A p \in Nat : p < a => p < u.size
        BY <4>1
      <4> QED
        BY <3>1, <4>2, Zenon DEF Holds
  <2> QED
    BY <1>1, <1>12, <1>15, <2>1, <2>2 DEF Fine, Placed, Reach
<1>18. After(u, w, adrift', R, a)
  <2>1. ASSUME NEW n \in Nat, Fits(O, n) PROVE Fits(u, n)
    BY <1>3, <1>6, <1>12, <2>1, FullIs DEF Fits, SameBut
  <2> QED
    BY <1>1, <1>6, <1>12, <2>1 DEF After, SameBut
<1>19. a \in Nat /\ a <= u.size /\ (u.size > 0 \/ u.size = 0) /\ a # 0
  BY <1>3, <1>6, <1>12 DEF SameBut
<1>20. Then(R) /\ got' = {}
  BY <1>1, <1>5, <1>10
<1> QED
  BY <1>2, <1>12, <1>13, <1>15, <1>16, <1>17, <1>18, <1>19, <1>20, AfterGoes

-----------------------------------------------------------------------------
(***************************************************************************)
(* Reading                                                                 *)
(***************************************************************************)
LEMMA PieceSome ==
  ASSUME O.pos \in Nat, Arg \in Nat \ {0}
  PROVE  /\ Piece \in Nat \ {0} /\ Piece <= Arg /\ O.pos + Piece \in Nat \ {0} /\ Arg - Piece \in Nat
         /\ O.pos + Piece - 1 \in Bytes /\ O.pos + Piece - 1 \in Nat
         /\ Index(O.pos + Piece - 1) = Index(O.pos)
<1> DEFINE p == O.pos
           a == Arg
           r == Offset(p)
           n == Piece
<1>1. BlockSize \in Nat \ {0} /\ p \in Nat /\ a \in Nat \ {0} /\ r \in 0 .. BlockSize - 1
      /\ n \in Nat /\ n <= a
  BY PieceIs, CountAssumption
<1>2. n # 0
  <2> DEFINE b == BlockSize - r
  <2> HIDE DEF p, a, r
  <2>1. b \in Nat \ {0} /\ a \in Nat \ {0}
    BY <1>1
  <2>2. n = Min({b, a})
    BY DEF Piece, p, a, r
  <2> HIDE DEF b, n
  <2> QED
    BY <2>1, <2>2, LeastIs
<1>3. p + n - 1 \in p .. p + n - 1 /\ p + n - 1 \in Nat
  <2> HIDE DEF p, n, a, r
  <2> QED
    BY <1>1, <1>2
<1>4. p + n - 1 \in Bytes
  BY <1>3 DEF Bytes
<1>5. Index(p + n - 1) = Index(p)
  BY <1>1, <1>4, BytesPlaced
<1>6. n \in Nat \ {0} /\ p + n \in Nat \ {0} /\ a - n \in Nat
  <2> HIDE DEF p, n, a, r
  <2> QED
    BY <1>1, <1>2
<1> QED
  BY <1>1, <1>3, <1>4, <1>5, <1>6

\* the cluster of the position, and of the one before
LEMMA PlaceBefore ==
  ASSUME NEW x, NEW p \in Nat
  PROVE  /\ ~AtCluster(p) => p # 0 /\ AtPos(x, p) = At(x, Index(p))
         /\ p # 0 /\ AtCluster(p) =>
              /\ Index(p - 1) \in Nat /\ Index(p) = Index(p - 1) + 1
              /\ AtPos(x, p) = At(x, Index(p - 1))
<1>1. ~AtCluster(p) => p # 0
  BY IndexAtZero
<1>2. p # 0 => p \in Nat \ {0} /\ p - 1 \in Nat
  OBVIOUS
<1> QED
  BY <1>1, <1>2, IndexBefore, PlaceIs DEF AtPos

LEMMA ReadSound ==
  ASSUME ChainInv, IInv', DoRead
  PROVE  \E P \in Trails, Q \in Trails : Sound(P, Q)'
<1>1. Doing("read") /\ UNCHANGED <<view, adrift, spoiled>>
  BY DEF DoRead, volume
<1>2. PICK w \in File : w = who
  BY <1>1, AtPhase
<1>3. /\ O \in Object /\ O = obj[w] /\ IsVolume(view) /\ Coherent(view, card, cache) /\ IInv /\ O.cur \in Nat
      /\ O.first \in Nat /\ O.size \in Nat /\ O.pos \in Nat
  <2>1. O \in Object /\ O = obj[w] /\ IsVolume(view) /\ Coherent(view, card, cache) /\ IInv
    BY <1>1, <1>2, AtPhase DEF ChainInv, IInv, Coherent
  <2> QED
    BY <2>1 DEF Object
<1>4. PICK P \in Trails, Q \in Trails : Ground(w, P, Q) /\ Reading(P[w]) /\ P[w] \in Trail
  BY <1>1, <1>2, AtPhase
<1>5. O.open /\ Base(view, O, cut, spoiled, w, P[w], O.size) /\ Reach(view, O, adrift, spoiled, w, P[w])
  BY <1>2, <1>4 DEF Reading, Intact
<1>6. PICK n \in Nat :
         \/ todo = <<Task("read", n)>> /\ Tracks(O, w, adrift, AtPos(P[w], O.pos), n)
         \/ n > 0 /\ todo = <<Task("copy", n)>> /\ Tracks(O, w, adrift, At(P[w], Index(O.pos)), n)
  BY <1>2, <1>4 DEF Reading
<1>7. Arg = n /\ Tracks(O, w, adrift, AtPos(P[w], O.pos), n)
  BY <1>1, <1>6 DEF Doing, Task, Arg
<1>8. \A r \in got : w \notin adrift /\ w \notin spoiled /\ r[1] < O.size => r[2] = <<w, r[1]>>
  BY <1>2, <1>4 DEF Reading
<1>9. CASE Arg = 0 /\ Returns /\ UNCHANGED <<volume, obj, cut>>
  <2>1. SameBut(obj'[w], obj[w]) /\ \A f \in File : f # w => obj'[f] = obj[f]
    BY <1>9 DEF SameBut
  <2>2. PICK S \in Trails : Mixed(S, Q, P) /\ Ground(w, P, S)'
    BY <1>1, <1>3, <1>4, <1>9, <2>1, PlaceGround DEF volume
  <2>3. Placed(O, adrift, w, P[w])
    BY <1>7 DEF Placed, Tracks
  <2>4. Fine(view', obj'[w], cut', spoiled', adrift', w, P[w])
    BY <1>1, <1>3, <1>5, <1>9, <2>3 DEF Fine
  <2>5. who' = None /\ got' = {}
    BY <1>9 DEF Returns, Then
  <2> QED
    BY <2>2, <2>4, <2>5, EndsSound
<1>10. ASSUME NEW u \in Object, obj'[w] = u, SameBut(u, O), u.pos = O.pos,
              \A f \in File : f # w => obj'[f] = obj[f],
              Near(P[w], u.cur), u.first = 0 => u.pos = 0 /\ u.cur = 0,
              (Cuts({}) /\ (card' = card \/ card' = view)) \/ (card' = card /\ cut' = cut),
              Tracks(u, w, adrift, At(P[w], Index(O.pos)), n), n > 0,
              Then(<<Task("copy", n)>>), got' = got
       PROVE  \E P2 \in Trails, Q2 \in Trails : Sound(P2, Q2)'
  <2>1. /\ \E S \in Trails : Mixed(S, Q, P) /\ Ground(w, P, S)'
        /\ Base(view', u, cut', spoiled', w, P[w], u.size) /\ u.open
    BY <1>1, <1>3, <1>4, <1>5, <1>10, MovesOn
  <2>2. PICK S \in Trails : Mixed(S, Q, P) /\ Ground(w, P, S)'
    BY <2>1
  <2>3. who' = w /\ todo' = <<Task("copy", n)>> /\ O' = u
    BY <1>2, <1>10 DEF Then, O
  <2>4. Reading(P[w])'
    <3>1. Intact(P[w], O.size)' /\ Reach(view, O, adrift, spoiled, who, P[w])'
      BY <1>1, <1>5, <1>10, <2>1, <2>3 DEF Intact, Reach, SameBut
    <3>2. \A r \in got' : w \notin adrift' /\ w \notin spoiled' /\ r[1] < u.size => r[2] = <<w, r[1]>>
      BY <1>1, <1>8, <1>10 DEF SameBut
    <3>3. Tracks(O, who, adrift, At(P[w], Index(O.pos)), n)'
      BY <1>1, <1>10, <2>3
    <3> QED
      BY <1>10, <2>3, <3>1, <3>2, <3>3 DEF Reading
  <2>5. Phase(P, S)'
    BY <2>3, <2>4 DEF Phase
  <2> QED
    BY <2>2, <2>3, <2>5, GoesSound
<1>11. Near(P[w], O.cur) /\ (O.first = 0 => O.pos = 0 /\ O.cur = 0)
  BY <1>5 DEF Base, Entered
<1>12. CASE Arg > 0 /\ ~AtCluster(O.pos) /\ Then(<<Task("copy", Arg)>>) /\ UNCHANGED <<volume, obj, cut, got>>
  <2>1. Tracks(O, w, adrift, At(P[w], Index(O.pos)), n)
    BY <1>3, <1>7, <1>12, PlaceBefore
  <2>2. obj'[w] = O /\ SameBut(O, O) /\ \A f \in File : f # w => obj'[f] = obj[f]
    BY <1>3, <1>12 DEF SameBut
  <2> QED
    BY <1>3, <1>7, <1>10, <1>11, <1>12, <2>1, <2>2 DEF volume
<1>13. CASE /\ Arg > 0 /\ O.pos = 0 /\ Sets([O EXCEPT !.cur = O.first]) /\ Then(<<Task("copy", Arg)>>)
            /\ UNCHANGED <<volume, cut, got>>
  <2>1. PICK u : u = [O EXCEPT !.cur = O.first]
    OBVIOUS
  <2>2. u \in Object /\ SameBut(u, O) /\ u.pos = O.pos /\ u.cur = O.first
    BY <1>3, <2>1, CurMoved
  <2>3. obj'[w] = u /\ \A f \in File : f # w => obj'[f] = obj[f]
    BY <1>2, <1>3, <1>13, <2>1, SetsIs
  <2>4. Near(P[w], u.cur) /\ At(P[w], Index(O.pos)) = u.cur
    BY <1>4, <1>5, <1>13, <2>2, HeadNear, IndexAtZero
  <2>5. u.first = 0 => u.pos = 0 /\ u.cur = 0
    BY <1>13, <2>2 DEF SameBut
  <2>6. Tracks(u, w, adrift, At(P[w], Index(O.pos)), n)
    BY <2>4 DEF Tracks
  <2> QED
    BY <1>7, <1>10, <1>13, <2>2, <2>3, <2>4, <2>5, <2>6 DEF volume
<1>14. CASE /\ Arg > 0 /\ O.pos # 0 /\ AtCluster(O.pos) /\ InFat(O.cur)
            /\ Loads(FatBlock(O.cur), FALSE) /\ Cuts({})
            /\ Sets([O EXCEPT !.cur = Entry(O.cur)]) /\ Then(<<Task("copy", Arg)>>)
            /\ UNCHANGED <<view, got>>
  <2>1. PICK e : e = Entry(O.cur)
    OBVIOUS
  <2>2. e \in Nat
    BY <1>3, <1>14, <2>1, EntryIs
  <2>3. PICK u : u = [O EXCEPT !.cur = e]
    OBVIOUS
  <2>4. u \in Object /\ SameBut(u, O) /\ u.pos = O.pos /\ u.cur = e
    BY <1>3, <2>2, <2>3, CurMoved
  <2>5. obj'[w] = u /\ \A f \in File : f # w => obj'[f] = obj[f]
    BY <1>2, <1>3, <1>14, <2>1, <2>3, SetsIs
  <2>6. O.first # 0 /\ P[w].n # 0 /\ Links(view.fat, O.first, P[w])
    <3>1. O.first # 0
      BY <1>11, <1>14
    <3> QED
      BY <1>4, <1>5, <3>1, HeadNear
  <2>7. O.cur \in Cluster => e = view.fat[O.cur]
    BY <2>1, ClustersAre DEF Entry
  <2>8. Near(P[w], e)
    <3>1. CASE O.cur = 0
      BY <2>1, <3>1 DEF Entry, Near
    <3>2. CASE O.cur \in Cluster
      BY <1>4, <1>11, <2>6, <2>7, <3>2, NearOn
    <3> QED
      BY <1>14, <3>1, <3>2 DEF InFat
  <2>9. Tracks(u, w, adrift, At(P[w], Index(O.pos)), n)
    <3>1. CASE O.cur = AtPos(P[w], O.pos)
      <4> DEFINE i == Index(O.pos - 1)
      <4>1. i \in Nat /\ Index(O.pos) = i + 1 /\ O.cur = At(P[w], i)
        BY <1>3, <1>14, <3>1, PlaceBefore
      <4> HIDE DEF i
      <4>2. O.cur # 0
        BY <1>4, <2>6, <4>1, AtIs
      <4>3. O.cur \in Cluster
        BY <1>14, <4>2 DEF InFat
      <4>4. e = At(P[w], i + 1)
        BY <1>4, <2>6, <2>7, <4>1, <4>3, AtIs
      <4> QED
        BY <2>4, <4>1, <4>4 DEF Tracks
    <3>2. CASE w \in adrift /\ Fits(O, n)
      BY <2>4, <3>2 DEF Tracks, Fits, SameBut
    <3> QED
      BY <1>7, <3>1, <3>2 DEF Tracks
  <2>10. u.first = 0 => u.pos = 0 /\ u.cur = 0
    BY <2>4, <2>6 DEF SameBut
  <2>11. card' = card \/ card' = view
    BY <1>14, LoadsCard
  <2> QED
    BY <1>7, <1>10, <1>14, <2>4, <2>5, <2>8, <2>9, <2>10, <2>11
<1> QED
  BY <1>9, <1>12, <1>13, <1>14 DEF DoRead

\* byte q of the piece, in the view or past the cache
LEMMA CopiedByte ==
  ASSUME Coherent(view, card, cache), O.cur \in Cluster, O.pos \in Nat, Arg \in Nat, NEW q \in Bytes
  PROVE  (IF PastCache THEN card ELSE view).data[O.cur][InCluster(q)] = view.data[O.cur][InCluster(q)]
<1>1. InCluster(q) \in 0 .. ClusterSize - 1 /\ InCluster(q) \div BlockSize = BlockOfCluster(O.pos)
  BY BytesAre
<1>2. PastCache => cache.block # DataBlock(O.cur, InCluster(q) \div BlockSize)
  BY <1>1 DEF PastCache, Hit, Here
<1>3. OnlyIn(view, card, cache.block)
  BY DEF Coherent
<1>4. PastCache => card.data[O.cur][InCluster(q)] = view.data[O.cur][InCluster(q)]
  BY <1>1, <1>2, <1>3 DEF OnlyIn
<1> HIDE DEF PastCache
<1> QED
  BY <1>4

\* after a piece of a transfer the object is where the chain has its position
LEMMA PieceTracks ==
  ASSUME O.pos \in Nat, O.size \in Nat, Arg \in Nat \ {0}, NEW f, NEW ad, NEW ad2, f \in ad => f \in ad2,
         NEW x, Tracks(O, f, ad, At(x, Index(O.pos)), Arg),
         NEW u, u.cur = O.cur, u.size = O.size, u.pos = O.pos + Piece, NEW m, m = Arg - Piece
  PROVE  Tracks(u, f, ad2, AtPos(x, u.pos), m)
<1> DEFINE p == O.pos
           k == Piece
           s == O.size
           n == Arg
<1>1. /\ p \in Nat /\ k \in Nat \ {0} /\ s \in Nat /\ n \in Nat /\ k <= n /\ m = n - k /\ u.pos = p + k
      /\ p + k - 1 \in Nat /\ Index(p + k - 1) = Index(p)
  BY PieceSome
<1>2. Tracks(O, f, ad, At(x, Index(p)), n) /\ u.cur = O.cur /\ u.size = s
  OBVIOUS
<1>3. Fits(O, n) <=> p + n <= Full /\ s + n <= Full
  BY DEF Fits
<1> HIDE DEF p, k, s, n
<1>4. CASE O.cur = At(x, Index(p))
  <2>1. u.pos # 0 /\ u.pos - 1 = p + k - 1
    BY <1>1
  <2>2. AtPos(x, u.pos) = At(x, Index(p))
    BY <1>1, <2>1 DEF AtPos
  <2> QED
    BY <1>2, <1>4, <2>2 DEF Tracks
<1>5. CASE f \in ad /\ Fits(O, n)
  <2>1. u.pos + m = p + n /\ s + m <= s + n
    BY <1>1
  <2>2. Full \in Nat /\ p + n <= Full /\ s + n <= Full
    BY <1>3, <1>5, FullIs
  <2>3. s + m \in Nat /\ s + n \in Nat
    BY <1>1
  <2>4. Fits(u, m)
    BY <1>2, <2>1, <2>2, <2>3 DEF Fits
  <2> QED
    BY <1>5, <2>4 DEF Tracks
<1> QED
  BY <1>2, <1>4, <1>5 DEF Tracks

LEMMA CopySound ==
  ASSUME ChainInv, IInv', DoCopy
  PROVE  \E P \in Trails, Q \in Trails : Sound(P, Q)'
<1> DEFINE from == IF PastCache THEN card ELSE view
<1>1. /\ Doing("copy") /\ O.cur \in Cluster /\ (card' = card \/ card' = view)
      /\ got' = got \cup {<<p, from.data[O.cur][InCluster(p)]>> : p \in Bytes}
      /\ Sets([O EXCEPT !.pos = O.pos + Piece]) /\ Cuts({}) /\ Then(<<Task("read", Arg - Piece)>>)
      /\ adrift' = (IF O.pos + Piece > O.size THEN adrift \cup {who} ELSE adrift)
      /\ UNCHANGED <<view, spoiled>>
  BY LoadsCard DEF DoCopy
<1> HIDE DEF from
<1>2. PICK w \in File : w = who
  BY <1>1, AtPhase
<1>3. /\ O \in Object /\ O = obj[w] /\ IsVolume(view) /\ Coherent(view, card, cache) /\ IInv /\ O.cur \in Nat
      /\ O.first \in Nat /\ O.size \in Nat /\ O.pos \in Nat
  <2>1. O \in Object /\ O = obj[w] /\ IsVolume(view) /\ Coherent(view, card, cache) /\ IInv
    BY <1>1, <1>2, AtPhase DEF ChainInv, IInv, Coherent
  <2> QED
    BY <2>1 DEF Object
<1>4. PICK P \in Trails, Q \in Trails : Ground(w, P, Q) /\ Reading(P[w]) /\ P[w] \in Trail
  BY <1>1, <1>2, AtPhase
<1>5. O.open /\ Base(view, O, cut, spoiled, w, P[w], O.size)
  BY <1>2, <1>4 DEF Reading, Intact
<1>6. PICK n \in Nat :
         \/ todo = <<Task("read", n)>> /\ Tracks(O, w, adrift, AtPos(P[w], O.pos), n)
         \/ n > 0 /\ todo = <<Task("copy", n)>> /\ Tracks(O, w, adrift, At(P[w], Index(O.pos)), n)
  BY <1>2, <1>4 DEF Reading
<1>7. Arg = n /\ n > 0 /\ Tracks(O, w, adrift, At(P[w], Index(O.pos)), n)
  BY <1>1, <1>6 DEF Doing, Task, Arg
<1>8. \A r \in got : w \notin adrift /\ w \notin spoiled /\ r[1] < O.size => r[2] = <<w, r[1]>>
  BY <1>2, <1>4 DEF Reading
<1>9. /\ Piece \in Nat \ {0} /\ Piece <= n /\ O.pos + Piece \in Nat \ {0} /\ n - Piece \in Nat
      /\ O.pos + Piece - 1 \in Nat /\ Index(O.pos + Piece - 1) = Index(O.pos)
  BY <1>3, <1>7, PieceSome
<1>10. PICK a, m : a = O.pos + Piece /\ m = n - Piece
  OBVIOUS
<1>11. PICK u : u = [O EXCEPT !.pos = a]
  OBVIOUS
<1>12. u \in Object /\ SameBut(u, O) /\ u.pos = a /\ u.cur = O.cur
  <2>1. a \in Nat
    BY <1>9, <1>10
  <2> QED
    BY <1>3, <1>11, <2>1, PosSet, MovedIs
<1>13. obj'[w] = u /\ \A f \in File : f # w => obj'[f] = obj[f]
  BY <1>1, <1>2, <1>3, <1>10, <1>11, SetsIs
<1>14. Near(P[w], O.cur) /\ O.first # 0
  BY <1>1, <1>5, ClustersAre DEF Base, Entered
<1>15. adrift' \cup {w} = adrift \cup {w} /\ (w \in adrift => w \in adrift') /\ (w \notin adrift' => a <= O.size)
  <2>1. a \in Nat
    BY <1>9, <1>10
  <2> QED
    BY <1>1, <1>2, <1>3, <1>10, <2>1
<1>16. /\ \E S \in Trails : Mixed(S, Q, P) /\ Ground(w, P, S)'
       /\ Base(view', u, cut', spoiled', w, P[w], u.size) /\ u.open
  <2>1. u.first = 0 => u.pos = 0 /\ u.cur = 0
    BY <1>12, <1>14 DEF SameBut
  <2> QED
    BY <1>1, <1>3, <1>4, <1>5, <1>12, <1>13, <1>14, <1>15, <2>1, MovesOn
<1>17. PICK S \in Trails : Mixed(S, Q, P) /\ Ground(w, P, S)'
  BY <1>16
<1>18. who' = w /\ todo' = <<Task("read", m)>> /\ O' = u
  BY <1>1, <1>2, <1>7, <1>10, <1>13 DEF Then, O
<1>19. Reach(view', u, adrift', spoiled', w, P[w])
  <2>1. ASSUME w \notin adrift', w \notin spoiled' PROVE Holds(view', w, P[w], a)
    <3>1. Holds(view', w, P[w], O.size)
      BY <1>12, <1>16, <2>1 DEF Base, SameBut
    <3>2. a <= O.size /\ a \in Nat /\ O.size \in Nat
      BY <1>3, <1>9, <1>10, <1>15, <2>1
    <3> QED
      BY <3>1, <3>2, HoldsKept, <1>4
  <2> QED
    BY <1>12, <2>1 DEF Reach
<1>20. Tracks(u, w, adrift', AtPos(P[w], u.pos), m)
  BY <1>3, <1>7, <1>10, <1>12, <1>15, PieceTracks DEF SameBut
<1>21. ASSUME NEW r \in got', w \notin adrift', w \notin spoiled', r[1] < u.size PROVE r[2] = <<w, r[1]>>
  <2>1. CASE r \in got
    BY <1>1, <1>8, <1>12, <1>15, <1>21, <2>1 DEF SameBut
  <2>2. CASE r \in {<<p, from.data[O.cur][InCluster(p)]>> : p \in Bytes}
    <3>1. PICK q \in Bytes : r = <<q, from.data[O.cur][InCluster(q)]>>
      BY <2>2
    <3>2. r[1] = q /\ r[2] = view.data[O.cur][InCluster(q)]
      <4>1. from.data[O.cur][InCluster(q)] = view.data[O.cur][InCluster(q)]
        BY <1>1, <1>3, <1>6, <1>7, CopiedByte DEF from
      <4> QED
        BY <3>1, <4>1
    <3>3. q \in Nat /\ Index(q) = Index(O.pos) /\ q < O.size
      BY <1>3, <1>7, <1>12, <1>21, <3>2, BytesPlaced DEF SameBut
    <3>4. Holds(view, w, P[w], O.size) /\ O.cur = At(P[w], Index(O.pos))
      BY <1>1, <1>5, <1>7, <1>15, <1>21 DEF Base, Tracks
    <3>5. Index(q) < P[w].n /\ view.data[P[w].at[Index(q)]][InCluster(q)] = <<w, q>>
      BY <3>3, <3>4 DEF Holds
    <3>6. O.cur = P[w].at[Index(q)]
      <4>1. O.cur = At(P[w], Index(q)) /\ Index(q) \in Nat /\ P[w].n \in Nat
        BY <1>4, <3>3, <3>4, PlaceIs DEF Trail
      <4>2. P[w].n # 0
        BY <3>5, <4>1
      <4> QED
        BY <3>5, <4>1, <4>2 DEF At
    <3> QED
      BY <3>2, <3>5, <3>6
  <2> QED
    BY <1>1, <2>1, <2>2
<1>22. Reading(P[w])'
  <2>1. Intact(P[w], O.size)' /\ Reach(view, O, adrift, spoiled, who, P[w])'
    BY <1>16, <1>18, <1>19 DEF Intact
  <2>2. Tracks(O, who, adrift, AtPos(P[w], O.pos), m)' /\ m \in Nat
    BY <1>9, <1>10, <1>18, <1>20
  <2> QED
    BY <1>18, <1>21, <2>1, <2>2 DEF Reading
<1>23. Phase(P, S)'
  BY <1>18, <1>22 DEF Phase
<1> QED
  BY <1>17, <1>18, <1>23, GoesSound

-----------------------------------------------------------------------------
(***************************************************************************)
(* Writing: the loop, and a cluster more                                   *)
(***************************************************************************)
\* the object after a write
LEMMA GrownAre ==
  ASSUME NEW o \in Object, NEW u, u = Grown(o)
  PROVE  /\ u \in Object /\ u.open = o.open /\ u.mode = o.mode /\ u.first = o.first /\ u.cur = o.cur /\ u.pos = o.pos
         /\ u.size = IF o.size >= o.pos THEN o.size ELSE o.pos
         /\ ~u.dirDirty => ~o.dirDirty /\ o.pos <= o.size
<1>1. u \in Object
  BY GrownIs
<1>2. o.size \in Nat /\ o.pos \in Nat
  BY DEF Object
<1>3. Max({o.size, o.pos}) = IF o.size >= o.pos THEN o.size ELSE o.pos
  BY <1>2, MostIs
<1>4. u.open = o.open /\ u.mode = o.mode /\ u.first = o.first /\ u.cur = o.cur /\ u.pos = o.pos
  BY DEF Object, Grown
<1>5. u.size = Max({o.size, o.pos})
  BY DEF Object, Grown
<1>6. u.dirDirty = (o.dirDirty \/ o.pos > o.size \/ DateTime)
  BY DEF Object, Grown
<1>7. ~u.dirDirty => ~o.dirDirty /\ ~(o.pos > o.size)
  BY <1>6, Zenon
<1> QED
  BY <1>1, <1>2, <1>3, <1>4, <1>5, <1>7

\* u is the object o with cluster c
Given(u, o, c) ==
  /\ u \in Object /\ u.open = o.open /\ u.mode = o.mode /\ u.cur = c /\ u.pos = o.pos /\ u.size = o.size
  /\ u.first = IF o.first = 0 THEN c ELSE o.first
  /\ o.first = 0 => u.dirDirty
  /\ o.first # 0 => u.dirDirty = o.dirDirty

LEMMA AddedAre ==
  ASSUME NEW o \in Object, NEW c \in Nat, NEW u, u = Added(o, c)
  PROVE  Given(u, o, c)
<1>1. u \in Object
  BY AddedIs
<1>2. /\ u.open = o.open /\ u.mode = o.mode /\ u.cur = c /\ u.pos = o.pos /\ u.size = o.size
      /\ u.first = IF o.first = 0 THEN c ELSE o.first
  BY DEF Object, Added
<1>3. u.dirDirty = (o.dirDirty \/ o.first = 0)
  BY DEF Object, Added
<1>4. o.dirDirty \in BOOLEAN /\ u.dirDirty \in BOOLEAN
  BY <1>1 DEF Object
<1>5. o.first = 0 => u.dirDirty
  BY <1>3, Zenon
<1>6. o.first # 0 => u.dirDirty = o.dirDirty
  BY <1>3, <1>4
<1> QED
  BY <1>1, <1>2, <1>5, <1>6, Zenon DEF Given

\* the end of a write
LEMMA GrownFine ==
  ASSUME NEW v, IsVolume(v), NEW ct, NEW sp, NEW ad, NEW f \in File, NEW x \in Trail,
         NEW o \in Object, o.open, Base(v, o, ct, sp, f, x, o.size), Reach(v, o, ad, sp, f, x),
         f \notin ad => o.cur = AtPos(x, o.pos), f \in ad => f \in sp,
         NEW u, u = Grown(o)
  PROVE  Fine(v, u, ct, sp, ad, f, x) /\ o.size <= u.size /\ u.open /\ u.size \in Nat
<1>1. /\ u \in Object /\ u.open = o.open /\ u.first = o.first /\ u.cur = o.cur /\ u.pos = o.pos
      /\ u.size = IF o.size >= o.pos THEN o.size ELSE o.pos
      /\ ~u.dirDirty => ~o.dirDirty /\ o.pos <= o.size
      /\ o.size \in Nat /\ o.pos \in Nat
  BY GrownAre DEF Object
<1>2. o.size <= u.size /\ u.open /\ u.size \in Nat
  BY <1>1
<1>3. Links(v.fat, HeadOf(v, u, f), x) /\ Near(x, u.cur)
  BY <1>1 DEF Base, HeadOf
<1>4. Entered(v.entry[f], u, ct, f)
  <2>1. v.entry[f].size \in Nat
    BY FileHere
  <2>2. Entered(v.entry[f], o, ct, f)
    BY DEF Base
  <2>3. v.entry[f].used
    BY <2>2 DEF Entered
  <2>4. u.first = 0 => u.size = 0 /\ u.pos = 0 /\ u.cur = 0
    BY <1>1, <2>2 DEF Entered
  <2>5. ASSUME f \notin ct \/ ~u.dirDirty
        PROVE  /\ v.entry[f].first \in {0, u.first} /\ v.entry[f].size <= u.size
               /\ v.entry[f].first = 0 => v.entry[f].size = 0
    <3>1. f \notin ct \/ ~o.dirDirty
      BY <1>1, <2>5, Zenon
    <3> QED
      BY <1>1, <1>2, <2>1, <2>2, <3>1 DEF Entered
  <2>6. ASSUME ~u.dirDirty
        PROVE  v.entry[f].first = u.first /\ v.entry[f].size = u.size
    BY <1>1, <2>2, <2>6 DEF Entered
  <2> QED
    BY <2>3, <2>4, <2>5, <2>6 DEF Entered
<1>5. ASSUME f \notin sp PROVE Holds(v, f, x, u.size)
  <2>1. Holds(v, f, x, o.size) /\ Holds(v, f, x, o.pos)
    BY <1>5 DEF Base, Reach
  <2> QED
    BY <1>1, <2>1
<1>6. Base(v, u, ct, sp, f, x, u.size)
  BY <1>2, <1>3, <1>4, <1>5 DEF Base
<1>7. Placed(u, ad, f, x) /\ Reach(v, u, ad, sp, f, x)
  BY <1>1 DEF Placed, Reach
<1> QED
  BY <1>2, <1>6, <1>7 DEF Fine

LEMMA SyncEasy ==
  ASSUME NEW l \in Nat
  PROVE  Sync \in Seq(Easy(l))
<1>1. Task("sync", 0) \in Easy(l) /\ Task("flush", 0) \in Easy(l)
  BY EasyIs
<1> QED
  BY <1>1 DEF Sync

LEMMA PutSound ==
  ASSUME ChainInv, IInv', DoPut
  PROVE  \E P \in Trails, Q \in Trails : Sound(P, Q)'
<1>1. Doing("put") /\ UNCHANGED <<view, got, adrift, spoiled>>
  BY DEF DoPut, volume
<1>2. PICK w \in File : w = who
  BY <1>1, AtPhase
<1>3. /\ O \in Object /\ O = obj[w] /\ IsVolume(view) /\ Coherent(view, card, cache) /\ IInv /\ O.cur \in Nat
      /\ O.first \in Nat /\ O.size \in Nat /\ O.pos \in Nat
  <2>1. O \in Object /\ O = obj[w] /\ IsVolume(view) /\ Coherent(view, card, cache) /\ IInv
    BY <1>1, <1>2, AtPhase DEF ChainInv, IInv, Coherent
  <2> QED
    BY <2>1 DEF Object
<1>4. PICK P \in Trails, Q \in Trails : Ground(w, P, Q) /\ Writing(P[w], P, Q) /\ P[w] \in Trail
  BY <1>1, <1>2, AtPhase
<1>5. /\ O.open /\ Base(view, O, cut, spoiled, w, P[w], O.size) /\ Reach(view, O, adrift, spoiled, w, P[w])
      /\ got = {}
  BY <1>2, <1>4 DEF Writing, Intact
<1>6. PICK n \in Nat : /\ Arg = n /\ Tracks(O, w, adrift, AtPos(P[w], O.pos), n)
                       /\ n = 0 /\ w \in adrift => w \in spoiled
  <2>1. PICK n \in Nat :
         \/ /\ todo = <<Task("put", n)>> /\ Tracks(O, who, adrift, AtPos(P[w], O.pos), n)
            /\ n = 0 /\ who \in adrift => who \in spoiled
         \/ n > 0 /\ todo = <<Task("fill", n)>>
         \/ todo = <<Task("take", 0), Task("fill", n)>>
         \/ \E c \in Cluster : todo = <<Task("tie", c), Task("fill", n)>>
    BY <1>4 DEF Writing
  <2> QED
    BY <1>1, <1>2, <2>1 DEF Doing, Task, Arg
<1>7. CASE Arg = 0
  <2>1. PICK u : u = Grown(O)
    OBVIOUS
  <2>2. PICK s : /\ s = (IF "sync" \in O.mode THEN Sync ELSE <<>>)
                /\ Sets(u) /\ Then(s) /\ UNCHANGED <<volume, cut>>
    BY <1>7, <2>1 DEF DoPut
  <2>3. obj'[w] = u /\ \A f \in File : f # w => obj'[f] = obj[f]
    BY <1>2, <1>3, <2>2, SetsIs
  <2>4. O.cur = AtPos(P[w], O.pos) \/ w \in adrift
    BY <1>6 DEF Tracks
  <2>5. w \in adrift => w \in spoiled
    BY <1>6, <1>7
  <2>6. Fine(view, u, cut, spoiled, adrift, w, P[w]) /\ O.size <= u.size /\ u.open /\ u.size \in Nat
    BY <1>3, <1>4, <1>5, <2>1, <2>4, <2>5, GrownFine, ZenonT(60)
  <2>7. PICK S \in Trails : Ground(w, P, S)'
    <3>1. SizeOf(view, obj[w], w) <= SizeOf(view, obj'[w], w)
      BY <1>3, <1>5, <2>3, <2>6 DEF SizeOf
    <3> QED
      BY <1>1, <1>3, <1>4, <2>2, <2>3, <3>1, GroundStays DEF volume
  <2>8. s \in Seq(Easy(u.size))
    BY <2>2, <2>6, SyncEasy, NoneOf
  <2>9. SizeOf(view', obj'[w], w) = u.size
    BY <2>3, <2>6 DEF SizeOf
  <2>10. Fine(view', obj'[w], cut', spoiled', adrift', w, P[w])
    BY <1>1, <2>2, <2>3, <2>6
  <2> QED
    BY <1>1, <1>2, <1>5, <2>2, <2>3, <2>7, <2>8, <2>9, <2>10, EasyGoes
<1>8. ASSUME n > 0, NEW u \in Object, obj'[w] = u, SameBut(u, O), u.pos = O.pos,
             \A f \in File : f # w => obj'[f] = obj[f],
             Near(P[w], u.cur), u.first = 0 => u.pos = 0 /\ u.cur = 0,
             (Cuts({}) /\ (card' = card \/ card' = view)) \/ (card' = card /\ cut' = cut),
             \/ Tracks(u, w, adrift, At(P[w], Index(O.pos)), n) /\ Then(<<Task("fill", n)>>)
             \/ /\ Tracks(u, w, adrift, AtPos(P[w], O.pos), n) /\ AtCluster(O.pos) /\ u.cur = AtEnd(P[w])
                /\ Then(<<Task("take", 0), Task("fill", n)>>)
      PROVE  \E P2 \in Trails, Q2 \in Trails : Sound(P2, Q2)'
  <2>1. /\ \E S \in Trails : Mixed(S, Q, P) /\ Ground(w, P, S)'
        /\ Base(view', u, cut', spoiled', w, P[w], u.size) /\ u.open
    BY <1>1, <1>3, <1>4, <1>5, <1>8, MovesOn
  <2>2. PICK S \in Trails : Mixed(S, Q, P) /\ Ground(w, P, S)'
    BY <2>1
  <2>3. who' = w /\ O' = u
    BY <1>2, <1>8 DEF Then, O
  <2>4. Intact(P[w], O.size)' /\ Reach(view, O, adrift, spoiled, who, P[w])'
    BY <1>1, <1>5, <1>8, <2>1, <2>3 DEF Intact, Reach, SameBut
  <2>5. got' = {}
    BY <1>1, <1>5
  <2>6. Writing(P[w], P, S)'
    <3>1. CASE Tracks(u, w, adrift, At(P[w], Index(O.pos)), n) /\ Then(<<Task("fill", n)>>)
      <4>1. Tracks(O, who, adrift, At(P[w], Index(O.pos)), n)' /\ todo' = <<Task("fill", n)>>
        BY <1>1, <1>8, <2>3, <3>1 DEF Then
      <4> QED
        BY <1>8, <2>4, <2>5, <4>1 DEF Writing
    <3>2. CASE /\ Tracks(u, w, adrift, AtPos(P[w], O.pos), n) /\ AtCluster(O.pos) /\ u.cur = AtEnd(P[w])
               /\ Then(<<Task("take", 0), Task("fill", n)>>)
      <4>1. /\ Tracks(O, who, adrift, AtPos(P[w], O.pos), n)' /\ AtCluster(O.pos)' /\ (O.cur = AtEnd(P[w]))'
            /\ todo' = <<Task("take", 0), Task("fill", n)>>
        BY <1>1, <1>8, <2>3, <3>2 DEF Then
      <4> QED
        BY <1>8, <2>4, <2>5, <4>1 DEF Writing
    <3> QED
      BY <1>8, <3>1, <3>2
  <2>7. Phase(P, S)'
    BY <2>3, <2>6 DEF Phase
  <2> QED
    BY <2>2, <2>3, <2>7, GoesSound
<1>9. Near(P[w], O.cur) /\ (O.first = 0 => O.pos = 0 /\ O.cur = 0)
  BY <1>5 DEF Base, Entered
<1>10. SameBut(O, O)
  BY DEF SameBut
<1>11. CASE Arg > 0 /\ ~AtCluster(O.pos) /\ Then(<<Task("fill", Arg)>>) /\ UNCHANGED <<volume, obj, cut>>
  <2>1. Tracks(O, w, adrift, At(P[w], Index(O.pos)), n)
    BY <1>3, <1>6, <1>11, PlaceBefore
  <2>2. obj'[w] = O /\ \A f \in File : f # w => obj'[f] = obj[f]
    BY <1>3, <1>11
  <2> QED
    BY <1>3, <1>6, <1>8, <1>9, <1>10, <1>11, <2>1, <2>2 DEF volume
<1>12. CASE /\ Arg > 0 /\ AtCluster(O.pos) /\ O.cur = 0 /\ O.first = 0
            /\ Then(<<Task("take", 0), Task("fill", Arg)>>) /\ UNCHANGED <<volume, obj, cut>>
  <2>1. obj'[w] = O /\ \A f \in File : f # w => obj'[f] = obj[f]
    BY <1>3, <1>12
  <2>2. O.cur = AtEnd(P[w])
    <3>1. P[w].n = 0
      BY <1>4, <1>5, <1>12, HeadNear
    <3> QED
      BY <1>12, <3>1 DEF AtEnd
  <2> QED
    BY <1>3, <1>6, <1>8, <1>9, <1>10, <1>12, <2>1, <2>2 DEF volume
<1>13. CASE /\ Arg > 0 /\ AtCluster(O.pos) /\ O.cur = 0 /\ O.first # 0
            /\ Then(<<Task("fill", Arg)>>) /\ Sets([O EXCEPT !.cur = O.first]) /\ UNCHANGED <<volume, cut>>
  <2>1. PICK u : u = [O EXCEPT !.cur = O.first]
    OBVIOUS
  <2>2. u \in Object /\ SameBut(u, O) /\ u.pos = O.pos /\ u.cur = O.first
    BY <1>3, <2>1, CurMoved
  <2>3. obj'[w] = u /\ \A f \in File : f # w => obj'[f] = obj[f]
    BY <1>2, <1>3, <1>13, <2>1, SetsIs
  <2>4. Near(P[w], u.cur) /\ At(P[w], 0) = u.cur /\ P[w].n # 0 /\ Links(view.fat, O.first, P[w])
    BY <1>4, <1>5, <1>13, <2>2, HeadNear
  <2>5. u.first = 0 => u.pos = 0 /\ u.cur = 0
    BY <1>13, <2>2 DEF SameBut
  <2>6. Tracks(u, w, adrift, At(P[w], Index(O.pos)), n)
    <3>1. CASE O.cur = AtPos(P[w], O.pos)
      <4>1. O.pos = 0
        <5>1. ASSUME O.pos # 0 PROVE FALSE
          <6>1. Index(O.pos - 1) \in Nat /\ AtPos(P[w], O.pos) = At(P[w], Index(O.pos - 1))
            BY <1>3, <1>13, <5>1, PlaceBefore
          <6> QED
            BY <1>4, <1>13, <2>4, <3>1, <6>1, AtIs
        <5> QED
          BY <5>1
      <4> QED
        BY <2>4, <4>1, IndexAtZero DEF Tracks
    <3>2. CASE w \in adrift /\ Fits(O, n)
      BY <2>2, <3>2 DEF Tracks, Fits, SameBut
    <3> QED
      BY <1>6, <3>1, <3>2 DEF Tracks
  <2> QED
    BY <1>6, <1>8, <1>13, <2>2, <2>3, <2>4, <2>5, <2>6 DEF volume
<1>14. ASSUME Arg > 0, AtCluster(O.pos), O.cur \in Cluster, Loads(FatBlock(O.cur), FALSE), Cuts({}),
              IF Entry(O.cur) = Eoc
              THEN Then(<<Task("take", 0), Task("fill", Arg)>>) /\ UNCHANGED obj
              ELSE Then(<<Task("fill", Arg)>>) /\ Sets([O EXCEPT !.cur = Entry(O.cur)])
       PROVE  \E P2 \in Trails, Q2 \in Trails : Sound(P2, Q2)'
  <2>1. PICK e : e = Entry(O.cur)
    OBVIOUS
  <2>2. e = view.fat[O.cur] /\ O.cur # 0 /\ O.first # 0 /\ O.cur # Eoc
    BY <1>9, <1>14, <2>1, ClustersAre DEF Entry
  <2>3. P[w].n # 0 /\ Links(view.fat, O.first, P[w])
    BY <1>4, <1>5, <2>2, HeadNear
  <2>4. PICK i \in Nat : /\ i < P[w].n /\ P[w].at[i] = O.cur
                         /\ e = IF i + 1 = P[w].n THEN Eoc ELSE P[w].at[i + 1]
    BY <1>4, <1>9, <1>14, <2>2, <2>3, NearOn
  <2>5. Near(P[w], e) /\ e \in Nat
    <3>1. Near(P[w], e) /\ e \in Cluster \cup {Eoc}
      BY <1>4, <1>9, <1>14, <2>2, <2>3, NearOn
    <3> QED
      BY <3>1, ClustersAre
  <2>6. card' = card \/ card' = view
    BY <1>14, LoadsCard
  <2>7. CASE e = Eoc
    <3>1. O.cur = AtEnd(P[w])
      <4>1. P[w].n \in Nat
        BY <1>4 DEF Trail
      <4>2. i + 1 = P[w].n
        <5>1. ASSUME i + 1 # P[w].n PROVE FALSE
          <6>1. i + 1 \in Nat /\ i + 1 < P[w].n
            BY <2>4, <4>1, <5>1
          <6>2. P[w].at[i + 1] \in Cluster
            BY <2>3, <6>1 DEF Links
          <6> QED
            BY <2>4, <2>7, <5>1, <6>2, ClustersAre
        <5> QED
          BY <5>1
      <4>3. P[w].n - 1 = i
        BY <4>1, <4>2
      <4> QED
        BY <2>3, <2>4, <4>3 DEF AtEnd
    <3>2. obj'[w] = O /\ \A f \in File : f # w => obj'[f] = obj[f]
      BY <1>3, <1>14, <2>1, <2>7
    <3>3. Then(<<Task("take", 0), Task("fill", n)>>)
      BY <1>6, <1>14, <2>1, <2>7
    <3> QED
      BY <1>3, <1>6, <1>8, <1>9, <1>10, <1>14, <2>6, <3>1, <3>2, <3>3
  <2>8. CASE e # Eoc
    <3>1. PICK u : u = [O EXCEPT !.cur = e]
      OBVIOUS
    <3>2. u \in Object /\ SameBut(u, O) /\ u.pos = O.pos /\ u.cur = e
      BY <1>3, <2>5, <3>1, CurMoved
    <3>3. obj'[w] = u /\ \A f \in File : f # w => obj'[f] = obj[f]
      BY <1>2, <1>3, <1>14, <2>1, <2>8, <3>1, SetsIs
    <3>4. u.first = 0 => u.pos = 0 /\ u.cur = 0
      BY <2>2, <3>2 DEF SameBut
    <3>5. Tracks(u, w, adrift, At(P[w], Index(O.pos)), n)
      <4>1. CASE O.cur = AtPos(P[w], O.pos)
        <5>1. O.pos # 0
          BY <2>2, <4>1 DEF AtPos
        <5> DEFINE j == Index(O.pos - 1)
        <5>2. j \in Nat /\ Index(O.pos) = j + 1 /\ O.cur = At(P[w], j)
          BY <1>3, <1>14, <4>1, <5>1, PlaceBefore
        <5> HIDE DEF j
        <5>3. e = At(P[w], j + 1)
          BY <1>4, <1>14, <2>2, <2>3, <5>2, AtIs
        <5> QED
          BY <3>2, <5>2, <5>3 DEF Tracks
      <4>2. CASE w \in adrift /\ Fits(O, n)
        BY <3>2, <4>2 DEF Tracks, Fits, SameBut
      <4> QED
        BY <1>6, <4>1, <4>2 DEF Tracks
    <3>6. Then(<<Task("fill", n)>>)
      BY <1>6, <1>14, <2>1, <2>8
    <3> QED
      BY <1>6, <1>8, <1>14, <2>5, <2>6, <3>2, <3>3, <3>4, <3>5, <3>6
  <2> QED
    BY <2>7, <2>8
<1> QED
  BY <1>6, <1>7, <1>11, <1>12, <1>13, <1>14 DEF DoPut

\* a chain with cluster c at its end
Longer(x, c) == [n |-> x.n + 1, at |-> [i \in Nat |-> IF i = x.n THEN c ELSE x.at[i]]]

LEMMA LongerIs ==
  ASSUME NEW x \in Trail, NEW c \in Cluster, NEW y, y = Longer(x, c)
  PROVE  /\ y \in Trail /\ y.n = x.n + 1 /\ x.n \in Nat /\ y.n # 0 /\ y.at[x.n] = c
         /\ \A i \in Nat : i < x.n => y.at[i] = x.at[i] /\ i < y.n
         /\ \A i \in Nat : i < y.n => i < x.n \/ i = x.n
<1>1. x.n \in Nat /\ x.at \in [Nat -> Nat] /\ c \in Nat
  BY ClustersAre DEF Trail
<1> DEFINE a == [i \in Nat |-> IF i = x.n THEN c ELSE x.at[i]]
<1>2. a \in [Nat -> Nat]
  BY <1>1
<1>3. y.n = x.n + 1 /\ y.at = a /\ y = [n |-> y.n, at |-> y.at]
  BY DEF Longer
<1>4. a[x.n] = c /\ \A i \in Nat : i < x.n => a[i] = x.at[i]
  BY <1>1
<1> HIDE DEF a
<1>5. y \in Trail
  BY <1>1, <1>2, <1>3 DEF Trail
<1>6. \A i \in Nat : i < x.n => i < y.n
  BY <1>1, <1>3
<1>7. \A i \in Nat : i < y.n => i < x.n \/ i = x.n
  BY <1>1, <1>3
<1> QED
  BY <1>1, <1>3, <1>4, <1>5, <1>6, <1>7

LEMMA LongerLinks ==
  ASSUME NEW fat, NEW fat2, NEW h, NEW x \in Trail, Links(fat, h, x), Simple(x),
         NEW c \in Cluster, Misses(x, c), NEW y, y = Longer(x, c), fat2[c] = Eoc,
         \A i \in Nat : i < x.n => fat2[x.at[i]] = IF i + 1 = x.n THEN c ELSE fat[x.at[i]]
  PROVE  Links(fat2, IF x.n = 0 THEN c ELSE h, y) /\ Simple(y)
<1>1. /\ y \in Trail /\ y.n = x.n + 1 /\ x.n \in Nat /\ y.n # 0 /\ y.at[x.n] = c
      /\ \A i \in Nat : i < x.n => y.at[i] = x.at[i] /\ i < y.n
      /\ \A i \in Nat : i < y.n => i < x.n \/ i = x.n
  BY LongerIs
<1>2. (IF x.n = 0 THEN c ELSE h) = y.at[0]
  <2>1. x.n # 0 => 0 < x.n /\ h = x.at[0]
    BY <1>1 DEF Links
  <2> QED
    BY <1>1, <2>1
<1>3. ASSUME NEW i \in Nat, i < y.n
      PROVE  y.at[i] \in Cluster /\ fat2[y.at[i]] = IF i + 1 = y.n THEN Eoc ELSE y.at[i + 1]
  <2>1. CASE i = x.n
    BY <1>1, <2>1
  <2>2. CASE i < x.n
    <3>1. y.at[i] = x.at[i] /\ x.at[i] \in Cluster /\ i + 1 # y.n
          /\ fat[x.at[i]] = (IF i + 1 = x.n THEN Eoc ELSE x.at[i + 1])
      BY <1>1, <2>2 DEF Links
    <3>2. CASE i + 1 = x.n
      BY <1>1, <2>2, <3>1, <3>2
    <3>3. CASE i + 1 # x.n
      <4>1. i + 1 \in Nat /\ i + 1 < x.n
        BY <1>1, <2>2, <3>3
      <4> QED
        BY <1>1, <2>2, <3>1, <3>3, <4>1
    <3> QED
      BY <3>2, <3>3
  <2> QED
    BY <1>1, <1>3, <2>1, <2>2
<1>4. Simple(y)
  <2> SUFFICES ASSUME NEW i \in Nat, NEW j \in Nat, i < y.n, j < y.n, y.at[i] = y.at[j]
               PROVE  i = j
    BY DEF Simple
  <2> QED
    BY <1>1 DEF Simple, Misses
<1> QED
  BY <1>1, <1>2, <1>3, <1>4 DEF Links

LEMMA LongerHolds ==
  ASSUME NEW v, NEW v2, NEW f, NEW x \in Trail, NEW c \in Cluster, NEW y, y = Longer(x, c), NEW l,
         Holds(v, f, x, l), v2.data = v.data
  PROVE  Holds(v2, f, y, l)
<1>1. \A i \in Nat : i < x.n => y.at[i] = x.at[i] /\ i < y.n
  BY LongerIs
<1>2. \A p \in Nat : Index(p) \in Nat
  BY PlaceIs
<1> QED
  BY <1>1, <1>2 DEF Holds

\* fatPut
LEMMA PutsAre ==
  ASSUME NEW c \in Cluster, NEW n, IsVolume(view), Puts(c, n)
  PROVE  /\ view'.data = view.data /\ view'.entry = view.entry /\ view'.fat[c] = n
         /\ \A d \in Cluster : d # c => view'.fat[d] = view.fat[d]
         /\ card' = card \/ card' = view
<1>1. view' = [view EXCEPT !.fat[c] = n] /\ (card' = card \/ card' = view)
  BY LoadsCard DEF Puts
<1>2. view = [fat |-> view.fat, entry |-> view.entry, data |-> view.data] /\ view.fat \in [Cluster -> Nat]
  BY DEF IsVolume
<1> QED
  BY <1>1, <1>2

\* a cluster that is free is nobody's
LEMMA FreeOutside ==
  ASSUME NEW w \in File, NEW P, NEW Q, Ground(w, P, Q), NEW h, Links(view.fat, h, P[w]), P[w] \in Trail,
         NEW c, view.fat[c] = Free
  PROVE  Outside(P, c) /\ Outside(Q, c)
<1>1. ASSUME NEW f \in File, NEW i \in Nat, i < P[f].n PROVE P[f].at[i] # c
  <2>1. PICK g : Links(view.fat, g, P[f])
    <3>1. CASE f = w
      BY <3>1
    <3>2. CASE f # w
      BY <3>2 DEF Ground, Fine, Base
    <3> QED
      BY <3>1, <3>2
  <2>2. P[f] \in Trail
    BY DEF Ground, Trails
  <2> QED
    BY <1>1, <2>1, <2>2, LinkedNotFree
<1>2. ASSUME NEW f \in File, NEW i \in Nat, i < Q[f].n PROVE Q[f].at[i] # c
  BY <1>2 DEF Ground, Backed
<1> QED
  BY <1>1, <1>2 DEF Outside, Misses

\* The file of the call has one more cluster.
LEMMA GrowSound ==
  ASSUME IInv, IInv', NEW w \in File, w = who, O \in Object, O = obj[w], NEW P \in Trails, NEW Q \in Trails,
         Ground(w, P, Q), P[w] \in Trail, Simple(P[w]),
         O.open, Base(view, O, cut, spoiled, w, P[w], O.size), Reach(view, O, adrift, spoiled, w, P[w]),
         got = {}, NEW n \in Nat, n > 0, AtCluster(O.pos), Tracks(O, w, adrift, AtPos(P[w], O.pos), n),
         O.cur = AtEnd(P[w]),
         NEW c \in Cluster, Outside(P, c), Outside(Q, c),
         NEW d \in Cluster, NEW m \in Nat \ {Free}, Puts(d, m),
         d = IF P[w].n = 0 THEN c ELSE AtEnd(P[w]),
         view'.fat[c] = Eoc, P[w].n # 0 => view'.fat[d] = c,
         Cuts({}), Sets(Added(O, c)), Then(<<Task("fill", n)>>),
         UNCHANGED <<got, adrift, spoiled>>
  PROVE  \E P2 \in Trails, Q2 \in Trails : Sound(P2, Q2)'
<1>1. PICK x \in Trail : x = P[w]
  OBVIOUS
<1>2. PICK y : y = Longer(x, c)
  OBVIOUS
<1>3. PICK u : u = Added(O, c)
  OBVIOUS
<1>4. c \in Nat /\ c # 0 /\ O.cur \in Nat /\ O.first \in Nat /\ O.size \in Nat /\ O.pos \in Nat /\ IsVolume(view)
  BY ClustersAre DEF Object, IInv, Coherent
<1>5. /\ u \in Object /\ u.open = O.open /\ u.mode = O.mode /\ u.cur = c /\ u.pos = O.pos /\ u.size = O.size
      /\ u.first = IF O.first = 0 THEN c ELSE O.first
      /\ O.first = 0 => u.dirDirty
      /\ O.first # 0 => u.dirDirty = O.dirDirty
  <2>1. Given(u, O, c)
    BY <1>3, <1>4, AddedAre
  <2> QED
    BY <2>1, Zenon DEF Given
<1>6. obj'[w] = u /\ \A f \in File : f # w => obj'[f] = obj[f]
  BY <1>3, SetsIs
<1>7. /\ view'.data = view.data /\ view'.entry = view.entry /\ view'.fat[d] = m
      /\ \A e \in Cluster : e # d => view'.fat[e] = view.fat[e]
      /\ card' = card \/ card' = view
  BY <1>4, PutsAre
<1>8. /\ y \in Trail /\ y.n = x.n + 1 /\ x.n \in Nat /\ y.n # 0 /\ y.at[x.n] = c
      /\ \A i \in Nat : i < x.n => y.at[i] = x.at[i] /\ i < y.n
      /\ \A i \in Nat : i < y.n => i < x.n \/ i = x.n
  BY <1>2, LongerIs
<1>9. Links(view.fat, O.first, x) /\ (O.first = 0 <=> x.n = 0)
  BY <1>1, HeadNear
<1>10. Misses(x, c)
  BY <1>1 DEF Outside
<1>11. Links(view'.fat, u.first, y) /\ Simple(y)
  <2>1. ASSUME NEW i \in Nat, i < x.n
        PROVE  view'.fat[x.at[i]] = IF i + 1 = x.n THEN c ELSE view.fat[x.at[i]]
    <3>1. x.n # 0 /\ d = x.at[x.n - 1] /\ x.at[i] \in Cluster
      BY <1>1, <1>8, <1>9, <2>1 DEF AtEnd, Links
    <3>2. CASE i + 1 = x.n
      <4>1. x.n - 1 = i
        BY <1>8, <3>2
      <4> QED
        BY <1>1, <3>1, <3>2, <4>1
    <3>3. CASE i + 1 # x.n
      <4>1. x.n - 1 \in Nat /\ x.n - 1 < x.n /\ i # x.n - 1
        BY <1>8, <3>1, <3>3
      <4>2. x.at[i] # d
        BY <1>1, <2>1, <3>1, <4>1 DEF Simple
      <4> QED
        BY <1>7, <3>1, <3>3, <4>2
    <3> QED
      BY <3>2, <3>3
  <2>2. u.first = IF x.n = 0 THEN c ELSE O.first
    BY <1>5, <1>9
  <2>3. PICK fat2, g : fat2 = view'.fat /\ g = (IF x.n = 0 THEN c ELSE O.first)
    OBVIOUS
  <2>4. /\ fat2[c] = Eoc
        /\ \A i \in Nat : i < x.n => fat2[x.at[i]] = IF i + 1 = x.n THEN c ELSE view.fat[x.at[i]]
    BY <2>1, <2>3
  <2>5. Links(fat2, g, y) /\ Simple(y)
    BY <1>1, <1>2, <1>9, <1>10, <2>3, <2>4, LongerLinks
  <2> QED
    BY <2>2, <2>3, <2>5
<1>12. PICK P2 \in Trails : P2[w] = y /\ \A f \in File : f # w => P2[f] = P[f]
  <2> DEFINE Z == [f \in File |-> IF f = w THEN y ELSE P[f]]
  <2>1. Z \in Trails
    BY <1>8 DEF Trails
  <2> QED
    BY <2>1
<1>13. \A i \in Nat : i < P2[w].n =>
         \/ i < P[w].n /\ P2[w].at[i] = P[w].at[i]
         \/ Outside(P, P2[w].at[i]) /\ Outside(Q, P2[w].at[i])
  BY <1>1, <1>8, <1>12
<1>14. \A f \in File : f # w => SameAlong(view, view', P[f])
  <2> SUFFICES ASSUME NEW f \in File, f # w, NEW i \in Nat, i < P[f].n
               PROVE  view'.fat[P[f].at[i]] = view.fat[P[f].at[i]] /\ view'.data[P[f].at[i]] = view.data[P[f].at[i]]
    BY DEF SameAlong
  <2>1. P[f].at[i] \in Cluster
    BY DEF Ground, Fine, Base, Links
  <2>2. P[f].at[i] # d
    <3>1. CASE x.n = 0
      BY <1>1, <3>1 DEF Outside, Misses
    <3>2. CASE x.n # 0
      <4>1. x.n - 1 \in Nat /\ x.n - 1 < x.n /\ d = x.at[x.n - 1]
        BY <1>1, <1>8, <3>2 DEF AtEnd
      <4>2. Apart(P, P)
        BY DEF Ground
      <4> QED
        BY <1>1, <4>1, <4>2 DEF Apart
    <3> QED
      BY <3>1, <3>2
  <2> QED
    BY <1>7, <2>1, <2>2
<1>15. Anchored(view, cache, obj[w], cut, spoiled, w, P[w])
  BY DEF Anchored
<1>16. SizeOf(view, obj[w], w) = SizeOf(view', obj'[w], w) /\ SizeOf(view, obj[w], w) \in Nat
  BY <1>4, <1>5, <1>6 DEF SizeOf
<1>17. \A e \in Cluster : ~(view.fat[e] # Free /\ view'.fat[e] = Free)
  BY <1>7
<1>18. PICK R \in Trails : Mixed(R, Q, P) /\ Ground(w, P2, R)'
  <2>1. \A f \in File : f # w =>
           /\ obj'[f] = obj[f] /\ view'.entry[f] = view.entry[f] /\ SameAlong(view, view', P[f])
           /\ (f \in adrift => f \in adrift') /\ (f \in spoiled <=> f \in spoiled')
    BY <1>6, <1>7, <1>14
  <2>2. SizeOf(view, obj[w], w) <= SizeOf(view', obj'[w], w)
    BY <1>16
  <2>3. Simple(P2[w])
    BY <1>11, <1>12
  <2>4. {} \in SUBSET {w}
    OBVIOUS
  <2> QED
    BY <1>7, <1>12, <1>13, <1>15, <1>17, <2>1, <2>2, <2>3, <2>4, GroundStep
<1>19. Base(view', u, cut', spoiled', w, y, u.size)
  <2>1. Links(view'.fat, HeadOf(view', u, w), y)
    BY <1>5, <1>11 DEF HeadOf
  <2>2. Near(y, u.cur)
    <3>1. x.n \in Nat /\ x.n < y.n
      BY <1>8
    <3> QED
      BY <1>5, <1>8, <3>1 DEF Near
  <2>3. ASSUME w \notin spoiled' PROVE Holds(view', w, y, u.size)
    <3>1. Holds(view, w, x, O.size)
      BY <1>1, <2>3 DEF Base
    <3> QED
      BY <1>2, <1>5, <1>7, <3>1, LongerHolds
  <2>4. Entered(view'.entry[w], u, cut', w)
    <3>1. Entered(view.entry[w], O, cut, w)
      BY DEF Base
    <3>2. u.first # 0
      BY <1>4, <1>5
    <3>3. \A f \in File : f \notin cut' => f \notin cut \/ ~obj[f].dirDirty
      BY <1>7, CutOf
    <3>4. CASE O.first = 0
      <4>1. u.dirDirty /\ view.entry[w].used /\ O.size = 0
        BY <1>5, <3>1, <3>4 DEF Entered
      <4>2. ASSUME w \notin cut' PROVE /\ view.entry[w].first \in {0, u.first} /\ view.entry[w].size <= u.size
                                       /\ view.entry[w].first = 0 => view.entry[w].size = 0
        <5>1. w \notin cut \/ ~O.dirDirty
          BY <3>3, <4>2
        <5>2. view.entry[w].first \in {0, O.first} /\ view.entry[w].size <= O.size
              /\ (view.entry[w].first = 0 => view.entry[w].size = 0)
          BY <3>1, <5>1, Zenon DEF Entered
        <5> QED
          BY <1>5, <3>4, <5>2
      <4> QED
        BY <1>7, <3>2, <4>1, <4>2 DEF Entered
    <3>5. CASE O.first # 0
      <4>1. u.dirDirty = O.dirDirty /\ u.first = O.first
        BY <1>5, <3>5
      <4>2. w \notin cut' \/ ~u.dirDirty => w \notin cut \/ ~O.dirDirty
        BY <3>3, <4>1, Zenon
      <4> QED
        BY <1>5, <1>7, <3>1, <3>2, <4>1, <4>2 DEF Entered
    <3> QED
      BY <3>4, <3>5
  <2> QED
    BY <1>5, <2>1, <2>2, <2>3, <2>4 DEF Base
<1>20. Reach(view', u, adrift', spoiled', w, y)
  <2>1. ASSUME w \notin adrift, w \notin spoiled PROVE Holds(view', w, y, u.pos)
    <3>1. Holds(view, w, x, O.pos)
      BY <1>1, <2>1 DEF Reach
    <3> QED
      BY <1>2, <1>5, <1>7, <3>1, LongerHolds
  <2> QED
    BY <2>1 DEF Reach
<1>21. Tracks(u, w, adrift', At(y, Index(O.pos)), n)
  <2>1. CASE O.cur = AtPos(x, O.pos)
    <3>1. Index(O.pos) = x.n
      <4>1. CASE x.n = 0
        <5>1. O.pos = 0
          <6>1. Entered(view.entry[w], O, cut, w)
            BY DEF Base
          <6> QED
            BY <1>9, <4>1, <6>1 DEF Entered
        <5> QED
          BY <4>1, <5>1, IndexAtZero
      <4>2. CASE x.n # 0
        <5> DEFINE j == x.n - 1
        <5>1. j \in Nat /\ j < x.n /\ j + 1 = x.n /\ O.cur = x.at[j]
          BY <1>1, <1>8, <4>2 DEF AtEnd
        <5> HIDE DEF j
        <5>2. O.cur # 0
          BY <1>9, <5>1, ClustersAre DEF Links
        <5>3. O.pos # 0
          BY <2>1, <5>2 DEF AtPos
        <5> DEFINE k == Index(O.pos - 1)
        <5>4. k \in Nat /\ Index(O.pos) = k + 1 /\ O.cur = At(x, k)
          BY <1>4, <2>1, <5>3, PlaceBefore
        <5> HIDE DEF k
        <5>5. k = j
          BY <1>1, <1>9, <5>1, <5>4, AtOnce
        <5> QED
          BY <5>1, <5>4, <5>5
      <4> QED
        BY <4>1, <4>2
    <3>2. At(y, x.n) = c
      BY <1>8 DEF At
    <3> QED
      BY <1>5, <3>1, <3>2 DEF Tracks
  <2>2. CASE w \in adrift /\ Fits(O, n)
    BY <1>5, <2>2 DEF Tracks, Fits
  <2> QED
    BY <1>1, <2>1, <2>2 DEF Tracks
<1>22. who' = w /\ todo' = <<Task("fill", n)>> /\ O' = u
  BY <1>6 DEF Then, O
<1>23. Writing(y, P2, R)'
  <2>1. Intact(y, O.size)' /\ Reach(view, O, adrift, spoiled, who, y)'
    BY <1>5, <1>19, <1>20, <1>22 DEF Intact
  <2>2. Tracks(O, who, adrift, At(y, Index(O.pos)), n)'
    BY <1>5, <1>21, <1>22
  <2> QED
    BY <1>22, <2>1, <2>2 DEF Writing
<1>24. Phase(P2, R)'
  <2>1. P2[who]' = y
    BY <1>12, <1>22
  <2> QED
    BY <1>23, <1>12, <1>22, <2>1 DEF Phase
<1> QED
  BY <1>18, <1>22, <1>24, GoesSound

LEMMA TwoTasks ==
  \A a \in Plain, b \in Plain : <<a>> \o <<b>> = <<a, b>>
<1> SUFFICES ASSUME NEW a \in Plain, NEW b \in Plain PROVE <<a>> \o <<b>> = <<a, b>>
  OBVIOUS
<1>1. <<a>> \in Seq(Plain) /\ <<b>> \in Seq(Plain) /\ <<a, b>> \in Seq(Plain)
  BY ListIs
<1>2. <<a>> \o <<b>> \in Seq(Plain)
  BY <1>1, JoinIs
<1>3. Len(<<a>> \o <<b>>) = 2 /\ Len(<<a, b>>) = 2
  BY <1>1, ConcatProperties
<1>4. \A i \in 1 .. 2 : (<<a>> \o <<b>>)[i] = <<a, b>>[i]
  <2>1. \A i \in 1 .. 2 : (<<a>> \o <<b>>)[i] = IF i <= 1 THEN <<a>>[i] ELSE <<b>>[i - 1]
    BY <1>1, ConcatProperties
  <2>2. (<<a>> \o <<b>>)[1] = a /\ (<<a>> \o <<b>>)[2] = b
    BY <2>1
  <2> QED
    BY <2>2
<1> QED
  BY <1>1, <1>2, <1>3, <1>4, SeqEqual

\* what is at hand when a cluster is to be added
LEMMA AddingIs ==
  ASSUME ChainInv, NEW d \in {"take", "tie"}, Doing(d)
  PROVE  /\ who \in File /\ O \in Object /\ O = obj[who] /\ IsVolume(view) /\ Coherent(view, card, cache) /\ IInv
         /\ O.cur \in Nat /\ O.first \in Nat /\ O.size \in Nat /\ O.pos \in Nat /\ got = {}
         /\ \E P \in Trails, Q \in Trails, n \in Nat :
              /\ Ground(who, P, Q) /\ P[who] \in Trail /\ Simple(P[who]) /\ n > 0
              /\ O.open /\ Base(view, O, cut, spoiled, who, P[who], O.size)
              /\ Reach(view, O, adrift, spoiled, who, P[who])
              /\ Links(view.fat, O.first, P[who]) /\ (O.first = 0 <=> P[who].n = 0)
              /\ AtCluster(O.pos) /\ Tracks(O, who, adrift, AtPos(P[who], O.pos), n) /\ O.cur = AtEnd(P[who])
              /\ P[who].n = 0 => O.cur = 0
              /\ P[who].n # 0 => O.cur \in Cluster /\ O.cur = P[who].at[P[who].n - 1]
              /\ Rest = <<Task("fill", n)>> /\ Task("fill", n) \in Plain
              /\ d = "tie" => /\ P[who].n > 0 /\ Arg \in Cluster /\ view.fat[Arg] = Eoc
                              /\ Outside(P, Arg) /\ Outside(Q, Arg)
<1>1. who \in File /\ O \in Object /\ O = obj[who] /\ IsVolume(view) /\ Coherent(view, card, cache) /\ IInv
  BY AtPhase DEF ChainInv, IInv, Coherent
<1>2. O.cur \in Nat /\ O.first \in Nat /\ O.size \in Nat /\ O.pos \in Nat
  BY <1>1 DEF Object
<1>3. PICK P \in Trails, Q \in Trails : Ground(who, P, Q) /\ Writing(P[who], P, Q) /\ P[who] \in Trail /\ Simple(P[who])
  BY AtPhase
<1>4. PICK x \in Trail : x = P[who]
  BY <1>3
<1>5. O.open /\ Base(view, O, cut, spoiled, who, x, O.size) /\ Reach(view, O, adrift, spoiled, who, x) /\ got = {}
  BY <1>3, <1>4 DEF Writing, Intact
<1>6. PICK n \in Nat :
         /\ n > 0 /\ AtCluster(O.pos) /\ Tracks(O, who, adrift, AtPos(x, O.pos), n) /\ O.cur = AtEnd(x)
         /\ \/ todo = <<Task("take", 0), Task("fill", n)>>
            \/ x.n > 0 /\ \E c \in Cluster :
                 /\ todo = <<Task("tie", c), Task("fill", n)>>
                 /\ view.fat[c] = Eoc /\ Outside(P, c) /\ Outside(Q, c)
  <2>1. PICK n \in Nat :
         \/ todo = <<Task("put", n)>>
         \/ todo = <<Task("fill", n)>>
         \/ /\ n > 0 /\ AtCluster(O.pos) /\ Tracks(O, who, adrift, AtPos(x, O.pos), n) /\ O.cur = AtEnd(x)
            /\ \/ todo = <<Task("take", 0), Task("fill", n)>>
               \/ x.n > 0 /\ \E c \in Cluster :
                    /\ todo = <<Task("tie", c), Task("fill", n)>>
                    /\ view.fat[c] = Eoc /\ Outside(P, c) /\ Outside(Q, c)
    BY <1>3, <1>4 DEF Writing
  <2>2. todo # <<Task("put", n)>> /\ todo # <<Task("fill", n)>>
    BY DEF Doing, Task
  <2> QED
    BY <2>1, <2>2
<1>7. Links(view.fat, O.first, x) /\ (O.first = 0 <=> x.n = 0)
  BY <1>5, HeadNear
<1>8. x.n \in Nat /\ (x.n = 0 => O.cur = 0) /\ (x.n # 0 => O.cur = x.at[x.n - 1] /\ O.cur \in Cluster)
  <2>1. x.n \in Nat /\ (x.n = 0 => O.cur = 0) /\ (x.n # 0 => O.cur = x.at[x.n - 1])
    BY <1>6 DEF AtEnd, Trail
  <2>2. x.n # 0 => x.n - 1 \in Nat /\ x.n - 1 < x.n
    BY <2>1
  <2> QED
    BY <1>7, <2>1, <2>2 DEF Links
<1>9. Rest = <<Task("fill", n)>> /\ Task("fill", n) \in Plain
  <2>1. Task("fill", n) \in Plain
    BY TaskIs
  <2>2. \A c : todo = <<c, Task("fill", n)>> => Rest = <<Task("fill", n)>>
    BY DEF Rest
  <2> QED
    BY <1>6, <2>1, <2>2
<1>10. d = "tie" => /\ x.n > 0 /\ Arg \in Cluster /\ view.fat[Arg] = Eoc /\ Outside(P, Arg) /\ Outside(Q, Arg)
  <2>1. ASSUME d = "tie" PROVE todo # <<Task("take", 0), Task("fill", n)>>
    BY <2>1 DEF Doing, Task
  <2>2. \A c : todo = <<Task("tie", c), Task("fill", n)>> => Arg = c
    BY DEF Arg, Task
  <2> QED
    BY <1>6, <2>1, <2>2
<1> QED
  BY <1>1, <1>2, <1>3, <1>4, <1>5, <1>6, <1>7, <1>8, <1>9, <1>10

LEMMA TieSound ==
  ASSUME ChainInv, IInv', DoTie
  PROVE  \E P \in Trails, Q \in Trails : Sound(P, Q)'
<1>1. Doing("tie") /\ Puts(O.cur, Arg) /\ Cuts({}) /\ Sets(Added(O, Arg)) /\ Then(Rest)
      /\ UNCHANGED <<got, adrift, spoiled>>
  BY DEF DoTie
<1>2. /\ who \in File /\ O \in Object /\ O = obj[who] /\ IsVolume(view) /\ IInv /\ got = {}
  BY <1>1, AddingIs
<1>3. PICK P \in Trails, Q \in Trails, n \in Nat :
              /\ Ground(who, P, Q) /\ P[who] \in Trail /\ Simple(P[who]) /\ n > 0
              /\ O.open /\ Base(view, O, cut, spoiled, who, P[who], O.size)
              /\ Reach(view, O, adrift, spoiled, who, P[who])
              /\ AtCluster(O.pos) /\ Tracks(O, who, adrift, AtPos(P[who], O.pos), n) /\ O.cur = AtEnd(P[who])
              /\ P[who].n # 0 => O.cur \in Cluster /\ O.cur = P[who].at[P[who].n - 1]
              /\ Rest = <<Task("fill", n)>>
              /\ P[who].n > 0 /\ Arg \in Cluster /\ view.fat[Arg] = Eoc /\ Outside(P, Arg) /\ Outside(Q, Arg)
  BY <1>1, AddingIs
<1>4. PICK w \in File, c \in Cluster : w = who /\ c = Arg
  BY <1>2, <1>3
<1>5. P[w].n # 0 /\ O.cur \in Cluster /\ P[w].n - 1 \in Nat /\ P[w].n - 1 < P[w].n /\ P[w].at[P[w].n - 1] = O.cur
  <2>1. P[w].n \in Nat
    BY <1>3, <1>4 DEF Trail
  <2> QED
    BY <1>3, <1>4, <2>1
<1>6. c # O.cur
  BY <1>3, <1>4, <1>5 DEF Outside, Misses
<1>7. view'.fat[c] = Eoc /\ view'.fat[O.cur] = c
  BY <1>1, <1>2, <1>3, <1>4, <1>5, <1>6, PutsAre
<1>8. PICK d \in Cluster : d = O.cur
  BY <1>5
<1>9. c \in Nat \ {Free}
  BY ClustersAre
<1>10. Puts(d, c) /\ d = AtEnd(P[w]) /\ view'.fat[d] = c
  BY <1>1, <1>3, <1>4, <1>7, <1>8
<1> QED
  BY <1>1, <1>2, <1>3, <1>4, <1>5, <1>7, <1>8, <1>9, <1>10, GrowSound

LEMMA TakeSound ==
  ASSUME ChainInv, IInv', DoTake
  PROVE  \E P \in Trails, Q \in Trails : Sound(P, Q)'
<1>1. Doing("take") /\ Cuts({}) /\ UNCHANGED <<adrift, spoiled>>
  BY DEF DoTake
<1>2. /\ who \in File /\ O \in Object /\ O = obj[who] /\ IsVolume(view) /\ Coherent(view, card, cache) /\ IInv
      /\ O.cur \in Nat /\ O.first \in Nat /\ O.size \in Nat /\ O.pos \in Nat /\ got = {}
  BY <1>1, AddingIs
<1>3. PICK P \in Trails, Q \in Trails, n \in Nat :
              /\ Ground(who, P, Q) /\ P[who] \in Trail /\ Simple(P[who]) /\ n > 0
              /\ O.open /\ Base(view, O, cut, spoiled, who, P[who], O.size)
              /\ Reach(view, O, adrift, spoiled, who, P[who])
              /\ Links(view.fat, O.first, P[who]) /\ (O.first = 0 <=> P[who].n = 0)
              /\ AtCluster(O.pos) /\ Tracks(O, who, adrift, AtPos(P[who], O.pos), n) /\ O.cur = AtEnd(P[who])
              /\ P[who].n = 0 => O.cur = 0
              /\ P[who].n # 0 => O.cur \in Cluster /\ O.cur = P[who].at[P[who].n - 1]
              /\ Rest = <<Task("fill", n)>> /\ Task("fill", n) \in Plain
  BY <1>1, AddingIs
<1>4. PICK w \in File : w = who
  BY <1>2
<1>5. Near(P[w], O.cur) /\ (O.first = 0 => O.pos = 0 /\ O.cur = 0)
  BY <1>3, <1>4 DEF Base, Entered
<1>6. SameBut(O, O)
  BY DEF SameBut
<1>7. ASSUME view' = view, obj' = obj, card' = card \/ card' = view
      PROVE  /\ \E S \in Trails : Mixed(S, Q, P) /\ Ground(w, P, S)'
             /\ Base(view', O, cut', spoiled', w, P[w], O.size)
  <2>1. obj'[w] = O /\ \A f \in File : f # w => obj'[f] = obj[f]
    BY <1>2, <1>4, <1>7
  <2> QED
    BY <1>1, <1>2, <1>3, <1>4, <1>5, <1>6, <1>7, <2>1, MovesOn
<1>8. ASSUME NEW c \in Cluster, Loads(FatBlock(c), FALSE), UNCHANGED <<view, obj, call, faults>>
      PROVE  \E P2 \in Trails, Q2 \in Trails : Sound(P2, Q2)'
  <2>1. UNCHANGED <<view, obj, got, who, todo>> /\ (card' = card \/ card' = view)
    BY <1>8, LoadsCard DEF call
  <2>2. PICK S \in Trails : Ground(w, P, S)'
    BY <1>7, <2>1
  <2>3. O' = O
    BY <2>1 DEF O
  <2>4. todo' = <<Task("take", 0), Task("fill", n)>>
    <3>1. PICK m \in Nat :
            \/ todo = <<Task("put", m)>>
            \/ todo = <<Task("fill", m)>>
            \/ todo = <<Task("take", 0), Task("fill", m)>>
            \/ \E c2 \in Cluster : todo = <<Task("tie", c2), Task("fill", m)>>
      <4>1. PICK P3, Q3 : Writing(P3[who], P3, Q3)
        BY <1>1, AtPhase
      <4> QED
        BY <4>1 DEF Writing
    <3>2. todo = <<Task("take", 0), Task("fill", m)>>
      BY <1>1, <3>1 DEF Doing, Task
    <3>3. Rest = <<Task("fill", m)>>
      BY <3>2 DEF Rest
    <3> QED
      BY <1>3, <2>1, <3>2, <3>3
  <2>5. Writing(P[w], P, S)'
    <3>1. Intact(P[w], O.size)' /\ Reach(view, O, adrift, spoiled, who, P[w])'
      BY <1>1, <1>3, <1>4, <1>7, <2>1, <2>3 DEF Intact
    <3>2. /\ Tracks(O, who, adrift, AtPos(P[w], O.pos), n)' /\ (O.cur = AtEnd(P[w]))' /\ AtCluster(O.pos)'
          /\ got' = {}
      BY <1>1, <1>2, <1>3, <1>4, <2>1, <2>3
    <3> QED
      BY <1>3, <2>4, <3>1, <3>2 DEF Writing
  <2>6. Phase(P, S)'
    BY <1>4, <2>1, <2>5 DEF Phase
  <2> QED
    BY <1>4, <2>1, <2>2, <2>6, GoesSound
<1>9. ASSUME NEW c \in Cluster, view.fat[c] = Free, Puts(c, Eoc), O.cur = 0, UNCHANGED got,
             Sets(Added(O, c)), Then(Rest)
      PROVE  \E P2 \in Trails, Q2 \in Trails : Sound(P2, Q2)'
  <2>1. Outside(P, c) /\ Outside(Q, c)
    BY <1>3, <1>4, <1>9, FreeOutside
  <2>2. P[w].n = 0
    BY <1>3, <1>4, <1>9, ClustersAre
  <2>3. view'.fat[c] = Eoc
    BY <1>2, <1>9, PutsAre
  <2>4. Eoc \in Nat \ {Free}
    BY ClustersAre
  <2> QED
    BY <1>1, <1>2, <1>3, <1>4, <1>9, <2>1, <2>2, <2>3, <2>4, GrowSound
<1>10. ASSUME NEW c \in Cluster, view.fat[c] = Free, Puts(c, Eoc), O.cur # 0, UNCHANGED <<got, obj>>,
              Then(<<Task("tie", c)>> \o Rest)
       PROVE  \E P2 \in Trails, Q2 \in Trails : Sound(P2, Q2)'
  <2>1. Outside(P, c) /\ Outside(Q, c)
    BY <1>3, <1>4, <1>10, FreeOutside
  <2>2. /\ view'.data = view.data /\ view'.entry = view.entry /\ view'.fat[c] = Eoc
        /\ \A d \in Cluster : d # c => view'.fat[d] = view.fat[d]
        /\ card' = card \/ card' = view
    BY <1>2, <1>10, PutsAre
  <2>3. PICK h \in [File -> Nat] : \A f \in File : Links(view.fat, h[f], P[f])
    <3> DEFINE g == [f \in File |-> IF P[f].n = 0 THEN 0 ELSE P[f].at[0]]
    <3>1. \A f \in File : g[f] \in Nat
      BY DEF Trails, Trail
    <3>2. g \in [File -> Nat]
      BY <3>1
    <3>3. \A f \in File : \E a : Links(view.fat, a, P[f])
      <4> TAKE f \in File
      <4>1. CASE f = w
        BY <1>3, <1>4, <4>1
      <4>2. CASE f # w
        BY <1>3, <1>4, <4>2 DEF Ground, Fine, Base
      <4> QED
        BY <4>1, <4>2
    <3>4. \A f \in File : Links(view.fat, g[f], P[f])
      BY <3>3 DEF Links
    <3> QED
      BY <3>2, <3>4
  <2>4. \A f \in File : SameAlong(view, view', P[f])
    <3> SUFFICES ASSUME NEW f \in File, NEW i \in Nat, i < P[f].n
                 PROVE  view'.fat[P[f].at[i]] = view.fat[P[f].at[i]] /\ view'.data[P[f].at[i]] = view.data[P[f].at[i]]
      BY DEF SameAlong
    <3>1. P[f].at[i] \in Cluster /\ P[f].at[i] # c
      BY <2>1, <2>3 DEF Links, Outside, Misses
    <3> QED
      BY <2>2, <3>1
  <2>5. SizeOf(view, obj[w], w) = SizeOf(view', obj'[w], w) /\ SizeOf(view, obj[w], w) \in Nat
    BY <1>2, <1>3, <1>4, <1>10, <2>2 DEF SizeOf
  <2>6. PICK S \in Trails : Mixed(S, Q, P) /\ Ground(w, P, S)'
    <3>1. \A f \in File : f # w =>
             /\ obj'[f] = obj[f] /\ view'.entry[f] = view.entry[f] /\ SameAlong(view, view', P[f])
             /\ (f \in adrift => f \in adrift') /\ (f \in spoiled <=> f \in spoiled')
      BY <1>1, <1>10, <2>2, <2>4
    <3>2. SizeOf(view, obj[w], w) <= SizeOf(view', obj'[w], w)
      BY <2>5
    <3>3. \A e \in Cluster : ~(view.fat[e] # Free /\ view'.fat[e] = Free)
      BY <2>2, ClustersAre
    <3>4. {} \in SUBSET {w}
      OBVIOUS
    <3>5. Anchored(view, cache, obj[w], cut, spoiled, w, P[w])
      BY <1>2, <1>3, <1>4 DEF Anchored
    <3>6. Simple(P[w])
      BY <1>3, <1>4
    <3>7. spoiled' = spoiled
      BY <1>1
    <3> QED
      BY <1>1, <1>2, <1>3, <1>4, <2>2, <3>1, <3>2, <3>3, <3>4, <3>5, <3>6, <3>7, GroundStep
  <2>7. Base(view', O, cut', spoiled', w, P[w], O.size)
    <3>1. w \notin cut' => w \notin cut \/ ~O.dirDirty
      BY <1>1, <1>2, <1>4, <2>2, CutOf
    <3>2. view'.entry[w] = view.entry[w] /\ (w \in spoiled => w \in spoiled')
      BY <1>1, <2>2
    <3> QED
      BY <1>2, <1>3, <1>4, <2>4, <3>1, <3>2, BaseKept
  <2>8. O' = O /\ who' = w /\ todo' = <<Task("tie", c), Task("fill", n)>>
    <3>1. c \in Nat
      BY ClustersAre
    <3>2. <<Task("tie", c)>> \o <<Task("fill", n)>> = <<Task("tie", c), Task("fill", n)>>
      <4>1. Task("tie", c) \in Plain
        BY <3>1, TaskIs
      <4> QED
        BY <1>3, <4>1, TwoTasks
    <3>3. O' = O
      <4>1. who' = w
        BY <1>3, <1>4, <1>10, <3>2 DEF Then
      <4> QED
        BY <1>4, <1>10, <4>1 DEF O
    <3> QED
      BY <1>3, <1>4, <1>10, <3>2, <3>3 DEF Then
  <2>9. Outside(S, c)
    BY <2>1, <2>6, MixedMisses DEF Outside
  <2>10. P[w].n > 0
    <3>1. P[w].n \in Nat
      BY <1>3, <1>4 DEF Trail
    <3> QED
      BY <1>3, <1>4, <1>10, <3>1
  <2>11. Writing(P[w], P, S)'
    <3>1. Intact(P[w], O.size)'
      BY <1>3, <2>7, <2>8 DEF Intact
    <3>2. Reach(view, O, adrift, spoiled, who, P[w])'
      <4>1. ASSUME w \notin adrift, w \notin spoiled PROVE Holds(view', w, P[w], O.pos)
        <5>1. Holds(view, w, P[w], O.pos)
          BY <1>3, <1>4, <4>1 DEF Reach
        <5> QED
          BY <2>2, <5>1 DEF Holds
      <4> QED
        BY <1>1, <2>8, <4>1 DEF Reach
    <3>3. /\ Tracks(O, who, adrift, AtPos(P[w], O.pos), n)' /\ (O.cur = AtEnd(P[w]))' /\ AtCluster(O.pos)'
          /\ got' = {}
      BY <1>1, <1>2, <1>3, <1>4, <1>10, <2>8
    <3>4. view'.fat[c] = Eoc
      BY <2>2
    <3> QED
      BY <1>3, <2>1, <2>8, <2>9, <2>10, <3>1, <3>2, <3>3, <3>4 DEF Writing
  <2>12. Phase(P, S)'
    BY <2>8, <2>11 DEF Phase
  <2> QED
    BY <2>6, <2>8, <2>12, GoesSound
<1>11. ASSUME NEW c \in Cluster, Loads(FatBlock(c), FALSE), Returns, UNCHANGED <<view, obj>>
       PROVE  \E P2 \in Trails, Q2 \in Trails : Sound(P2, Q2)'
  <2>1. card' = card \/ card' = view
    BY <1>11, LoadsCard
  <2>2. PICK S \in Trails : Ground(w, P, S)'
    BY <1>7, <1>11, <2>1
  <2>3. Placed(O, adrift, w, P[w])
    BY <1>3, <1>4 DEF Placed, Tracks
  <2>4. Base(view', O, cut', spoiled', w, P[w], O.size) /\ obj'[w] = O
    BY <1>2, <1>4, <1>7, <1>11, <2>1
  <2>5. Fine(view', obj'[w], cut', spoiled', adrift', w, P[w])
    BY <1>1, <1>3, <1>4, <1>11, <2>3, <2>4 DEF Fine
  <2>6. who' = None /\ got' = {}
    BY <1>11 DEF Returns, Then
  <2> QED
    BY <2>2, <2>5, <2>6, EndsSound
<1> QED
  BY <1>8, <1>9, <1>10, <1>11 DEF DoTake

-----------------------------------------------------------------------------
(***************************************************************************)
(* Writing: a piece                                                        *)
(***************************************************************************)
\* A piece written is in its place.
LEMMA WrittenHolds ==
  ASSUME NEW v, IsVolume(v), O.cur \in Cluster, O.pos \in Nat, Arg \in Nat, NEW x \in Trail,
         Chain(v.fat, x), \A j \in Nat : j < x.n /\ x.at[j] = O.cur => j = Index(O.pos),
         NEW l \in Nat, Adopts => l <= O.pos, Holds(v, who, x, l)
  PROVE  Holds(Written(v), who, x, l)
<1> SUFFICES ASSUME NEW p \in Nat, p < l
             PROVE  Index(p) < x.n /\ Written(v).data[x.at[Index(p)]][InCluster(p)] = <<who, p>>
  BY DEF Holds
<1>1. /\ Index(p) < x.n /\ v.data[x.at[Index(p)]][InCluster(p)] = <<who, p>>
      /\ Index(p) \in Nat /\ InCluster(p) \in 0 .. ClusterSize - 1 /\ x.at[Index(p)] \in Cluster
  BY PlaceIs DEF Holds, Chain
<1>2. CASE x.at[Index(p)] # O.cur
  BY <1>1, <1>2, WrittenIs
<1>3. CASE x.at[Index(p)] = O.cur
  <2>1. Index(p) = Index(O.pos)
    BY <1>1, <1>3
  <2>2. CASE Reached(InCluster(p))
    <3>1. PICK q \in Bytes : InCluster(p) = InCluster(q)
      BY <2>2 DEF Reached
    <3>2. q \in Nat /\ Index(q) = Index(O.pos) /\ (O.pos \div ClusterSize) * ClusterSize + InCluster(q) = q
      BY BytesPlaced
    <3>3. p = q
      BY <2>1, <3>1, <3>2, PlacesDiffer
    <3>4. Written(v).data[O.cur][InCluster(p)] = <<who, (O.pos \div ClusterSize) * ClusterSize + InCluster(p)>>
      BY <1>1, <2>2, WrittenIs
    <3> QED
      BY <1>1, <1>3, <3>1, <3>2, <3>3, <3>4
  <2>3. CASE ~Reached(InCluster(p))
    <3>1. ~Cleared(InCluster(p))
      <4>1. SUFFICES ASSUME Cleared(InCluster(p)) PROVE FALSE
        OBVIOUS
      <4>2. p < O.pos /\ InCluster(p) \in InCluster(O.pos) .. InCluster(O.pos) + BlockSize - 1
        BY <4>1 DEF Cleared
      <4> DEFINE s == Index(p) * ClusterSize
                 i == InCluster(p)
                 j == InCluster(O.pos)
                 a == O.pos
      <4>3. p = s + i /\ a = s + j /\ s \in Int
        <5>1. ClusterSize \in Nat
          BY SizesAre
        <5>2. s \in Int
          BY <1>1, <5>1
        <5> QED
          BY <2>1, <5>2, PlaceIs
      <4>4. i \in Int /\ j \in Int /\ i >= j /\ p < a
        BY <1>1, <4>2, PlaceIs, CountAssumption
      <4> HIDE DEF s, i, j, a
      <4> QED
        BY <4>3, <4>4
    <3>2. Written(v).data[O.cur][InCluster(p)] = v.data[O.cur][InCluster(p)]
      BY <1>1, <2>3, <3>1, WrittenIs
    <3> QED
      BY <1>1, <1>3, <3>2
  <2> QED
    BY <2>2, <2>3
<1> QED
  BY <1>2, <1>3

LEMMA WrittenReach ==
  ASSUME NEW v, IsVolume(v), O.cur \in Cluster, O.pos \in Nat, Arg \in Nat, NEW x \in Trail,
         Chain(v.fat, x), Index(O.pos) < x.n, x.at[Index(O.pos)] = O.cur, Simple(x), Holds(v, who, x, O.pos)
  PROVE  Holds(Written(v), who, x, O.pos + Piece)
<1>1. Holds(Written(v), who, x, O.pos)
  <2>1. Index(O.pos) \in Nat /\ \A j \in Nat : j < x.n /\ x.at[j] = O.cur => j = Index(O.pos)
    BY PlaceIs DEF Simple
  <2> QED
    BY <2>1, WrittenHolds
<1> SUFFICES ASSUME NEW p \in Nat, p < O.pos + Piece
             PROVE  Index(p) < x.n /\ Written(v).data[x.at[Index(p)]][InCluster(p)] = <<who, p>>
  BY DEF Holds
<1>2. CASE p < O.pos
  BY <1>1, <1>2 DEF Holds
<1>3. CASE ~(p < O.pos)
  <2>1. p \in Bytes
    <3> DEFINE a == O.pos
               k == Piece
    <3>1. a \in Nat /\ k \in Nat
      BY PieceIs
    <3>2. p < a + k /\ ~(p < a)
      BY <1>3
    <3> HIDE DEF a, k
    <3>3. p \in a .. a + k - 1
      BY <3>1, <3>2
    <3> QED
      BY <3>3 DEF a, k, Bytes
  <2>2. Index(p) = Index(O.pos) /\ (O.pos \div ClusterSize) * ClusterSize + InCluster(p) = p
    BY <2>1, BytesPlaced
  <2>3. Reached(InCluster(p)) /\ InCluster(p) \in 0 .. ClusterSize - 1
    BY <2>1, PlaceIs DEF Reached
  <2>4. Written(v).data[O.cur][InCluster(p)] = <<who, (O.pos \div ClusterSize) * ClusterSize + InCluster(p)>>
    BY <2>3, WrittenIs
  <2> QED
    BY <2>2, <2>4
<1> QED
  BY <1>2, <1>3

LEMMA WrittenElsewhere ==
  ASSUME NEW v, IsVolume(v), O.cur \in Cluster, NEW f, NEW x \in Trail, Chain(v.fat, x),
         \A j \in Nat : j < x.n => x.at[j] # O.cur, NEW l \in Nat, Holds(v, f, x, l)
  PROVE  Holds(Written(v), f, x, l)
<1>1. \A i \in Nat : i < x.n => Written(v).data[x.at[i]] = v.data[x.at[i]]
  BY WrittenIs DEF Chain
<1>2. PICK u : u = Written(v)
  OBVIOUS
<1>3. Holds(u, f, x, l)
  <2>1. \A i \in Nat : i < x.n => u.data[x.at[i]] = v.data[x.at[i]]
    BY <1>1, <1>2
  <2> QED
    BY <2>1, HoldsKept
<1> QED
  BY <1>2, <1>3

LEMMA LinksChain ==
  ASSUME NEW fat, NEW h, NEW x, Links(fat, h, x)
  PROVE  Chain(fat, x)
<1> SUFFICES ASSUME NEW i \in Nat, i < x.n
             PROVE  x.at[i] \in Cluster /\ (i + 1 < x.n => fat[x.at[i]] = x.at[i + 1])
  BY DEF Chain
<1>1. x.at[i] \in Cluster /\ fat[x.at[i]] = (IF i + 1 = x.n THEN Eoc ELSE x.at[i + 1])
  BY DEF Links
<1>2. i + 1 < x.n => i + 1 # x.n
  OBVIOUS
<1> QED
  BY <1>1, <1>2

\* what is at hand when a piece is written
LEMMA FillingIs ==
  ASSUME ChainInv, Doing("fill"), O.cur \in Cluster
  PROVE  /\ who \in File /\ O \in Object /\ O = obj[who] /\ IsVolume(view) /\ IsVolume(card)
         /\ Coherent(view, card, cache) /\ IInv /\ Arg \in Nat \ {0}
         /\ O.cur \in Nat /\ O.first \in Nat /\ O.size \in Nat /\ O.pos \in Nat /\ got = {} /\ O.open
         /\ \E P \in Trails, Q \in Trails :
              /\ Ground(who, P, Q) /\ P[who] \in Trail /\ Simple(P[who])
              /\ Base(view, O, cut, spoiled, who, P[who], O.size) /\ Reach(view, O, adrift, spoiled, who, P[who])
              /\ Tracks(O, who, adrift, At(P[who], Index(O.pos)), Arg)
              /\ \E i \in Nat : i < P[who].n /\ P[who].at[i] = O.cur
              /\ who \notin adrift => Index(O.pos) < P[who].n /\ P[who].at[Index(O.pos)] = O.cur
<1>1. who \in File /\ O \in Object /\ O = obj[who] /\ IsVolume(view) /\ IsVolume(card)
      /\ Coherent(view, card, cache) /\ IInv
  BY AtPhase DEF ChainInv, IInv, Coherent
<1>2. O.cur \in Nat /\ O.first \in Nat /\ O.size \in Nat /\ O.pos \in Nat
  BY <1>1 DEF Object
<1>3. PICK P \in Trails, Q \in Trails : Ground(who, P, Q) /\ Writing(P[who], P, Q) /\ P[who] \in Trail /\ Simple(P[who])
  BY AtPhase
<1>4. PICK x \in Trail : x = P[who]
  BY <1>3
<1>5. O.open /\ Base(view, O, cut, spoiled, who, x, O.size) /\ Reach(view, O, adrift, spoiled, who, x) /\ got = {}
  BY <1>3, <1>4 DEF Writing, Intact
<1>6. Arg \in Nat \ {0} /\ Tracks(O, who, adrift, At(x, Index(O.pos)), Arg)
  <2>1. PICK n \in Nat :
         \/ todo = <<Task("put", n)>>
         \/ n > 0 /\ todo = <<Task("fill", n)>> /\ Tracks(O, who, adrift, At(x, Index(O.pos)), n)
         \/ todo = <<Task("take", 0), Task("fill", n)>>
         \/ \E c \in Cluster : todo = <<Task("tie", c), Task("fill", n)>>
    BY <1>3, <1>4 DEF Writing
  <2>2. /\ todo # <<Task("put", n)>> /\ todo # <<Task("take", 0), Task("fill", n)>>
        /\ \A c : todo # <<Task("tie", c), Task("fill", n)>>
    BY DEF Doing, Task
  <2>3. n > 0 /\ todo = <<Task("fill", n)>> /\ Tracks(O, who, adrift, At(x, Index(O.pos)), n)
    BY <2>1, <2>2
  <2>4. Arg = n
    BY <2>3 DEF Arg, Task
  <2> QED
    BY <2>3, <2>4
<1>7. Near(x, O.cur) /\ Links(view.fat, O.first, x)
  BY <1>5, HeadNear DEF Base
<1>8. \E i \in Nat : i < x.n /\ x.at[i] = O.cur
  BY <1>7, ClustersAre DEF Near
<1>9. ASSUME who \notin adrift PROVE Index(O.pos) < x.n /\ x.at[Index(O.pos)] = O.cur
  <2>1. O.cur = At(x, Index(O.pos)) /\ Index(O.pos) \in Nat
    BY <1>2, <1>6, <1>9, PlaceIs DEF Tracks
  <2> DEFINE k == Index(O.pos)
  <2> HIDE DEF k
  <2>2. k \in Nat /\ At(x, k) \in Cluster /\ At(x, k) = O.cur
    BY <2>1 DEF k
  <2>3. k < x.n /\ At(x, k) = x.at[k]
    BY <1>7, <2>2, AtIs
  <2> QED
    BY <2>2, <2>3 DEF k
<1> QED
  BY <1>1, <1>2, <1>3, <1>4, <1>5, <1>6, <1>8, <1>9

\* a whole block goes to the card as well
LEMMA WrittenBacked ==
  ASSUME O.cur \in Cluster, NEW w \in File, w = who, O \in Object, O = obj[w], O.open, Arg \in Nat, O.pos \in Nat,
         IsVolume(view), IsVolume(card),
         NEW P \in Trails, NEW Q \in Trails, Simple(P[w]),
         Backed(card, view, obj, cut, spoiled, Q, P),
         NEW i \in Nat, i < P[w].n, P[w].at[i] = O.cur,
         w \notin adrift => Index(O.pos) < P[w].n /\ P[w].at[Index(O.pos)] = O.cur,
         NEW c, c = Written(card), NEW v, v.fat = view.fat, v.entry = view.entry,
         NEW ob, NEW u, ob[w] = u, u.open, u.size = O.size, \A f \in File : f # w => ob[f] = obj[f],
         NEW sp, spoiled \subseteq sp, w \in adrift => w \in sp
  PROVE  Backed(c, v, ob, cut, sp, Q, P)
<1>1. c.fat = card.fat /\ c.entry = card.entry
  BY WrittenIs
<1>2. \A f \in File : HeadIn(c, f) = HeadIn(card, f) /\ SizeOf(v, ob[f], f) = SizeOf(view, obj[f], f)
  BY <1>1 DEF HeadIn, SizeOf
<1>3. Index(O.pos) \in Nat
  BY PlaceIs
<1>4. ASSUME NEW f \in File, f \notin cut PROVE Told(c, SizeOf(v, ob[f], f), sp, f, Q[f])
  <2>1. Told(card, SizeOf(view, obj[f], f), spoiled, f, Q[f]) /\ Q[f] \in Trail
    BY <1>4 DEF Backed, Trails
  <2>2. Links(card.fat, HeadIn(card, f), Q[f])
    BY <2>1 DEF Told
  <2>3. Chain(card.fat, Q[f])
    BY <2>2, LinksChain
  <2>4. ASSUME card.entry[f].used, f \notin sp PROVE Holds(c, f, Q[f], card.entry[f].size)
    <3>1. Holds(card, f, Q[f], card.entry[f].size) /\ card.entry[f].size \in Nat /\ card.entry[f].size <= SizeOf(view, obj[f], f)
      BY <2>1, <2>4, FileHere DEF Told
    <3>2. CASE f # w
      <4>1. \A j \in Nat : j < Q[f].n => Q[f].at[j] # O.cur
        BY <3>2 DEF Backed, Apart
      <4> QED
        BY <2>1, <2>3, <3>1, <4>1, WrittenElsewhere
    <3>3. CASE f = w
      <4>1. Index(O.pos) < P[w].n /\ P[w].at[Index(O.pos)] = O.cur
        BY <2>4, <3>3
      <4>2. \A j \in Nat : j < Q[f].n /\ Q[f].at[j] = O.cur => j = Index(O.pos)
        BY <1>3, <3>3, <4>1 DEF Backed, Apart
      <4>3. Adopts => card.entry[f].size <= O.pos
        <5>1. card.entry[f].size <= O.size
          BY <3>1, <3>3 DEF SizeOf
        <5>2. Adopts => O.pos >= O.size
          BY DEF Adopts
        <5>3. O.size \in Nat
          BY DEF Object
        <5> QED
          BY <3>1, <5>1, <5>2, <5>3
      <4>4. who = f
        BY <3>3
      <4> QED
        BY <2>1, <2>3, <3>1, <4>2, <4>3, <4>4, WrittenHolds
    <3> QED
      BY <3>2, <3>3
  <2> QED
    BY <1>1, <1>2, <2>1, <2>4 DEF Told
<1>5. /\ Apart(Q, Q) /\ Apart(Q, P) /\ \A f \in File : f \in cut => Q[f].n = 0
      /\ \A f \in File : \A j \in Nat : j < Q[f].n => v.fat[Q[f].at[j]] # Free
  BY DEF Backed
<1> QED
  BY <1>4, <1>5, Zenon DEF Backed

\* the chains after a piece is written, in the view at least
LEMMA FillGround ==
  ASSUME IInv, IInv', O.cur \in Cluster, NEW w \in File, w = who, O \in Object, O = obj[w], O.open,
         Arg \in Nat, O.pos \in Nat, NEW P \in Trails, NEW Q \in Trails, Ground(w, P, Q), Simple(P[w]),
         Base(view, O, cut, spoiled, w, P[w], O.size),
         NEW i \in Nat, i < P[w].n, P[w].at[i] = O.cur,
         w \notin adrift => Index(O.pos) < P[w].n /\ P[w].at[Index(O.pos)] = O.cur,
         view' = Written(view), card' = card \/ card' = view \/ card' = Written(card), Cuts({}),
         obj'[w].open, obj'[w].size = O.size, \A f \in File : f # w => obj'[f] = obj[f],
         adrift' \cup {w} = adrift \cup {w},
         spoiled' \in {spoiled, spoiled \cup {w}}, w \in adrift => w \in spoiled'
  PROVE  \E S \in Trails : Mixed(S, Q, P) /\ Ground(w, P, S)'
<1>1. IsVolume(view) /\ IsVolume(card) /\ IsVolume(view')
  BY DEF IInv, Coherent
<1>2. /\ view'.fat = view.fat /\ view'.entry = view.entry
      /\ \A c \in Cluster : c # O.cur => view'.data[c] = view.data[c]
  BY <1>1, WrittenIs
<1>3. \A f \in File : f # w => SameAlong(view, view', P[f])
  <2> SUFFICES ASSUME NEW f \in File, f # w, NEW j \in Nat, j < P[f].n
               PROVE  view'.fat[P[f].at[j]] = view.fat[P[f].at[j]] /\ view'.data[P[f].at[j]] = view.data[P[f].at[j]]
    BY DEF SameAlong
  <2>1. P[f].at[j] \in Cluster
    BY DEF Ground, Fine, Base, Links
  <2>2. P[f].at[j] # O.cur
    BY DEF Ground, Apart
  <2> QED
    BY <1>2, <2>1, <2>2
<1>4. O.size \in Nat
  BY DEF Object
<1>5. SizeOf(view, obj[w], w) = O.size /\ SizeOf(view', obj'[w], w) = O.size
  BY DEF SizeOf
<1>6. \A f \in File : f # w =>
         (f \in adrift => f \in adrift') /\ (f \in spoiled <=> f \in spoiled')
  OBVIOUS
<1>7. w \notin (spoiled \ spoiled')
  OBVIOUS
<1>8. CASE card' = card \/ card' = view
  <2>1. Anchored(view, cache, obj[w], cut, spoiled, w, P[w])
    BY DEF Anchored
  <2>2. SizeOf(view, obj[w], w) <= SizeOf(view', obj'[w], w)
    BY <1>4, <1>5
  <2>3. \A c \in Cluster : ~(view.fat[c] # Free /\ view'.fat[c] = Free)
    BY <1>2
  <2>4. {} \in SUBSET {w}
    OBVIOUS
  <2>5. \A f \in File : f # w =>
           /\ obj'[f] = obj[f] /\ view'.entry[f] = view.entry[f] /\ SameAlong(view, view', P[f])
           /\ (f \in adrift => f \in adrift') /\ (f \in spoiled <=> f \in spoiled')
    BY <1>2, <1>3, <1>6
  <2> QED
    BY <1>7, <1>8, <2>1, <2>2, <2>3, <2>4, <2>5, GroundStep
<1>9. CASE card' = Written(card) /\ ~(card' = card \/ card' = view)
  <2>1. cut' = cut
    BY <1>9 DEF Cuts
  <2>2. Backed(card, view, obj, cut, spoiled, Q, P) /\ Apart(P, P)
    BY DEF Ground
  <2>3. PICK c, v, ob, sp : c = card' /\ v = view' /\ ob = obj' /\ sp = spoiled'
    OBVIOUS
  <2>4. Backed(c, v, ob, cut, sp, Q, P)
    <3>1. PICK u : u = obj'[w]
      OBVIOUS
    <3>2. /\ c = Written(card) /\ v.fat = view.fat /\ v.entry = view.entry /\ ob[w] = u /\ u.open /\ u.size = O.size
          /\ \A f \in File : f # w => ob[f] = obj[f]
          /\ spoiled \subseteq sp /\ (w \in adrift => w \in sp)
      BY <1>2, <1>9, <2>3, <3>1
    <3> QED
      BY <1>1, <2>2, <3>2, WrittenBacked
  <2>5. Backed(card, view, obj, cut, spoiled, Q, P)'
    BY <2>1, <2>3, <2>4
  <2>6. ASSUME NEW f \in File, f # w PROVE Fine(view', obj'[f], cut', spoiled', adrift', f, P[f])
    <3>1. Fine(view, obj[f], cut, spoiled, adrift, f, P[f]) /\ P[f] \in Trail /\ obj[f] \in Object
      BY <2>6 DEF Ground, Trails, IInv
    <3>2. /\ view'.entry[f] = view.entry[f] /\ SameAlong(view, view', P[f])
          /\ (f \notin cut' => f \notin cut \/ ~obj[f].dirDirty)
          /\ (f \in spoiled => f \in spoiled') /\ (f \in adrift => f \in adrift')
      BY <1>2, <1>3, <2>1, <2>6
    <3>3. Fine(view', obj[f], cut', spoiled', adrift', f, P[f])
      BY <1>1, <3>1, <3>2, FineKept
    <3> QED
      BY <2>6, <3>3
  <2>7. Ground(w, P, Q)'
    BY <2>2, <2>5, <2>6 DEF Ground
  <2> QED
    BY <2>7 DEF Mixed
<1> QED
  BY <1>8, <1>9

LEMMA FillSound ==
  ASSUME ChainInv, IInv', DoFill
  PROVE  \E P \in Trails, Q \in Trails : Sound(P, Q)'
<1>1. /\ Doing("fill") /\ O.cur \in Cluster /\ view' = Written(view)
      /\ Sets([O EXCEPT !.pos = O.pos + Piece]) /\ Cuts({}) /\ Then(<<Task("put", Arg - Piece)>>)
      /\ spoiled' = (IF who \in adrift THEN spoiled \cup {who} ELSE spoiled)
      /\ UNCHANGED <<got, adrift>>
      /\ (card' = card \/ card' = view \/ card' = Written(card))
  <2>1. ASSUME Loads(Here, TRUE) PROVE card' = card \/ card' = view
    BY <2>1, LoadsCard
  <2> QED
    BY <2>1 DEF DoFill, FlushDone
<1>2. /\ who \in File /\ O \in Object /\ O = obj[who] /\ IsVolume(view) /\ IsVolume(card)
      /\ Coherent(view, card, cache) /\ IInv /\ Arg \in Nat \ {0}
      /\ O.cur \in Nat /\ O.first \in Nat /\ O.size \in Nat /\ O.pos \in Nat /\ got = {} /\ O.open
  BY <1>1, FillingIs
<1>3. PICK P \in Trails, Q \in Trails :
        /\ Ground(who, P, Q) /\ P[who] \in Trail /\ Simple(P[who])
        /\ Base(view, O, cut, spoiled, who, P[who], O.size) /\ Reach(view, O, adrift, spoiled, who, P[who])
        /\ Tracks(O, who, adrift, At(P[who], Index(O.pos)), Arg)
        /\ \E i \in Nat : i < P[who].n /\ P[who].at[i] = O.cur
        /\ who \notin adrift => Index(O.pos) < P[who].n /\ P[who].at[Index(O.pos)] = O.cur
  BY <1>1, FillingIs
<1>4. PICK w \in File, x \in Trail : w = who /\ x = P[w]
  BY <1>2, <1>3
<1>5. PICK i \in Nat : i < x.n /\ x.at[i] = O.cur
  BY <1>3, <1>4
<1>6. Piece \in Nat \ {0} /\ O.pos + Piece \in Nat /\ Arg - Piece \in Nat
  BY <1>2, PieceSome
<1>7. PICK a, m : a = O.pos + Piece /\ m = Arg - Piece
  OBVIOUS
<1>8. a \in Nat /\ m \in Nat
  BY <1>6, <1>7
<1>9. PICK u : u = [O EXCEPT !.pos = a]
  OBVIOUS
<1>10. u \in Object /\ SameBut(u, O) /\ u.pos = a /\ u.cur = O.cur
  BY <1>2, <1>8, <1>9, PosSet, MovedIs, ZenonT(60)
<1>11. obj'[w] = u /\ \A f \in File : f # w => obj'[f] = obj[f]
  BY <1>1, <1>2, <1>4, <1>7, <1>9, SetsIs
<1>12. u.open /\ u.size = O.size /\ u.first = O.first
  BY <1>2, <1>10 DEF SameBut
<1>13. PICK S \in Trails : Mixed(S, Q, P) /\ Ground(w, P, S)'
  <2>1. spoiled' \in {spoiled, spoiled \cup {w}} /\ (w \in adrift => w \in spoiled')
    BY <1>1, <1>4
  <2> QED
    BY <1>1, <1>2, <1>3, <1>4, <1>5, <1>11, <1>12, <2>1, FillGround
<1>14. view'.fat = view.fat /\ view'.entry = view.entry
  BY <1>1, <1>2, WrittenIs
<1>15. Links(view.fat, O.first, x) /\ Chain(view.fat, x) /\ O.first # 0
  <2>1. Links(view.fat, O.first, x) /\ (O.first = 0 <=> x.n = 0)
    BY <1>2, <1>3, <1>4, HeadNear
  <2>2. x.n \in Nat
    BY DEF Trail
  <2> QED
    BY <1>5, <2>1, <2>2, LinksChain
<1>16. Base(view', u, cut', spoiled', w, x, u.size)
  <2>1. Links(view'.fat, HeadOf(view', u, w), x)
    BY <1>12, <1>14, <1>15 DEF HeadOf
  <2>2. Near(x, u.cur)
    BY <1>3, <1>4, <1>2, <1>10 DEF Base
  <2>3. ASSUME w \notin spoiled' PROVE Holds(view', w, x, u.size)
    <3>1. w \notin adrift /\ w \notin spoiled
      BY <1>1, <1>4, <2>3
    <3>2. Holds(view, who, x, O.size)
      BY <1>2, <1>3, <1>4, <3>1 DEF Base
    <3>3. \A j \in Nat : j < x.n /\ x.at[j] = O.cur => j = Index(O.pos)
      <4>1. Index(O.pos) \in Nat
        BY <1>2, PlaceIs
      <4> QED
        BY <1>3, <1>4, <3>1, <4>1 DEF Simple
    <3>4. Adopts => O.size <= O.pos
      BY <1>2 DEF Adopts
    <3> QED
      BY <1>1, <1>2, <1>4, <1>12, <1>15, <3>2, <3>3, <3>4, WrittenHolds
  <2>4. Entered(view'.entry[w], u, cut', w)
    <3>1. Entered(view.entry[w], O, cut, w)
      BY <1>2, <1>3, <1>4 DEF Base
    <3>2. w \notin cut' => w \notin cut \/ ~O.dirDirty
      BY <1>1, <1>2, <1>4 DEF Cuts
    <3>3. u.dirDirty = O.dirDirty /\ u.first # 0
      BY <1>10, <1>12, <1>15 DEF SameBut
    <3>4. w \notin cut' \/ ~u.dirDirty => w \notin cut \/ ~O.dirDirty
      BY <3>2, <3>3, Zenon
    <3> QED
      BY <1>12, <1>14, <3>1, <3>3, <3>4 DEF Entered
  <2> QED
    BY <1>12, <2>1, <2>2, <2>3, <2>4 DEF Base
<1>17. Reach(view', u, adrift', spoiled', w, x)
  <2>1. ASSUME w \notin adrift', w \notin spoiled' PROVE Holds(view', w, x, a)
    <3>1. w \notin adrift /\ w \notin spoiled
      BY <1>1, <1>4, <2>1
    <3>2. Holds(view, who, x, O.pos)
      BY <1>2, <1>3, <1>4, <3>1 DEF Reach
    <3>3. Index(O.pos) < x.n /\ x.at[Index(O.pos)] = O.cur /\ Simple(x)
      BY <1>3, <1>4, <3>1
    <3> QED
      BY <1>1, <1>2, <1>4, <1>7, <1>15, <3>2, <3>3, WrittenReach
  <2> QED
    BY <1>10, <2>1 DEF Reach
<1>18. who' = w /\ todo' = <<Task("put", m)>> /\ O' = u
  BY <1>1, <1>4, <1>7, <1>11 DEF Then, O
<1>19. Tracks(u, w, adrift, AtPos(x, u.pos), m)
  BY <1>2, <1>3, <1>4, <1>7, <1>10, <1>12, PieceTracks
<1>20. Writing(x, P, S)'
  <2>1. Intact(x, O.size)' /\ Reach(view, O, adrift, spoiled, who, x)'
    BY <1>12, <1>16, <1>17, <1>18 DEF Intact
  <2>2. Tracks(O, who, adrift, AtPos(x, O.pos), m)'
    BY <1>1, <1>18, <1>19
  <2>3. (who \in adrift => who \in spoiled)' /\ got' = {}
    BY <1>1, <1>2, <1>4, <1>18
  <2> QED
    BY <1>8, <1>18, <2>1, <2>2, <2>3 DEF Writing
<1>21. Phase(P, S)'
  BY <1>4, <1>18, <1>20 DEF Phase
<1> QED
  BY <1>13, <1>18, <1>21, GoesSound

-----------------------------------------------------------------------------
(***************************************************************************)
(* Truncating                                                              *)
(***************************************************************************)
\* what a truncation is at, and what is left of it
LEMMA TruncatingTasks ==
  ASSUME NEW x \in Trail, NEW P, NEW Q, Truncating(x, P, Q), O \in Object, NEW d, Doing(d)
  PROVE  /\ got = {} /\ O.open /\ O.size > 0
         /\ \E n \in Nat : \E r \in Seq(Easy(n)) :
              /\ n <= O.size /\ O.pos = n
              /\ Ending(n, r) \in Seq(Plain) /\ <<Task("shrink", n)>> \o r \in Seq(Plain)
              /\ d = "tail" => FineNow(x) /\ n > 0 /\ Rest = <<Task("shrink", n)>> \o r
              /\ d = "free" =>
                   /\ Rest = Ending(n, r)
                   /\ \/ FineNow(x) /\ n = 0 /\ who \notin adrift /\ Arg = O.first
                      \/ /\ FineNow(x) /\ n > 0 /\ (who \in adrift => who \in spoiled)
                         /\ \E s \in Nat \ {0} : s < x.n /\ O.cur = x.at[s - 1] /\ Arg = x.at[s]
                      \/ Torn(x, n) /\ \E D \in Trail : Loose(D, P, Q) /\ Arg = D.at[0]
              /\ d = "end" => Torn(x, n) /\ n > 0 /\ Rest = <<Task("shrink", n)>> \o r
              /\ d = "shrink" =>
                   /\ Arg = n /\ Rest = r
                   /\ \/ n = 0 /\ Torn(x, n)
                      \/ n > 0 /\ Intact(x, n) /\ Placed(O, adrift, who, x)
<1>1. got = {} /\ O.open /\ O.size > 0
  BY DEF Truncating
<1>2. PICK n \in Nat, r \in Seq(Plain) :
         /\ r \in Seq(Easy(n)) /\ n <= O.size /\ O.pos = n
         /\ \/ FineNow(x) /\ (n = 0 => who \notin adrift) /\ todo = Cutting(O.first, n, r)
            \/ /\ FineNow(x) /\ n > 0 /\ (who \in adrift => who \in spoiled)
               /\ \E s \in Nat \ {0} : /\ s < x.n /\ O.cur = x.at[s - 1]
                                       /\ todo = <<Task("free", x.at[s])>> \o Ending(n, r)
            \/ /\ Torn(x, n)
               /\ \E D \in Trail : Loose(D, P, Q) /\ todo = <<Task("free", D.at[0])>> \o Ending(n, r)
            \/ Torn(x, n) /\ todo = Ending(n, r)
            \/ /\ n > 0 /\ Intact(x, n) /\ Placed(O, adrift, who, x)
               /\ todo = <<Task("shrink", n)>> \o r
  <2>1. \A n \in Nat : Seq(Easy(n)) \subseteq Seq(Plain)
    BY EasyList
  <2> QED
    BY <2>1 DEF Truncating, CutsFirst, FreesNext, FreesLoose, EndsChain, Shrinks
<1>3. /\ Ending(n, r) \in Seq(Plain) /\ <<Task("shrink", n)>> \o r \in Seq(Plain)
      /\ Head(Ending(n, r)) = (IF n = 0 THEN Task("shrink", 0) ELSE Task("end", 0))
      /\ Tail(Ending(n, r)) = IF n = 0 THEN r ELSE <<Task("shrink", n)>> \o r
  BY <1>2, EndingIs
<1>4. \A e, k : Task(e, k).do = e /\ Task(e, k).arg = k
  BY DEF Task
<1>5. \A k \in Nat : Task("free", k) \in Plain /\ Task("shrink", k) \in Plain
  BY TaskIs
<1>6. Head(todo).do = d
  BY DEF Doing
<1>7. CASE FineNow(x) /\ (n = 0 => who \notin adrift) /\ todo = Cutting(O.first, n, r)
  <2>1. O.first \in Nat
    BY DEF Object
  <2>2. /\ Head(todo) = (IF n = 0 THEN Task("free", O.first) ELSE Task("tail", 0))
        /\ Rest = <<Task("shrink", n)>> \o r
    BY <1>2, <1>7, <2>1, CuttingIs DEF Rest
  <2>3. d = IF n = 0 THEN "free" ELSE "tail"
    BY <1>4, <1>6, <2>2
  <2>4. n = 0 => Arg = O.first
    BY <1>4, <2>2 DEF Arg
  <2>5. n = 0 => Rest = Ending(n, r)
    BY <2>2 DEF Ending
  <2>6. CASE n = 0
    BY <1>1, <1>2, <1>3, <1>7, <2>3, <2>4, <2>5, <2>6
  <2>7. CASE n # 0
    <3>1. n > 0 /\ d = "tail" /\ Rest = <<Task("shrink", n)>> \o r
      BY <2>2, <2>3, <2>7
    <3> QED
      BY <1>1, <1>2, <1>3, <1>7, <3>1
  <2> QED
    BY <2>6, <2>7
<1>8. ASSUME NEW a \in Nat, todo = <<Task("free", a)>> \o Ending(n, r)
      PROVE  d = "free" /\ Arg = a /\ Rest = Ending(n, r)
  BY <1>3, <1>4, <1>5, <1>6, <1>8, HeadIs
<1>9. CASE /\ FineNow(x) /\ n > 0 /\ (who \in adrift => who \in spoiled)
           /\ \E s \in Nat \ {0} : /\ s < x.n /\ O.cur = x.at[s - 1]
                                   /\ todo = <<Task("free", x.at[s])>> \o Ending(n, r)
  <2>1. PICK s \in Nat \ {0} : /\ s < x.n /\ O.cur = x.at[s - 1]
                               /\ todo = <<Task("free", x.at[s])>> \o Ending(n, r)
    BY <1>9
  <2>2. x.at[s] \in Nat
    BY DEF Trail
  <2>3. d = "free" /\ Arg = x.at[s] /\ Rest = Ending(n, r)
    BY <1>8, <2>1, <2>2
  <2> QED
    BY <1>1, <1>2, <1>3, <1>9, <2>1, <2>3
<1>10. CASE /\ Torn(x, n)
            /\ \E D \in Trail : Loose(D, P, Q) /\ todo = <<Task("free", D.at[0])>> \o Ending(n, r)
  <2>1. PICK D \in Trail : Loose(D, P, Q) /\ todo = <<Task("free", D.at[0])>> \o Ending(n, r)
    BY <1>10
  <2>2. D.at[0] \in Nat
    BY DEF Trail
  <2>3. d = "free" /\ Arg = D.at[0] /\ Rest = Ending(n, r)
    BY <1>8, <2>1, <2>2
  <2> QED
    BY <1>1, <1>2, <1>3, <1>10, <2>1, <2>3
<1>11. CASE Torn(x, n) /\ todo = Ending(n, r)
  <2>1. /\ Head(todo) = (IF n = 0 THEN Task("shrink", 0) ELSE Task("end", 0))
        /\ Rest = IF n = 0 THEN r ELSE <<Task("shrink", n)>> \o r
    BY <1>3, <1>11 DEF Rest
  <2>2. d = IF n = 0 THEN "shrink" ELSE "end"
    BY <1>4, <1>6, <2>1
  <2>3. n = 0 => Arg = n
    BY <1>4, <2>1 DEF Arg
  <2> QED
    BY <1>1, <1>2, <1>3, <1>11, <2>1, <2>2, <2>3, SMTT(30)
<1>12. CASE /\ n > 0 /\ Intact(x, n) /\ Placed(O, adrift, who, x)
            /\ todo = <<Task("shrink", n)>> \o r
  <2>1. d = "shrink" /\ Arg = n /\ Rest = r
    BY <1>2, <1>4, <1>5, <1>6, <1>12, HeadIs
  <2> QED
    BY <1>1, <1>2, <1>3, <1>12, <2>1
<1> QED
  BY <1>2, <1>7, <1>9, <1>10, <1>11, <1>12

LEMMA TwoJoin ==
  ASSUME NEW a \in Plain, NEW b \in Plain, NEW t \in Seq(Plain)
  PROVE  <<a, b>> \o t = <<a>> \o (<<b>> \o t)
<1>1. <<a>> \in Seq(Plain) /\ <<b>> \in Seq(Plain) /\ <<a>> \o <<b>> = <<a, b>>
  BY ListIs, TwoTasks
<1>2. (<<a>> \o <<b>>) \o t = <<a>> \o (<<b>> \o t)
  BY <1>1, ConcatAssociative
<1> QED
  BY <1>1, <1>2

\* what is at hand in a truncation
LEMMA CutIs ==
  ASSUME ChainInv, NEW d \in {"tail", "free", "end", "shrink"}, Doing(d)
  PROVE  /\ who \in File /\ O \in Object /\ O = obj[who] /\ IsVolume(view) /\ Coherent(view, card, cache) /\ IInv
         /\ O.cur \in Nat /\ O.first \in Nat /\ O.size \in Nat /\ O.pos \in Nat /\ O.open
         /\ \E P \in Trails, Q \in Trails :
              Ground(who, P, Q) /\ P[who] \in Trail /\ Simple(P[who]) /\ Truncating(P[who], P, Q)
<1>1. who \in File /\ O \in Object /\ O = obj[who] /\ IsVolume(view) /\ Coherent(view, card, cache) /\ IInv
  BY AtPhase DEF ChainInv, IInv, Coherent
<1>2. PICK P \in Trails, Q \in Trails :
        Ground(who, P, Q) /\ P[who] \in Trail /\ Simple(P[who]) /\ Truncating(P[who], P, Q)
  BY AtPhase
<1>3. O.open
  BY <1>2 DEF Truncating, CutsFirst, FreesNext, FreesLoose, EndsChain, Shrinks
<1> QED
  BY <1>1, <1>2, <1>3 DEF Object

LEMMA TailSound ==
  ASSUME ChainInv, IInv', DoTail
  PROVE  \E P \in Trails, Q \in Trails : Sound(P, Q)'
<1>1. /\ Doing("tail") /\ InFat(O.cur) /\ (card' = card \/ card' = view) /\ Cuts({})
      /\ Then((IF Entry(O.cur) = Eoc THEN <<>> ELSE <<Task("free", Entry(O.cur)), Task("end", 0)>>) \o Rest)
      /\ spoiled' = (IF who \in adrift THEN spoiled \cup {who} ELSE spoiled)
      /\ UNCHANGED <<view, obj, got, adrift>>
  BY LoadsCard DEF DoTail
<1>2. /\ who \in File /\ O \in Object /\ O = obj[who] /\ IsVolume(view) /\ IInv
      /\ O.cur \in Nat /\ O.first \in Nat /\ O.size \in Nat /\ O.pos \in Nat
  BY <1>1, CutIs
<1>3. PICK P \in Trails, Q \in Trails :
        Ground(who, P, Q) /\ P[who] \in Trail /\ Simple(P[who]) /\ Truncating(P[who], P, Q)
  BY <1>1, CutIs
<1>4. PICK w \in File, x \in Trail : w = who /\ x = P[w]
  BY <1>2, <1>3
<1>5. Truncating(x, P, Q) /\ Ground(w, P, Q) /\ Simple(x)
  BY <1>3, <1>4
<1>6. got = {} /\ O.open /\ O.size > 0
  BY <1>5 DEF Truncating
<1>7. PICK n \in Nat, r \in Seq(Plain) :
        /\ r \in Seq(Easy(n)) /\ n <= O.size /\ O.pos = n
        /\ Ending(n, r) \in Seq(Plain) /\ <<Task("shrink", n)>> \o r \in Seq(Plain)
        /\ FineNow(x) /\ n > 0 /\ Rest = <<Task("shrink", n)>> \o r
  <2>1. \A n \in Nat : Seq(Easy(n)) \subseteq Seq(Plain)
    BY EasyList
  <2> QED
    <3>1. PICK n \in Nat : \E r \in Seq(Easy(n)) :
            /\ n <= O.size /\ O.pos = n
            /\ Ending(n, r) \in Seq(Plain) /\ <<Task("shrink", n)>> \o r \in Seq(Plain)
            /\ FineNow(x) /\ n > 0 /\ Rest = <<Task("shrink", n)>> \o r
      BY <1>1, <1>2, <1>5, TruncatingTasks, Zenon
    <3> QED
      BY <2>1, <3>1
<1>8. PICK t : t = <<Task("shrink", n)>> \o r
  OBVIOUS
<1>9. t \in Seq(Plain) /\ Rest = t /\ t # <<>> /\ <<>> \o t = t
  <2>1. Task("shrink", n) \in Plain
    BY TaskIs
  <2>2. t \in Seq(Plain) /\ t # <<>>
    BY <1>7, <1>8, <2>1, ConsIs
  <2> QED
    BY <1>7, <1>8, <2>2
<1>10. Base(view, O, cut, spoiled, w, x, O.size) /\ Placed(O, adrift, w, x)
  BY <1>4, <1>7 DEF FineNow, Fine
<1>11. Links(view.fat, O.first, x) /\ Near(x, O.cur)
  BY <1>6, <1>10, HeadNear DEF Base
<1>12. PICK S \in Trails : Mixed(S, Q, P) /\ Ground(w, P, S)'
  <2>1. Anchored(view, cache, obj[w], cut, spoiled, w, P[w])
    BY <1>2, <1>4, <1>10 DEF Anchored
  <2>2. \A f \in File : f # w => obj'[f] = obj[f] /\ (f \in adrift => f \in adrift') /\ (f \in spoiled <=> f \in spoiled')
    BY <1>1, <1>4
  <2>3. SizeOf(view, obj[w], w) <= SizeOf(view, obj'[w], w) /\ ~(w \in spoiled /\ w \notin spoiled')
    <3>1. SizeOf(view, obj[w], w) \in Nat
      BY <1>2, <1>4, SizeOfIs
    <3> QED
      BY <1>1, <3>1
  <2> QED
    BY <1>1, <1>2, <1>5, <2>1, <2>2, <2>3, GroundLooks
<1>13. Fine(view', O, cut', spoiled', adrift', w, x)
  <2>1. w \notin cut' => w \notin cut \/ ~O.dirDirty
    BY <1>1, <1>2, <1>4, CutOf
  <2>2. SameAlong(view, view', x) /\ view'.entry[w] = view.entry[w]
    BY <1>1 DEF SameAlong
  <2>3. (w \in spoiled => w \in spoiled') /\ (w \in adrift => w \in adrift')
    BY <1>1
  <2>4. Fine(view, O, cut, spoiled, adrift, w, x)
    BY <1>4, <1>7 DEF FineNow
  <2> QED
    BY <1>2, <2>1, <2>2, <2>3, <2>4, FineKept
<1>14. ASSUME NEW s, s \in Seq(Plain), s # <<>>, Then(s) PROVE who' = w /\ todo' = s /\ O' = O
  BY <1>1, <1>4, <1>14 DEF Then, O
<1>15. CASE Entry(O.cur) = Eoc
  <2>1. who' = w /\ todo' = t /\ O' = O
    <3>1. Then(t)
      BY <1>1, <1>9, <1>15
    <3> QED
      BY <1>9, <1>14, <3>1
  <2>2. Intact(x, n)' /\ Placed(O, adrift, who, x)'
    <3>1. Base(view', O, cut', spoiled', w, x, O.size) /\ Placed(O, adrift', w, x)
      BY <1>13 DEF Fine
    <3>2. Base(view', O, cut', spoiled', w, x, n)
      BY <1>2, <1>6, <1>7, <3>1 DEF Base, Holds
    <3> QED
      BY <1>6, <2>1, <3>1, <3>2 DEF Intact
  <2>3. Truncating(x, P, S)'
    <3>1. got' = {} /\ O'.open /\ O'.size > 0 /\ n <= O'.size /\ O'.pos = n
      BY <1>1, <1>6, <1>7, <2>1
    <3>2. n > 0 /\ Intact(x, n)' /\ Placed(O, adrift, who, x)' /\ todo' = <<Task("shrink", n)>> \o r
      BY <1>7, <1>8, <2>1, <2>2
    <3> QED
      BY <1>7, <3>1, <3>2 DEF Truncating, CutsFirst, FreesNext, FreesLoose, EndsChain, Shrinks
  <2>4. Phase(P, S)'
    BY <1>4, <2>1, <2>3 DEF Phase
  <2> QED
    BY <1>12, <2>1, <2>4, GoesSound
<1>16. CASE Entry(O.cur) # Eoc
  <2>1. O.cur \in Cluster /\ Entry(O.cur) = view.fat[O.cur] /\ x.n \in Nat
    <3>1. O.cur # 0
      BY <1>16 DEF Entry
    <3>2. O.cur \in Cluster
      BY <1>1, <3>1 DEF InFat
    <3> QED
      BY <3>1, <3>2 DEF Entry, Trail
  <2>2. PICK i \in Nat : /\ i < x.n /\ x.at[i] = O.cur
                         /\ view.fat[O.cur] = IF i + 1 = x.n THEN Eoc ELSE x.at[i + 1]
    BY <1>11, <2>1, NearOn
  <2>3. PICK s \in Nat \ {0} : s = i + 1
    OBVIOUS
  <2>4. s < x.n /\ O.cur = x.at[s - 1] /\ Entry(O.cur) = x.at[s]
    <3>1. i + 1 # x.n
      BY <1>16, <2>1, <2>2
    <3>2. s < x.n /\ s - 1 = i
      BY <2>1, <2>2, <2>3, <3>1
    <3> QED
      BY <2>1, <2>2, <2>3, <3>1, <3>2
  <2>5. x.at[s] \in Nat /\ Task("free", x.at[s]) \in Plain /\ Task("end", 0) \in Plain
    <3>1. x.at[s] \in Nat
      BY DEF Trail
    <3> QED
      BY <3>1, TaskIs
  <2>6. <<Task("free", x.at[s]), Task("end", 0)>> \o t = <<Task("free", x.at[s])>> \o Ending(n, r)
    <3>1. Ending(n, r) = <<Task("end", 0)>> \o t
      BY <1>7, <1>8 DEF Ending
    <3> QED
      BY <1>9, <2>5, <3>1, TwoJoin, SMTT(30)
  <2>7. PICK q : q = <<Task("free", x.at[s])>> \o Ending(n, r)
    OBVIOUS
  <2>8. who' = w /\ todo' = q /\ O' = O
    <3>1. q \in Seq(Plain) /\ q # <<>>
      BY <1>7, <2>5, <2>7, ConsIs
    <3>2. Then(q)
      BY <1>1, <1>9, <1>16, <2>4, <2>6, <2>7
    <3> QED
      BY <1>14, <3>1, <3>2
  <2>9. Truncating(x, P, S)'
    <3>1. got' = {} /\ O'.open /\ O'.size > 0 /\ n <= O'.size /\ O'.pos = n
      BY <1>1, <1>6, <1>7, <2>8
    <3>2. FineNow(x)' /\ n > 0 /\ (who \in adrift => who \in spoiled)'
      BY <1>1, <1>4, <1>7, <1>13, <2>8 DEF FineNow
    <3>3. s < x.n /\ O'.cur = x.at[s - 1] /\ todo' = <<Task("free", x.at[s])>> \o Ending(n, r)
      BY <2>4, <2>7, <2>8
    <3> QED
      BY <1>7, <3>1, <3>2, <3>3 DEF Truncating, CutsFirst, FreesNext, FreesLoose, EndsChain, Shrinks
  <2>10. Phase(P, S)'
    BY <1>4, <2>8, <2>9 DEF Phase
  <2> QED
    BY <1>12, <2>8, <2>10, GoesSound
<1> QED
  BY <1>15, <1>16

LEMMA EndSound ==
  ASSUME ChainInv, IInv', DoEnd
  PROVE  \E P \in Trails, Q \in Trails : Sound(P, Q)'
<1>1. /\ Doing("end") /\ O.cur \in Cluster /\ Puts(O.cur, Eoc) /\ Cuts({}) /\ Then(Rest)
      /\ UNCHANGED <<obj, got, adrift, spoiled>>
  BY DEF DoEnd
<1>2. /\ who \in File /\ O \in Object /\ O = obj[who] /\ IsVolume(view) /\ IInv
      /\ O.cur \in Nat /\ O.first \in Nat /\ O.size \in Nat /\ O.pos \in Nat
  BY <1>1, CutIs
<1>3. PICK P \in Trails, Q \in Trails :
        Ground(who, P, Q) /\ P[who] \in Trail /\ Simple(P[who]) /\ Truncating(P[who], P, Q)
  BY <1>1, CutIs
<1>4. PICK w \in File, x \in Trail : w = who /\ x = P[w]
  BY <1>2, <1>3
<1>5. Truncating(x, P, Q) /\ Ground(w, P, Q) /\ Simple(x)
  BY <1>3, <1>4
<1>6. got = {} /\ O.open /\ O.size > 0
  BY <1>5 DEF Truncating
<1>7. PICK n \in Nat, r \in Seq(Plain) :
        /\ r \in Seq(Easy(n)) /\ n <= O.size /\ O.pos = n
        /\ <<Task("shrink", n)>> \o r \in Seq(Plain)
        /\ Torn(x, n) /\ n > 0 /\ Rest = <<Task("shrink", n)>> \o r
  <2>1. \A n \in Nat : Seq(Easy(n)) \subseteq Seq(Plain)
    BY EasyList
  <2> QED
    <3>1. PICK n \in Nat : \E r \in Seq(Easy(n)) :
            /\ n <= O.size /\ O.pos = n /\ <<Task("shrink", n)>> \o r \in Seq(Plain)
            /\ Torn(x, n) /\ n > 0 /\ Rest = <<Task("shrink", n)>> \o r
      BY <1>1, <1>2, <1>5, TruncatingTasks, Zenon
    <3> QED
      BY <2>1, <3>1
<1>8. /\ w \in cut /\ cache.block # DirBlock
      /\ Entered(view.entry[w], O, cut, w) /\ Chain(view.fat, x)
      /\ x.n > 0 /\ O.first = x.at[0] /\ O.cur = AtEnd(x) /\ (w \notin adrift => O.cur = AtPos(x, n))
      /\ w \notin spoiled => Holds(view, w, x, n)
  BY <1>4, <1>7 DEF Torn
<1>9. /\ view'.data = view.data /\ view'.entry = view.entry /\ view'.fat[O.cur] = Eoc
      /\ \A d \in Cluster : d # O.cur => view'.fat[d] = view.fat[d]
      /\ card' = card \/ card' = view
  BY <1>1, <1>2, PutsAre
<1>10. x.n \in Nat /\ x.n - 1 \in Nat /\ x.n - 1 < x.n /\ O.cur = x.at[x.n - 1]
  <2>1. x.n \in Nat
    BY DEF Trail
  <2> QED
    BY <1>8, <2>1 DEF AtEnd
<1>11. cut' = cut
  BY <1>1, <1>8 DEF Cuts, Hit
<1>12. Links(view'.fat, O.first, x)
  <2> SUFFICES ASSUME NEW i \in Nat, i < x.n
               PROVE  x.at[i] \in Cluster /\ view'.fat[x.at[i]] = IF i + 1 = x.n THEN Eoc ELSE x.at[i + 1]
    BY <1>8 DEF Links
  <2>1. x.at[i] \in Cluster /\ (i + 1 < x.n => view.fat[x.at[i]] = x.at[i + 1])
    BY <1>8 DEF Chain
  <2>2. CASE i + 1 = x.n
    <3>1. x.n - 1 = i
      BY <1>10, <2>2
    <3> QED
      BY <1>9, <1>10, <2>1, <2>2, <3>1
  <2>3. CASE i + 1 # x.n
    <3>1. i + 1 < x.n /\ i # x.n - 1
      BY <1>10, <2>3
    <3>2. x.at[i] # O.cur
      BY <1>5, <1>10, <3>1 DEF Simple
    <3> QED
      BY <1>9, <2>1, <2>3, <3>1, <3>2
  <2> QED
    BY <2>2, <2>3
<1>13. PICK S \in Trails : Mixed(S, Q, P) /\ Ground(w, P, S)'
  <2>1. Anchored(view, cache, obj[w], cut, spoiled, w, P[w])
    BY <1>2, <1>4, <1>6, <1>8 DEF Anchored
  <2>2. \A f \in File : f # w => SameAlong(view, view', P[f])
    <3> SUFFICES ASSUME NEW f \in File, f # w, NEW j \in Nat, j < P[f].n
                 PROVE  view'.fat[P[f].at[j]] = view.fat[P[f].at[j]] /\ view'.data[P[f].at[j]] = view.data[P[f].at[j]]
      BY DEF SameAlong
    <3>1. P[f].at[j] \in Cluster
      BY <1>5 DEF Ground, Fine, Base, Links
    <3>2. P[f].at[j] # O.cur
      BY <1>4, <1>5, <1>10 DEF Ground, Apart
    <3> QED
      BY <1>9, <3>1, <3>2
  <2>3. \A f \in File : f # w =>
           /\ obj'[f] = obj[f] /\ view'.entry[f] = view.entry[f] /\ SameAlong(view, view', P[f])
           /\ (f \in adrift => f \in adrift') /\ (f \in spoiled <=> f \in spoiled')
    BY <1>1, <1>9, <2>2
  <2>4. \A c \in Cluster : ~(view.fat[c] # Free /\ view'.fat[c] = Free)
    BY <1>9, ClustersAre
  <2>5. {} \in SUBSET {w}
    OBVIOUS
  <2>6. w \in cut'
    BY <1>8, <1>11
  <2> QED
    BY <1>1, <1>2, <1>4, <1>5, <1>9, <2>1, <2>3, <2>4, <2>5, <2>6, GroundStep
<1>14. who' = w /\ todo' = <<Task("shrink", n)>> \o r /\ O' = O
  <2>1. Task("shrink", n) \in Plain
    BY TaskIs
  <2>2. Rest # <<>>
    BY <1>7, <2>1, ConsIs
  <2> QED
    BY <1>1, <1>4, <1>7, <2>2 DEF Then, O
<1>15. Base(view', O, cut', spoiled', w, x, n)
  <2>1. Near(x, O.cur)
    BY <1>10 DEF Near
  <2>2. w \notin spoiled => Holds(view', w, x, n)
    BY <1>8, <1>9 DEF Holds
  <2>3. Links(view'.fat, HeadOf(view', O, w), x)
    BY <1>6, <1>12 DEF HeadOf
  <2> QED
    BY <1>1, <1>6, <1>8, <1>9, <1>11, <2>1, <2>2, <2>3 DEF Base
<1>16. Truncating(x, P, S)'
  <2>1. got' = {} /\ O'.open /\ O'.size > 0 /\ n <= O'.size /\ O'.pos = n
    BY <1>1, <1>6, <1>7, <1>14
  <2>2. Intact(x, n)' /\ Placed(O, adrift, who, x)'
    BY <1>1, <1>6, <1>7, <1>8, <1>14, <1>15 DEF Intact, Placed
  <2> QED
    BY <1>7, <1>14, <2>1, <2>2 DEF Truncating, CutsFirst, FreesNext, FreesLoose, EndsChain, Shrinks
<1>17. Phase(P, S)'
  BY <1>4, <1>14, <1>16 DEF Phase
<1> QED
  BY <1>13, <1>14, <1>17, GoesSound

\* the object made smaller
Shrunk(o, n) == [o EXCEPT !.size = n, !.first = IF n = 0 THEN 0 ELSE @, !.dirDirty = TRUE]

LEMMA ShrunkAre ==
  ASSUME NEW o \in Object, NEW n \in Nat, NEW u, u = Shrunk(o, n)
  PROVE  /\ u \in Object /\ u.open = o.open /\ u.cur = o.cur /\ u.pos = o.pos /\ u.size = n /\ u.dirDirty
         /\ u.first = IF n = 0 THEN 0 ELSE o.first
<1>0. PICK t \in BOOLEAN : t = TRUE
  OBVIOUS
<1> DEFINE h == IF n = 0 THEN 0 ELSE o.first
           a == [open |-> o.open, mode |-> o.mode, first |-> o.first, cur |-> o.cur,
                 pos |-> o.pos, size |-> n, dirDirty |-> o.dirDirty]
           b == [open |-> o.open, mode |-> o.mode, first |-> h, cur |-> o.cur,
                 pos |-> o.pos, size |-> n, dirDirty |-> o.dirDirty]
           g == [open |-> o.open, mode |-> o.mode, first |-> h, cur |-> o.cur,
                 pos |-> o.pos, size |-> n, dirDirty |-> t]
<1>1. u = [o EXCEPT !.size = n, !.first = h, !.dirDirty = t]
  BY <1>0 DEF Shrunk
<1>2. h \in Nat
  BY DEF Object
<1> HIDE DEF h
<1>3. u = [[[o EXCEPT !.size = n] EXCEPT !.first = h] EXCEPT !.dirDirty = t]
  BY <1>1
<1>4. [o EXCEPT !.size = n] = a
  BY DEF Object
<1>5. [a EXCEPT !.first = h] = b
  OBVIOUS
<1>6. [b EXCEPT !.dirDirty = t] = g
  OBVIOUS
<1>7. u = g
  BY <1>3, <1>4, <1>5, <1>6
<1>8. g \in Object
  BY <1>2 DEF Object
<1>9. g.open = o.open /\ g.cur = o.cur /\ g.pos = o.pos /\ g.size = n /\ g.dirDirty = t /\ g.first = h
  OBVIOUS
<1> HIDE DEF g
<1> QED
  BY <1>0, <1>7, <1>8, <1>9 DEF h

LEMMA ShrinkSound ==
  ASSUME ChainInv, IInv', DoShrink
  PROVE  \E P \in Trails, Q \in Trails : Sound(P, Q)'
<1>1. /\ Doing("shrink") /\ Sets(Shrunk(O, Arg)) /\ Then(Rest) /\ cut' = cut \cup {who}
      /\ spoiled' = (IF Arg = 0 THEN spoiled \ {who} ELSE spoiled)
      /\ UNCHANGED <<view, card, got, adrift>>
  BY DEF DoShrink, Shrunk, volume
<1>2. /\ who \in File /\ O \in Object /\ O = obj[who] /\ IsVolume(view) /\ IInv
      /\ O.cur \in Nat /\ O.first \in Nat /\ O.size \in Nat /\ O.pos \in Nat
  BY <1>1, CutIs
<1>3. PICK P \in Trails, Q \in Trails :
        Ground(who, P, Q) /\ P[who] \in Trail /\ Simple(P[who]) /\ Truncating(P[who], P, Q)
  BY <1>1, CutIs
<1>4. PICK w \in File, x \in Trail : w = who /\ x = P[w]
  BY <1>2, <1>3
<1>5. Truncating(x, P, Q) /\ Ground(w, P, Q)
  BY <1>3, <1>4
<1>6. got = {} /\ O.open /\ O.size > 0
  BY <1>5 DEF Truncating
<1>7. PICK n \in Nat, r \in Seq(Plain) :
        /\ r \in Seq(Easy(n)) /\ n <= O.size /\ O.pos = n /\ Arg = n /\ Rest = r
        /\ \/ n = 0 /\ Torn(x, n)
           \/ n > 0 /\ Intact(x, n) /\ Placed(O, adrift, who, x)
  <2>1. \A n \in Nat : Seq(Easy(n)) \subseteq Seq(Plain)
    BY EasyList
  <2> QED
    BY <1>1, <1>2, <1>5, <2>1, TruncatingTasks
<1>8. PICK u : u = Shrunk(O, n)
  OBVIOUS
<1>9. /\ u \in Object /\ u.open /\ u.cur = O.cur /\ u.pos = n /\ u.size = n /\ u.dirDirty
      /\ u.first = IF n = 0 THEN 0 ELSE O.first
  <2>1. \A o \in Object : \A v : v = Shrunk(o, n) =>
          /\ v \in Object /\ v.open = o.open /\ v.cur = o.cur /\ v.pos = o.pos /\ v.size = n /\ v.dirDirty
          /\ v.first = IF n = 0 THEN 0 ELSE o.first
    BY ShrunkAre
  <2>2. /\ u \in Object /\ u.open = O.open /\ u.cur = O.cur /\ u.pos = O.pos /\ u.size = n /\ u.dirDirty
        /\ u.first = IF n = 0 THEN 0 ELSE O.first
    BY <1>2, <1>8, <2>1, Zenon
  <2> QED
    BY <1>6, <1>7, <2>2
<1>10. obj'[w] = u /\ \A f \in File : f # w => obj'[f] = obj[f]
  BY <1>1, <1>2, <1>4, <1>7, <1>8, SetsIs
<1>11. PICK S \in Trails : Ground(w, P, S)'
  <2>1. w \in cut' /\ cut \subseteq cut' /\ cut' \subseteq cut \cup {w}
    BY <1>1, <1>4
  <2>2. \A f \in File : f # w =>
           /\ obj'[f] = obj[f]
           /\ (f \in adrift => f \in adrift') /\ (f \in spoiled <=> f \in spoiled')
    BY <1>1, <1>4, <1>10
  <2> QED
    BY <1>1, <1>2, <1>5, <2>1, <2>2, GroundStays
<1>12. Fine(view', obj'[w], cut', spoiled', adrift', w, P[w])
  <2>1. /\ view' = view /\ w \in cut' /\ view.entry[w].used /\ adrift' = adrift
        /\ w \notin spoiled' /\ n # 0 => w \notin spoiled
    <3>1. view.entry[w].used
      BY <1>4, <1>7 DEF Torn, Intact, Base, Entered
    <3> QED
      BY <1>1, <1>4, <1>7, <3>1
  <2>2. CASE n = 0 /\ Torn(x, n)
    <3>1. x.n = 0 /\ O.cur = 0
      BY <2>2 DEF Torn, AtEnd
    <3>2. Links(view.fat, u.first, x)
      <4>1. \A i \in Nat : ~(i < x.n)
        BY <3>1
      <4> QED
        BY <1>9, <2>2, <3>1, <4>1 DEF Links
    <3>3. Entered(view.entry[w], u, cut', w)
      BY <1>9, <2>1, <2>2, <3>1 DEF Entered
    <3>4. Base(view, u, cut', spoiled', w, x, u.size)
      BY <1>9, <2>2, <3>1, <3>2, <3>3, HoldsNone DEF Base, HeadOf, Near
    <3>5. Placed(u, adrift, w, x) /\ Reach(view, u, adrift, spoiled', w, x)
      BY <1>9, <2>2, <3>1, HoldsNone DEF Placed, AtPos, Reach
    <3> QED
      BY <1>4, <1>10, <2>1, <3>4, <3>5 DEF Fine
  <2>3. CASE n > 0 /\ Intact(x, n) /\ Placed(O, adrift, who, x)
    <3>1. Base(view, O, cut, spoiled, w, x, n) /\ n # 0 /\ u.first = O.first
      BY <1>4, <1>9, <2>3 DEF Intact
    <3>2. O.first # 0
      BY <1>6, <1>2, <3>1 DEF Base, Entered
    <3>3. Entered(view.entry[w], u, cut', w)
      BY <1>9, <2>1, <3>1, <3>2 DEF Entered
    <3>4. Base(view, u, cut', spoiled', w, x, u.size)
      BY <1>6, <1>9, <2>1, <3>1, <3>3 DEF Base, HeadOf
    <3>5. Placed(u, adrift, w, x) /\ Reach(view, u, adrift, spoiled', w, x)
      BY <1>4, <1>6, <1>7, <1>9, <2>3, <3>4 DEF Placed, Reach, Base
    <3> QED
      BY <1>4, <1>10, <2>1, <3>4, <3>5 DEF Fine
  <2> QED
    BY <1>7, <2>2, <2>3
<1>13. r \in Seq(Easy(obj'[w].size)) /\ SizeOf(view', obj'[w], w) = obj'[w].size /\ got' = {}
  BY <1>1, <1>6, <1>7, <1>9, <1>10 DEF SizeOf
<1>14. Then(r)
  BY <1>1, <1>7
<1> QED
  BY <1>4, <1>11, <1>12, <1>13, <1>14, EasyGoes

-----------------------------------------------------------------------------
(***************************************************************************)
(* Truncating: a cluster is freed                                          *)
(***************************************************************************)
\* chain x up to its s-th cluster, and from there
Headed(x, s) == [n |-> s, at |-> x.at]
Tailed(x, s) == [n |-> x.n - s, at |-> [i \in Nat |-> x.at[s + i]]]

LEMMA HeadedIs ==
  ASSUME NEW x \in Trail, NEW s \in Nat, NEW y, y = Headed(x, s)
  PROVE  y \in Trail /\ y.n = s /\ y.at = x.at
<1>1. y.n = s /\ y.at = x.at /\ y = [n |-> s, at |-> x.at]
  BY DEF Headed
<1> QED
  BY <1>1 DEF Trail

LEMMA TailedIs ==
  ASSUME NEW x \in Trail, NEW s \in Nat, s <= x.n, NEW y, y = Tailed(x, s)
  PROVE  /\ y \in Trail /\ y.n = x.n - s /\ x.n \in Nat /\ y.n \in Nat
         /\ \A i \in Nat : y.at[i] = x.at[s + i]
         /\ \A i \in Nat : i < y.n => s + i < x.n
<1>1. x.n \in Nat /\ x.at \in [Nat -> Nat]
  BY DEF Trail
<1> DEFINE a == [i \in Nat |-> x.at[s + i]]
<1>2. a \in [Nat -> Nat] /\ \A i \in Nat : a[i] = x.at[s + i]
  BY <1>1
<1>3. y.n = x.n - s /\ y.at = a /\ y = [n |-> y.n, at |-> y.at]
  BY DEF Tailed
<1>4. x.n - s \in Nat /\ \A i \in Nat : i < x.n - s => s + i < x.n
  BY <1>1
<1> HIDE DEF a
<1>5. y \in Trail
  BY <1>2, <1>3, <1>4 DEF Trail
<1> QED
  BY <1>1, <1>2, <1>3, <1>4, <1>5

LEMMA TailedLinks ==
  ASSUME NEW fat, NEW h, NEW x \in Trail, Links(fat, h, x), Simple(x),
         NEW s \in Nat, s < x.n, NEW y, y = Tailed(x, s)
  PROVE  /\ Links(fat, y.at[0], y) /\ Simple(y) /\ y.n > 0 /\ y.at[0] = x.at[s] /\ y \in Trail
         /\ \A i \in Nat : y.at[i] = x.at[s + i] /\ (i < y.n => s + i < x.n)
<1>1. /\ y \in Trail /\ y.n = x.n - s /\ x.n \in Nat /\ y.n \in Nat
      /\ \A i \in Nat : y.at[i] = x.at[s + i]
      /\ \A i \in Nat : i < y.n => s + i < x.n
  <2>1. s <= x.n
    BY DEF Trail
  <2> QED
    BY <2>1, TailedIs
<1>2. y.n > 0 /\ y.at[0] = x.at[s]
  BY <1>1
<1>3. ASSUME NEW i \in Nat, i < y.n
      PROVE  y.at[i] \in Cluster /\ fat[y.at[i]] = IF i + 1 = y.n THEN Eoc ELSE y.at[i + 1]
  <2>1. PICK k \in Nat : k = s + i
    OBVIOUS
  <2>2. k < x.n /\ y.at[i] = x.at[k] /\ y.at[i + 1] = x.at[k + 1] /\ (i + 1 = y.n <=> k + 1 = x.n)
    <3>1. s + (i + 1) = k + 1 /\ i + 1 \in Nat
      BY <2>1
    <3>2. i + 1 = x.n - s <=> k + 1 = x.n
      BY <1>1, <2>1
    <3> QED
      BY <1>1, <1>3, <2>1, <3>1, <3>2
  <2> QED
    BY <2>2 DEF Links
<1>4. Simple(y)
  <2> SUFFICES ASSUME NEW i \in Nat, NEW j \in Nat, i < y.n, j < y.n, y.at[i] = y.at[j]
               PROVE  i = j
    BY DEF Simple
  <2>1. s + i \in Nat /\ s + j \in Nat /\ s + i < x.n /\ s + j < x.n /\ x.at[s + i] = x.at[s + j]
    BY <1>1
  <2>2. s + i = s + j
    BY <2>1 DEF Simple
  <2> QED
    BY <2>2
<1>5. Links(fat, y.at[0], y)
  BY <1>2, <1>3 DEF Links
<1> QED
  BY <1>1, <1>2, <1>4, <1>5

\* a cluster of the FAT is changed: its block is the one in the cache
LEMMA PutsCache ==
  ASSUME IInv, NEW c, NEW n, Puts(c, n)
  PROVE  cache'.block # DirBlock
<1>1. cache = [block |-> cache.block, dirty |-> cache.dirty]
  BY DEF IInv, Coherent
<1>2. Loads(FatBlock(c), TRUE)
  BY DEF Puts
<1>3. cache'.block = FatBlock(c)
  BY <1>1, <1>2 DEF Loads, Hit
<1>4. FatBlock(c) # DirBlock
  <2>1. FatBlock(c)[1] = "fat" /\ DirBlock[1] = "dir"
    BY DEF FatBlock, DirBlock
  <2> QED
    BY <2>1
<1> QED
  BY <1>3, <1>4

\* what a truncated file keeps: the clusters y, for n bytes
Keeps(v, o, ad, sp, f, y, n) ==
  /\ Chain(v.fat, y)
  /\ n = 0 => y.n = 0
  /\ n > 0 => y.n > 0 /\ o.first = y.at[0] /\ v.fat[y.at[y.n - 1]] # Free
  /\ o.cur = AtEnd(y) /\ (f \notin ad => o.cur = AtPos(y, n))
  /\ f \notin sp => Holds(v, f, y, n)

\* a chain without its first cluster
LEMMA FirstOff ==
  ASSUME NEW fat, NEW x \in Trail, Links(fat, x.at[0], x), Simple(x), x.n > 1
  PROVE  \E y \in Trail :
           /\ y.n > 0 /\ Simple(y) /\ Links(fat, y.at[0], y) /\ y.at[0] = x.at[1]
           /\ \A i \in Nat : i < y.n =>
                /\ 1 + i \in Nat /\ 1 + i < x.n /\ y.at[i] = x.at[1 + i]
                /\ y.at[i] # x.at[0] /\ y.at[i] \in Cluster
<1>1. PICK y : y = Tailed(x, 1)
  OBVIOUS
<1>2. 1 \in Nat /\ 1 < x.n /\ x.n \in Nat /\ 0 < x.n
  BY DEF Trail
<1>3. /\ Links(fat, y.at[0], y) /\ Simple(y) /\ y.n > 0 /\ y.at[0] = x.at[1] /\ y \in Trail
      /\ \A i \in Nat : y.at[i] = x.at[1 + i] /\ (i < y.n => 1 + i < x.n)
  BY <1>1, <1>2, TailedLinks
<1>4. ASSUME NEW i \in Nat, i < y.n
      PROVE  /\ 1 + i \in Nat /\ 1 + i < x.n /\ y.at[i] = x.at[1 + i]
             /\ y.at[i] # x.at[0] /\ y.at[i] \in Cluster
  <2>1. PICK k \in Nat : k = 1 + i
    OBVIOUS
  <2>2. k < x.n /\ y.at[i] = x.at[k] /\ k # 0
    BY <1>3, <1>4, <2>1
  <2>3. x.at[k] # x.at[0]
    BY <1>2, <2>2 DEF Simple
  <2>4. y.at[i] \in Cluster
    BY <1>3, <1>4 DEF Links
  <2> QED
    BY <2>1, <2>2, <2>3, <2>4
<1> QED
  BY <1>3, <1>4

\* A cluster is freed, the first of what is left of a chain.
\* y is kept of the chain of file w, and L, which is to be freed, is apart from it and
\* from the chains of the others
CutsOff(w, P, Q, y, L) ==
  /\ \A i \in Nat : i < y.n => i < P[w].n /\ y.at[i] = P[w].at[i]
  /\ \A i \in Nat : i < L.n =>
       Misses(y, L.at[i]) /\ \A f \in File : f # w => Misses(P[f], L.at[i]) /\ Misses(Q[f], L.at[i])

LEMMA FreeGoes ==
  ASSUME IInv, IInv', NEW w \in File, w = who, O \in Object, O = obj[w], NEW P \in Trails, NEW Q \in Trails,
         Ground(w, P, Q), Simple(P[w]), Anchored(view, cache, obj[w], cut, spoiled, w, P[w]),
         got = {}, O.open, O.size > 0, NEW n \in Nat, NEW r \in Seq(Easy(n)), n <= O.size, O.pos = n,
         Ending(n, r) \in Seq(Plain), Ending(n, r) # <<>>,
         NEW y \in Trail, Keeps(view, O, adrift, spoiled, w, y, n), Entered(view.entry[w], O, cut, w),
         NEW L \in Trail, L.n > 0, Simple(L), Links(view.fat, L.at[0], L), CutsOff(w, P, Q, y, L),
         NEW c \in Cluster, c = L.at[0], Puts(c, Free), Cuts({w}),
         Then((IF Entry(c) = Eoc THEN <<>> ELSE <<Task("free", Entry(c))>>) \o Ending(n, r)),
         UNCHANGED <<obj, got, adrift, spoiled>>
  PROVE  \E P2 \in Trails, Q2 \in Trails : Sound(P2, Q2)'
<1> SUFFICES ASSUME \A i \in Nat : i < y.n => i < P[w].n /\ y.at[i] = P[w].at[i],
                    \A i \in Nat : i < L.n =>
                      /\ Misses(y, L.at[i])
                      /\ \A f \in File : f # w => Misses(P[f], L.at[i]) /\ Misses(Q[f], L.at[i])
             PROVE  \E P2 \in Trails, Q2 \in Trails : Sound(P2, Q2)'
  BY DEF CutsOff
<1>1. IsVolume(view)
  BY DEF IInv, Coherent
<1>2. /\ view'.data = view.data /\ view'.entry = view.entry /\ view'.fat[c] = Free
      /\ \A d \in Cluster : d # c => view'.fat[d] = view.fat[d]
      /\ card' = card \/ card' = view
  BY <1>1, PutsAre
<1>3. w \in cut' /\ cache'.block # DirBlock
  BY PutsCache DEF Cuts
<1>4. 0 \in Nat /\ 0 < L.n /\ L.n \in Nat
  BY DEF Trail
<1>5. Misses(y, c) /\ \A f \in File : f # w => Misses(P[f], c) /\ Misses(Q[f], c)
  BY <1>4
<1>6. PICK P2 \in Trails : P2[w] = y /\ \A f \in File : f # w => P2[f] = P[f]
  <2> DEFINE Z == [f \in File |-> IF f = w THEN y ELSE P[f]]
  <2>1. Z \in Trails
    BY DEF Trails
  <2> QED
    BY <2>1
<1>7. Simple(y)
  BY DEF Simple
<1>8. PICK S \in Trails : Mixed(S, Q, P) /\ Ground(w, P2, S)'
  <2>1. \A f \in File : f # w => SameAlong(view, view', P[f])
    <3> SUFFICES ASSUME NEW f \in File, f # w, NEW j \in Nat, j < P[f].n
                 PROVE  view'.fat[P[f].at[j]] = view.fat[P[f].at[j]] /\ view'.data[P[f].at[j]] = view.data[P[f].at[j]]
      BY DEF SameAlong
    <3>1. P[f].at[j] \in Cluster /\ P[f].at[j] # c
      BY <1>5 DEF Ground, Fine, Base, Links, Misses
    <3> QED
      BY <1>2, <3>1
  <2>2. \A f \in File : f # w =>
           /\ obj'[f] = obj[f] /\ view'.entry[f] = view.entry[f] /\ SameAlong(view, view', P[f])
           /\ (f \in adrift => f \in adrift') /\ (f \in spoiled <=> f \in spoiled')
    BY <1>2, <2>1
  <2>3. \A e \in Cluster : view.fat[e] # Free /\ view'.fat[e] = Free =>
           w \in {w} /\ \A f \in File : f # w => Misses(Q[f], e)
    BY <1>2, <1>5
  <2>4. {w} \in SUBSET {w}
    OBVIOUS
  <2>5. Simple(P2[w]) /\ \A i \in Nat : i < P2[w].n => i < P[w].n /\ P2[w].at[i] = P[w].at[i]
    BY <1>6, <1>7
  <2> QED
    BY <1>2, <1>3, <1>6, <2>2, <2>3, <2>4, <2>5, GroundStep
<1>9. S[w].n = 0
  BY <1>3, <1>8 DEF Ground, Backed
<1>11. Entered(view'.entry[w], O, cut', w)
  <2>1. O.dirDirty \in BOOLEAN
    BY DEF Object
  <2>2. w \notin cut' \/ ~O.dirDirty => ~O.dirDirty
    BY <1>3
  <2> QED
    BY <1>2, <2>2 DEF Entered
<1>12. Chain(view'.fat, y)
  <2> SUFFICES ASSUME NEW i \in Nat, i < y.n
               PROVE  y.at[i] \in Cluster /\ (i + 1 < y.n => view'.fat[y.at[i]] = y.at[i + 1])
    BY DEF Chain
  <2>1. y.at[i] \in Cluster /\ (i + 1 < y.n => view.fat[y.at[i]] = y.at[i + 1]) /\ y.at[i] # c
    BY <1>5 DEF Keeps, Chain, Misses
  <2> QED
    BY <1>2, <2>1
<1>13. Keeps(view', O, adrift', spoiled', w, y, n)
  <2>1. ASSUME n > 0 PROVE view'.fat[y.at[y.n - 1]] # Free
    <3>1. y.n \in Nat /\ y.n - 1 \in Nat /\ y.n - 1 < y.n
      <4>1. y.n > 0
        BY <2>1 DEF Keeps
      <4>2. y.n \in Nat
        BY DEF Trail
      <4> QED
        BY <4>1, <4>2
    <3>2. y.at[y.n - 1] \in Cluster /\ y.at[y.n - 1] # c
      BY <1>5, <3>1 DEF Keeps, Chain, Misses
    <3> QED
      BY <1>2, <2>1, <3>2 DEF Keeps
  <2>2. w \notin spoiled => Holds(view', w, y, n)
    BY <1>2 DEF Keeps, Holds
  <2> QED
    BY <1>12, <2>1, <2>2 DEF Keeps
<1>14. ASSUME who' = w, O' = O PROVE Torn(y, n)'
  BY <1>3, <1>11, <1>13, <1>14 DEF Torn, Keeps
<1>15. Entry(c) = view.fat[c] /\ view.fat[c] = IF 1 = L.n THEN Eoc ELSE L.at[1]
  <2>1. c # 0
    BY ClustersAre
  <2>2. 0 + 1 = 1
    OBVIOUS
  <2> QED
    BY <1>4, <2>1, <2>2 DEF Entry, Links
<1>16. CASE L.n = 1
  <2>1. who' = w /\ todo' = Ending(n, r) /\ O' = O
    <3>1. Then(Ending(n, r))
      <4>1. Then(<<>> \o Ending(n, r))
        BY <1>15, <1>16
      <4>2. \A s \in Seq(Plain) : <<>> \o s = s
        OBVIOUS
      <4> QED
        BY <4>1, <4>2
    <3> QED
      BY <3>1 DEF Then, O
  <2>2. Truncating(y, P2, S)'
    <3>1. got' = {} /\ O'.open /\ O'.size > 0 /\ n <= O'.size /\ O'.pos = n
      BY <2>1
    <3> QED
      BY <1>14, <2>1, <3>1 DEF Truncating, CutsFirst, FreesNext, FreesLoose, EndsChain, Shrinks
  <2>3. Phase(P2, S)'
    BY <1>6, <2>1, <2>2 DEF Phase
  <2> QED
    BY <1>8, <2>1, <2>3, GoesSound
<1>17. CASE L.n # 1
  <2>1. 1 \in Nat /\ 1 < L.n
    BY <1>4, <1>17
  <2>2. L.n > 1
    BY <2>1
  <2>3. PICK D \in Trail :
          /\ D.n > 0 /\ Simple(D) /\ Links(view.fat, D.at[0], D) /\ D.at[0] = L.at[1]
          /\ \A i \in Nat : i < D.n =>
               /\ 1 + i \in Nat /\ 1 + i < L.n /\ D.at[i] = L.at[1 + i]
               /\ D.at[i] # L.at[0] /\ D.at[i] \in Cluster
    BY <2>2, FirstOff
  <2>6. Links(view'.fat, D.at[0], D)
    <3>1. PICK fat2, h : fat2 = view'.fat /\ h = D.at[0]
      OBVIOUS
    <3>2. \A i \in Nat : i < D.n => fat2[D.at[i]] = view.fat[D.at[i]]
      BY <1>2, <2>3, <3>1
    <3>3. Links(view.fat, h, D) /\ D \in Trail
      BY <2>3, <3>1
    <3>4. Links(fat2, h, D)
      BY <3>2, <3>3, LinksKept
    <3> QED
      BY <3>1, <3>4
  <2>7. \A i \in Nat : i < D.n => Outside(P2, D.at[i]) /\ Outside(S, D.at[i])
    <3> SUFFICES ASSUME NEW i \in Nat, i < D.n, NEW f \in File
                 PROVE  Misses(P2[f], D.at[i]) /\ Misses(S[f], D.at[i])
      BY DEF Outside
    <3>1. 1 + i \in Nat /\ 1 + i < L.n /\ D.at[i] = L.at[1 + i]
      BY <2>3
    <3>2. CASE f = w
      BY <1>6, <1>9, <3>1, <3>2 DEF Misses
    <3>3. CASE f # w
      <4>1. Misses(P[f], D.at[i]) /\ Misses(Q[f], D.at[i])
        BY <3>1, <3>3
      <4>2. Misses(S[f], D.at[i])
        BY <1>8, <4>1, MixedMisses
      <4> QED
        BY <1>6, <3>3, <4>1, <4>2
    <3> QED
      BY <3>2, <3>3
  <2>8. Loose(D, P2, S)'
    BY <2>3, <2>6, <2>7 DEF Loose
  <2>9. Entry(c) = D.at[0] /\ Entry(c) # Eoc /\ D.at[0] \in Nat
    <3>1. L.at[1] \in Cluster
      BY <2>1 DEF Links
    <3> QED
      BY <1>15, <1>17, <2>3, <3>1, ClustersAre
  <2>10. PICK q : q = <<Task("free", D.at[0])>> \o Ending(n, r)
    OBVIOUS
  <2>11. q # <<>>
    BY <2>9, <2>10, TaskIs, ConsIs
  <2>12. who' = w /\ todo' = q /\ O' = O
    <3>1. Then(q)
      BY <2>9, <2>10
    <3> QED
      BY <2>11, <3>1 DEF Then, O
  <2>13. Truncating(y, P2, S)'
    <3>1. got' = {} /\ O'.open /\ O'.size > 0 /\ n <= O'.size /\ O'.pos = n
      BY <2>12
    <3>2. todo' = <<Task("free", D.at[0])>> \o Ending(n, r)
      BY <2>10, <2>12
    <3> QED
      BY <1>14, <2>3, <2>8, <2>12, <3>1, <3>2 DEF Truncating, CutsFirst, FreesNext, FreesLoose, EndsChain, Shrinks
  <2>14. Phase(P2, S)'
    BY <1>6, <2>12, <2>13 DEF Phase
  <2> QED
    BY <1>8, <2>12, <2>14, GoesSound
<1> QED
  BY <1>16, <1>17

\* A cluster of the file's chain is in no chain of another file.
LEMMA OthersMiss ==
  ASSUME NEW w \in File, NEW P \in Trails, NEW Q \in Trails, Ground(w, P, Q), NEW i \in Nat, i < P[w].n
  PROVE  \A f \in File : f # w => Misses(P[f], P[w].at[i]) /\ Misses(Q[f], P[w].at[i])
<1> SUFFICES ASSUME NEW f \in File, f # w, NEW j \in Nat
             PROVE  /\ j < P[f].n => P[f].at[j] # P[w].at[i]
                    /\ j < Q[f].n => Q[f].at[j] # P[w].at[i]
  BY DEF Misses
<1>1. Apart(P, P) /\ Apart(Q, P)
  BY DEF Ground, Backed
<1>2. j < P[f].n => P[f].at[j] # P[w].at[i]
  BY <1>1 DEF Apart
<1>3. j < Q[f].n => Q[f].at[j] # P[w].at[i]
  BY <1>1 DEF Apart
<1> QED
  BY <1>2, <1>3

\* The chain of a file up to where it is cut.
LEMMA HeadedKeeps ==
  ASSUME NEW f \in File, NEW o \in Object, o.open, NEW x \in Trail, Simple(x),
         Fine(view, o, cut, spoiled, adrift, f, x), f \in adrift => f \in spoiled,
         NEW n \in Nat, n > 0, n <= o.size, o.pos = n,
         NEW s \in Nat, s # 0, s < x.n, o.cur = x.at[s - 1],
         NEW y \in Trail, y.n = s, y.at = x.at
  PROVE  Keeps(view, o, adrift, spoiled, f, y, n)
<1>1. /\ Base(view, o, cut, spoiled, f, x, o.size) /\ Placed(o, adrift, f, x)
      /\ f \notin spoiled => Holds(view, f, x, o.size)
  BY DEF Fine, Base
<1>2. Links(view.fat, o.first, x) /\ x.n \in Nat /\ o.size \in Nat
  BY <1>1 DEF Base, HeadOf, Trail, Object
<1>3. s - 1 \in Nat /\ s - 1 < x.n /\ s - 1 < s /\ n - 1 \in Nat /\ 0 \in Nat /\ 0 < x.n
  BY <1>2
<1>4. view.fat[x.at[s - 1]] # Free
  BY <1>2, <1>3, LinkedNotFree
<1>5. o.first = x.at[0]
  BY <1>2, <1>3 DEF Links
<1>6. Chain(view.fat, y)
  <2> SUFFICES ASSUME NEW i \in Nat, i < y.n
               PROVE  y.at[i] \in Cluster /\ (i + 1 < y.n => view.fat[y.at[i]] = y.at[i + 1])
    BY DEF Chain
  <2>1. i < x.n /\ (i + 1 < y.n => i + 1 # x.n)
    BY <1>2
  <2> QED
    BY <1>2, <2>1 DEF Links
<1>7. ASSUME f \notin adrift PROVE Index(n - 1) = s - 1
  <2>1. x.at[s - 1] = At(x, Index(n - 1))
    BY <1>1, <1>7 DEF Placed, AtPos
  <2>2. Index(n - 1) \in Nat
    BY <1>3, PlaceIs
  <2> QED
    BY <1>2, <1>3, <2>1, <2>2, AtOnce
<1>8. o.cur = AtEnd(y)
  BY DEF AtEnd
<1>9. ASSUME f \notin adrift PROVE o.cur = AtPos(y, n)
  <2>1. Index(n - 1) < y.n /\ y.at[Index(n - 1)] = o.cur
    BY <1>3, <1>7, <1>9
  <2> QED
    BY <2>1 DEF AtPos, At
<1>10. ASSUME f \notin spoiled PROVE Holds(view, f, y, n)
  <2> SUFFICES ASSUME NEW p \in Nat, p < n
               PROVE  Index(p) < y.n /\ view.data[y.at[Index(p)]][InCluster(p)] = <<f, p>>
    BY DEF Holds
  <2>1. Index(n - 1) = s - 1
    BY <1>7, <1>10
  <2>2. p <= n - 1
    OBVIOUS
  <2>3. Index(p) <= Index(n - 1) /\ Index(p) \in Nat /\ Index(n - 1) \in Nat
    BY <1>3, <2>2, IndexGrows, PlaceIs
  <2>4. Index(p) < y.n
    BY <2>1, <2>3
  <2>5. p < o.size
    BY <1>2
  <2> QED
    BY <1>1, <1>10, <2>4, <2>5 DEF Holds
<1> QED
  BY <1>4, <1>5, <1>6, <1>8, <1>9, <1>10 DEF Keeps

LEMMA FreeSound ==
  ASSUME ChainInv, IInv', DoFree
  PROVE  \E P \in Trails, Q \in Trails : Sound(P, Q)'
<1>1. Doing("free") /\ Arg \in Cluster /\ Puts(Arg, Free) /\ Cuts({who})
  BY DEF DoFree
<1>2. Then((IF Entry(Arg) = Eoc THEN <<>> ELSE <<Task("free", Entry(Arg))>>) \o Rest)
  BY DEF DoFree
<1>3. UNCHANGED <<obj, got, adrift, spoiled>>
  BY DEF DoFree
<1>4. /\ who \in File /\ O \in Object /\ O = obj[who] /\ IsVolume(view) /\ Coherent(view, card, cache) /\ IInv
      /\ O.cur \in Nat /\ O.first \in Nat /\ O.size \in Nat /\ O.pos \in Nat /\ O.open
      /\ \E P \in Trails, Q \in Trails :
           Ground(who, P, Q) /\ P[who] \in Trail /\ Simple(P[who]) /\ Truncating(P[who], P, Q)
  BY <1>1, CutIs
<1>5. PICK w \in File, P \in Trails, Q \in Trails :
        w = who /\ Ground(who, P, Q) /\ P[who] \in Trail /\ Simple(P[who]) /\ Truncating(P[who], P, Q)
  BY <1>4
<1>6. PICK x \in Trail : x = P[w]
  BY <1>5
<1>7. Truncating(x, P, Q) /\ Ground(w, P, Q) /\ Simple(x) /\ Simple(P[w])
  BY <1>5, <1>6
<1>8. /\ got = {} /\ O.open /\ O.size > 0
      /\ \E n \in Nat : \E r \in Seq(Easy(n)) :
           /\ n <= O.size /\ O.pos = n
           /\ Ending(n, r) \in Seq(Plain)
           /\ Rest = Ending(n, r)
           /\ \/ FineNow(x) /\ n = 0 /\ who \notin adrift /\ Arg = O.first
              \/ /\ FineNow(x) /\ n > 0 /\ (who \in adrift => who \in spoiled)
                 /\ \E s \in Nat \ {0} : s < x.n /\ O.cur = x.at[s - 1] /\ Arg = x.at[s]
              \/ Torn(x, n) /\ \E D \in Trail : Loose(D, P, Q) /\ Arg = D.at[0]
  <2>1. \A d : Doing(d) =>
          /\ got = {} /\ O.open /\ O.size > 0
          /\ \E n \in Nat : \E r \in Seq(Easy(n)) :
              /\ n <= O.size /\ O.pos = n
              /\ Ending(n, r) \in Seq(Plain) /\ <<Task("shrink", n)>> \o r \in Seq(Plain)
              /\ d = "tail" => FineNow(x) /\ n > 0 /\ Rest = <<Task("shrink", n)>> \o r
              /\ d = "free" =>
                   /\ Rest = Ending(n, r)
                   /\ \/ FineNow(x) /\ n = 0 /\ who \notin adrift /\ Arg = O.first
                      \/ /\ FineNow(x) /\ n > 0 /\ (who \in adrift => who \in spoiled)
                         /\ \E s \in Nat \ {0} : s < x.n /\ O.cur = x.at[s - 1] /\ Arg = x.at[s]
                      \/ Torn(x, n) /\ \E D \in Trail : Loose(D, P, Q) /\ Arg = D.at[0]
              /\ d = "end" => Torn(x, n) /\ n > 0 /\ Rest = <<Task("shrink", n)>> \o r
              /\ d = "shrink" =>
                   /\ Arg = n /\ Rest = r
                   /\ \/ n = 0 /\ Torn(x, n)
                      \/ n > 0 /\ Intact(x, n) /\ Placed(O, adrift, who, x)
    BY <1>4, <1>7, TruncatingTasks, Zenon
  <2> QED
    BY <1>1, <2>1, Zenon
<1>9. PICK n \in Nat :
        \E r \in Seq(Easy(n)) :
           /\ n <= O.size /\ O.pos = n
           /\ Ending(n, r) \in Seq(Plain)
           /\ Rest = Ending(n, r)
           /\ \/ FineNow(x) /\ n = 0 /\ who \notin adrift /\ Arg = O.first
              \/ /\ FineNow(x) /\ n > 0 /\ (who \in adrift => who \in spoiled)
                 /\ \E s \in Nat \ {0} : s < x.n /\ O.cur = x.at[s - 1] /\ Arg = x.at[s]
              \/ Torn(x, n) /\ \E D \in Trail : Loose(D, P, Q) /\ Arg = D.at[0]
  BY <1>8
<1>10. PICK r \in Seq(Easy(n)) :
           /\ n <= O.size /\ O.pos = n
           /\ Ending(n, r) \in Seq(Plain)
           /\ Rest = Ending(n, r)
           /\ \/ FineNow(x) /\ n = 0 /\ who \notin adrift /\ Arg = O.first
              \/ /\ FineNow(x) /\ n > 0 /\ (who \in adrift => who \in spoiled)
                 /\ \E s \in Nat \ {0} : s < x.n /\ O.cur = x.at[s - 1] /\ Arg = x.at[s]
              \/ Torn(x, n) /\ \E D \in Trail : Loose(D, P, Q) /\ Arg = D.at[0]
  BY <1>9
<1>11. PICK c \in Cluster : c = Arg
  BY <1>1
<1>12. /\ n <= O.size /\ O.pos = n /\ Ending(n, r) \in Seq(Plain) /\ Ending(n, r) # <<>>
       /\ Puts(c, Free) /\ Cuts({w})
       /\ Then((IF Entry(c) = Eoc THEN <<>> ELSE <<Task("free", Entry(c))>>) \o Ending(n, r))
  <2>1. Ending(n, r) # <<>>
    BY EndingIs
  <2>2. Then((IF Entry(c) = Eoc THEN <<>> ELSE <<Task("free", Entry(c))>>) \o Ending(n, r))
    BY <1>2, <1>10, <1>11
  <2> QED
    BY <1>1, <1>5, <1>10, <1>11, <2>1, <2>2
<1>13. FineNow(x) => /\ Anchored(view, cache, obj[w], cut, spoiled, w, P[w])
                     /\ Links(view.fat, O.first, x) /\ Entered(view.entry[w], O, cut, w)
                     /\ (w \notin adrift => O.cur = AtPos(x, O.pos))
  <2> SUFFICES ASSUME FineNow(x)
               PROVE  /\ Anchored(view, cache, obj[w], cut, spoiled, w, P[w])
                      /\ Links(view.fat, O.first, x) /\ Entered(view.entry[w], O, cut, w)
                      /\ (w \notin adrift => O.cur = AtPos(x, O.pos))
    OBVIOUS
  <2>1. Base(view, O, cut, spoiled, w, x, O.size) /\ Placed(O, adrift, w, x)
    BY <1>5 DEF FineNow, Fine
  <2>2. Links(view.fat, O.first, x) /\ Entered(view.entry[w], O, cut, w)
    BY <1>4, <2>1 DEF Base, HeadOf
  <2>3. w \notin adrift => O.cur = AtPos(x, O.pos)
    BY <1>4, <2>1 DEF Placed
  <2> QED
    BY <1>4, <1>5, <1>6, <2>1, <2>2, <2>3 DEF Anchored
<1>17. ASSUME NEW y \in Trail, NEW L \in Trail,
              Anchored(view, cache, obj[w], cut, spoiled, w, P[w]),
              Keeps(view, O, adrift, spoiled, w, y, n), Entered(view.entry[w], O, cut, w),
              L.n > 0, Simple(L), Links(view.fat, L.at[0], L), c = L.at[0], CutsOff(w, P, Q, y, L)
       PROVE  \E P2 \in Trails, Q2 \in Trails : Sound(P2, Q2)'
  <2>1. IInv /\ w = who /\ O \in Object /\ O = obj[w] /\ Ground(w, P, Q) /\ Simple(P[w])
    BY <1>4, <1>5, <1>7
  <2>2. got = {} /\ O.open /\ O.size > 0
    BY <1>8
  <2> QED
    BY <1>3, <1>12, <1>17, <2>1, <2>2, FreeGoes, SMTT(60)
<1>14. CASE FineNow(x) /\ n = 0 /\ who \notin adrift /\ Arg = O.first
  <2>1. x.n \in Nat /\ x.n > 0 /\ c = x.at[0] /\ 0 \in Nat /\ O.first = x.at[0]
    <3>1. O.first # 0 /\ x.n \in Nat
      BY <1>1, <1>14, ClustersAre DEF Trail
    <3> QED
      BY <1>11, <1>13, <1>14, <3>1 DEF Links
  <2>2. PICK y \in Trail : y = NoTrail /\ y.n = 0
    BY NilIs
  <2>3. Keeps(view, O, adrift, spoiled, w, y, n)
    <3>1. O.cur = 0
      BY <1>5, <1>10, <1>13, <1>14 DEF AtPos
    <3>2. AtEnd(y) = 0 /\ AtPos(y, n) = 0
      BY <1>14, <2>2 DEF AtEnd, AtPos
    <3>3. Holds(view, w, y, n)
      BY <1>14, HoldsNone
    <3>4. Chain(view.fat, y)
      BY <2>2 DEF Chain
    <3> QED
      BY <1>14, <2>2, <3>1, <3>2, <3>3, <3>4 DEF Keeps
  <2>4. \A i \in Nat : i < x.n =>
           Misses(y, x.at[i]) /\ \A f \in File : f # w => Misses(P[f], x.at[i]) /\ Misses(Q[f], x.at[i])
    <3> SUFFICES ASSUME NEW i \in Nat, i < x.n
                 PROVE  Misses(y, x.at[i]) /\ \A f \in File : f # w => Misses(P[f], x.at[i]) /\ Misses(Q[f], x.at[i])
      OBVIOUS
    <3>1. Misses(y, x.at[i])
      BY <2>2 DEF Misses
    <3>2. \A f \in File : f # w => Misses(P[f], P[w].at[i]) /\ Misses(Q[f], P[w].at[i])
      BY <1>6, <1>7, OthersMiss
    <3> QED
      BY <1>6, <3>1, <3>2
  <2>5. \A i \in Nat : i < y.n => i < P[w].n /\ y.at[i] = P[w].at[i]
    BY <2>2
  <2>6. Links(view.fat, x.at[0], x)
    BY <1>13, <1>14, <2>1
  <2> QED
    BY <1>7, <1>13, <1>14, <2>1, <2>3, <2>4, <2>5, <2>6, <1>17 DEF CutsOff
<1>15. CASE /\ FineNow(x) /\ n > 0 /\ (who \in adrift => who \in spoiled)
            /\ \E s \in Nat \ {0} : s < x.n /\ O.cur = x.at[s - 1] /\ Arg = x.at[s]
  <2>1. PICK s \in Nat : s # 0 /\ s < x.n /\ O.cur = x.at[s - 1] /\ c = x.at[s]
    BY <1>11, <1>15
  <2>2. PICK y \in Trail : y.n = s /\ y.at = x.at
    <3>1. \A y : y = Headed(x, s) => y \in Trail /\ y.n = s /\ y.at = x.at
      BY HeadedIs
    <3> QED
      BY <3>1
  <2>3. Keeps(view, O, adrift, spoiled, w, y, n)
    <3>1. PICK o \in Object : o = O
      BY <1>4
    <3>2. Fine(view, o, cut, spoiled, adrift, w, x) /\ o.open
      BY <1>4, <1>5, <1>15, <3>1 DEF FineNow
    <3>3. n <= o.size /\ o.pos = n /\ o.cur = x.at[s - 1] /\ (w \in adrift => w \in spoiled)
      BY <1>5, <1>12, <1>15, <2>1, <3>1
    <3>4. Keeps(view, o, adrift, spoiled, w, y, n)
      BY <1>7, <1>15, <2>1, <2>2, <3>2, <3>3, HeadedKeeps
    <3> QED
      BY <3>1, <3>4
  <2>4. PICK L \in Trail :
          /\ Links(view.fat, L.at[0], L) /\ Simple(L) /\ L.n > 0 /\ L.at[0] = x.at[s]
          /\ \A i \in Nat : L.at[i] = x.at[s + i] /\ (i < L.n => s + i < x.n)
    <3>1. Links(view.fat, O.first, x) /\ Simple(x) /\ s < x.n
      BY <1>7, <1>13, <1>15, <2>1
    <3>2. \A y1 : y1 = Tailed(x, s) =>
            /\ Links(view.fat, y1.at[0], y1) /\ Simple(y1) /\ y1.n > 0 /\ y1.at[0] = x.at[s] /\ y1 \in Trail
            /\ \A i \in Nat : y1.at[i] = x.at[s + i] /\ (i < y1.n => s + i < x.n)
      BY <3>1, TailedLinks
    <3> QED
      BY <3>2
  <2>5. /\ Links(view.fat, L.at[0], L) /\ Simple(L) /\ L.n > 0 /\ L.at[0] = x.at[s] /\ L \in Trail
        /\ \A i \in Nat : L.at[i] = x.at[s + i] /\ (i < L.n => s + i < x.n)
    BY <2>4
  <2>6. \A i \in Nat : i < L.n =>
           Misses(y, L.at[i]) /\ \A f \in File : f # w => Misses(P[f], L.at[i]) /\ Misses(Q[f], L.at[i])
    <3> SUFFICES ASSUME NEW i \in Nat, i < L.n
                 PROVE  Misses(y, L.at[i]) /\ \A f \in File : f # w => Misses(P[f], L.at[i]) /\ Misses(Q[f], L.at[i])
      OBVIOUS
    <3>1. PICK k \in Nat : k = s + i
      OBVIOUS
    <3>2. k < x.n /\ L.at[i] = x.at[k] /\ s <= k
      <4>1. L.at[i] = x.at[s + i] /\ (i < L.n => s + i < x.n)
        BY <2>5
      <4>2. s <= k
        BY <3>1
      <4> QED
        BY <3>1, <4>1, <4>2
    <3>3. Misses(y, L.at[i])
      <4> SUFFICES ASSUME NEW j \in Nat, j < y.n
                   PROVE  y.at[j] # x.at[k]
        BY <3>2 DEF Misses
      <4>1. j < x.n /\ j # k
        <5>1. x.n \in Nat
          BY DEF Trail
        <5> QED
          BY <2>1, <2>2, <3>2, <5>1
      <4> QED
        BY <1>7, <2>2, <3>2, <4>1 DEF Simple
    <3>4. \A f \in File : f # w => Misses(P[f], P[w].at[k]) /\ Misses(Q[f], P[w].at[k])
      BY <1>6, <1>7, <3>2, OthersMiss
    <3> QED
      BY <1>6, <3>2, <3>3, <3>4
  <2>7. \A i \in Nat : i < y.n => i < P[w].n /\ y.at[i] = P[w].at[i]
    <3>1. x.n \in Nat
      BY DEF Trail
    <3> QED
      BY <1>6, <2>1, <2>2, <3>1
  <2>8. c = L.at[0] /\ L \in Trail
    BY <2>1, <2>5
  <2> QED
    BY <1>13, <1>15, <2>3, <2>5, <2>6, <2>7, <2>8, <1>17 DEF CutsOff
<1>16. CASE Torn(x, n) /\ \E D \in Trail : Loose(D, P, Q) /\ Arg = D.at[0]
  <2>1. PICK D \in Trail : Loose(D, P, Q) /\ Arg = D.at[0]
    BY <1>16
  <2>2. D.n > 0 /\ Simple(D) /\ Links(view.fat, D.at[0], D) /\ c = D.at[0]
    BY <1>11, <2>1 DEF Loose
  <2>3. Keeps(view, O, adrift, spoiled, w, x, n) /\ Entered(view.entry[w], O, cut, w)
    BY <1>5, <1>16 DEF Torn, Keeps
  <2>4. Anchored(view, cache, obj[w], cut, spoiled, w, P[w])
    BY <1>4, <1>5, <1>16 DEF Torn, Anchored
  <2>5. \A i \in Nat : i < D.n =>
           Misses(x, D.at[i]) /\ \A f \in File : f # w => Misses(P[f], D.at[i]) /\ Misses(Q[f], D.at[i])
    BY <1>6, <2>1 DEF Loose, Outside
  <2>6. \A i \in Nat : i < x.n => i < P[w].n /\ x.at[i] = P[w].at[i]
    BY <1>6
  <2> QED
    BY <2>2, <2>3, <2>4, <2>5, <2>6, <1>17 DEF CutsOff
<1> QED
  BY <1>10, <1>14, <1>15, <1>16, Zenon

-----------------------------------------------------------------------------
(***************************************************************************)
(* Failure                                                                 *)
(***************************************************************************)
\* what a call leaves of its file when a task of it fails
Leaves(P, Q) ==
  /\ Ground(who, P, Q) /\ P[who] \in Trail /\ Simple(P[who])
  /\ Base(view, O, cut, spoiled, who, P[who], O.size)
  /\ Moved \/ (Placed(O, adrift, who, P[who]) /\ Reach(view, O, adrift, spoiled, who, P[who]))

\* the tasks that can fail and leave the file behind
FailDo == (QuietDo \ {"seek", "shut"}) \cup
  {"read", "copy", "put", "fill", "take", "tie", "hop", "tail", "free", "end"}

\* a piece is at hand: the current cluster is the position's, or leaves it behind
LEMMA PieceLeft ==
  ASSUME O.pos \in Nat, NEW x, NEW n, Tracks(O, who, adrift, At(x, Index(O.pos)), n), Doing("copy") \/ Doing("fill")
  PROVE  Moved \/ Placed(O, adrift, who, x)
<1>1. ASSUME ~AtCluster(O.pos) PROVE Placed(O, adrift, who, x)
  <2>1. AtPos(x, O.pos) = At(x, Index(O.pos))
    BY <1>1, PlaceBefore
  <2> QED
    BY <2>1 DEF Tracks, Placed
<1> QED
  BY <1>1 DEF Moved

LEMMA LeftAre ==
  ASSUME ChainInv, NEW d \in FailDo, Doing(d), ~Tears
  PROVE  /\ who \in File /\ O \in Object /\ O = obj[who] /\ IInv /\ ~broken
         /\ \E P \in Trails, Q \in Trails : Leaves(P, Q)
<1>1. /\ who \in File /\ O \in Object /\ O = obj[who] /\ ~broken
      /\ \E P \in Trails, Q \in Trails :
           /\ Ground(who, P, Q) /\ P[who] \in Trail /\ Simple(P[who])
           /\ d \in QuietDo => Quiet(P[who])
           /\ d \in {"read", "copy"} => Reading(P[who])
           /\ d \in {"put", "fill", "take", "tie"} => Writing(P[who], P, Q)
           /\ d \in {"hop", "arrive"} => Seeking(P[who])
           /\ d \in {"tail", "free", "end", "shrink"} => Truncating(P[who], P, Q)
  BY AtPhase
<1>2. PICK P \in Trails, Q \in Trails :
           /\ Ground(who, P, Q) /\ P[who] \in Trail /\ Simple(P[who])
           /\ d \in QuietDo => Quiet(P[who])
           /\ d \in {"read", "copy"} => Reading(P[who])
           /\ d \in {"put", "fill", "take", "tie"} => Writing(P[who], P, Q)
           /\ d \in {"hop", "arrive"} => Seeking(P[who])
           /\ d \in {"tail", "free", "end", "shrink"} => Truncating(P[who], P, Q)
  BY <1>1
<1>3. PICK x \in Trail : x = P[who]
  BY <1>2
<1>4. O.pos \in Nat
  BY <1>1 DEF Object
<1>5. FineNow(x) => Base(view, O, cut, spoiled, who, x, O.size) /\ Placed(O, adrift, who, x)
                    /\ Reach(view, O, adrift, spoiled, who, x)
  BY DEF FineNow, Fine
<1>6. /\ Base(view, O, cut, spoiled, who, x, O.size)
      /\ Moved \/ (Placed(O, adrift, who, x) /\ Reach(view, O, adrift, spoiled, who, x))
  <2>1. CASE d \in QuietDo
    BY <1>2, <1>3, <1>5, <2>1 DEF Quiet
  <2>2. CASE d \in {"read", "copy"}
    <3>1. Intact(x, O.size) /\ Reach(view, O, adrift, spoiled, who, x)
      BY <1>2, <1>3, <2>2 DEF Reading
    <3>2. PICK n \in Nat :
            \/ todo = <<Task("read", n)>> /\ Tracks(O, who, adrift, AtPos(x, O.pos), n)
            \/ n > 0 /\ todo = <<Task("copy", n)>> /\ Tracks(O, who, adrift, At(x, Index(O.pos)), n)
      BY <1>2, <1>3, <2>2 DEF Reading
    <3>3. CASE Tracks(O, who, adrift, AtPos(x, O.pos), n)
      BY <3>1, <3>3 DEF Tracks, Placed, Intact
    <3>4. CASE todo = <<Task("copy", n)>> /\ Tracks(O, who, adrift, At(x, Index(O.pos)), n)
      <4>1. Doing("copy")
        BY <3>4 DEF Doing, Task, Idle
      <4>2. Moved \/ Placed(O, adrift, who, x)
        BY <1>4, <3>4, <4>1, PieceLeft
      <4> QED
        BY <3>1, <4>2 DEF Intact
    <3> QED
      BY <3>2, <3>3, <3>4
  <2>3. CASE d \in {"put", "fill", "take", "tie"}
    <3>1. Intact(x, O.size) /\ Reach(view, O, adrift, spoiled, who, x)
      BY <1>2, <1>3, <2>3 DEF Writing
    <3>2. PICK n \in Nat :
            \/ Tracks(O, who, adrift, AtPos(x, O.pos), n)
            \/ todo = <<Task("fill", n)>> /\ Tracks(O, who, adrift, At(x, Index(O.pos)), n)
      BY <1>2, <1>3, <2>3 DEF Writing
    <3>3. CASE Tracks(O, who, adrift, AtPos(x, O.pos), n)
      BY <3>1, <3>3 DEF Tracks, Placed, Intact
    <3>4. CASE todo = <<Task("fill", n)>> /\ Tracks(O, who, adrift, At(x, Index(O.pos)), n)
      <4>1. Doing("fill")
        BY <3>4 DEF Doing, Task, Idle
      <4>2. Moved \/ Placed(O, adrift, who, x)
        BY <1>4, <3>4, <4>1, PieceLeft
      <4> QED
        BY <3>1, <4>2 DEF Intact
    <3> QED
      BY <3>2, <3>3, <3>4
  <2>4. CASE d = "hop"
    <3>1. Moved
      BY <2>4 DEF Moved
    <3>2. Intact(x, O.size)
      BY <1>2, <1>3, <2>4 DEF Seeking
    <3> QED
      BY <3>1, <3>2 DEF Intact
  <2>5. CASE d \in {"tail", "free", "end"}
    <3>1. \A e : Doing(e) =>
         /\ got = {} /\ O.open /\ O.size > 0
         /\ \E n \in Nat : \E r \in Seq(Easy(n)) :
              /\ n <= O.size /\ O.pos = n
              /\ Ending(n, r) \in Seq(Plain) /\ <<Task("shrink", n)>> \o r \in Seq(Plain)
              /\ e = "tail" => FineNow(x) /\ n > 0 /\ Rest = <<Task("shrink", n)>> \o r
              /\ e = "free" =>
                   /\ Rest = Ending(n, r)
                   /\ \/ FineNow(x) /\ n = 0 /\ who \notin adrift /\ Arg = O.first
                      \/ /\ FineNow(x) /\ n > 0 /\ (who \in adrift => who \in spoiled)
                         /\ \E s \in Nat \ {0} : s < x.n /\ O.cur = x.at[s - 1] /\ Arg = x.at[s]
                      \/ Torn(x, n) /\ \E D \in Trail : Loose(D, P, Q) /\ Arg = D.at[0]
              /\ e = "end" => Torn(x, n) /\ n > 0 /\ Rest = <<Task("shrink", n)>> \o r
              /\ e = "shrink" =>
                   /\ Arg = n /\ Rest = r
                   /\ \/ n = 0 /\ Torn(x, n)
                      \/ n > 0 /\ Intact(x, n) /\ Placed(O, adrift, who, x)
      <4>1. O \in Object /\ Truncating(x, P, Q)
        BY <1>1, <1>2, <1>3, <2>5, Zenon
      <4> QED
        BY <1>3, <4>1, TruncatingTasks, Zenon
    <3>2. FineNow(x) \/ ((d = "free" \/ d = "end") /\ \E n \in Nat : Torn(x, n))
      BY <2>5, <3>1
    <3>3. ~((d = "free" \/ d = "end") /\ \E n \in Nat : Torn(x, n))
      BY DEF Torn, Tears
    <3> QED
      BY <1>5, <3>2, <3>3
  <2> QED
    BY <2>1, <2>2, <2>3, <2>4, <2>5 DEF FailDo
<1>7. Leaves(P, Q)
  BY <1>2, <1>3, <1>6 DEF Leaves
<1> QED
  BY <1>1, <1>7 DEF ChainInv

\* The call ends, and its file is left as it is.
LEMMA LeftGoes ==
  ASSUME NEW w \in File, w = who, O \in Object, O = obj[w], NEW P \in Trails, NEW Q \in Trails, Leaves(P, Q),
         who' = None, got' = {}, obj' = obj,
         adrift \subseteq adrift', Moved => w \in adrift',
         NEW R \in Trails, Ground(w, P, R)', Base(view', O, cut', spoiled', w, P[w], O.size),
         w \notin adrift' => Reach(view', O, adrift', spoiled', w, P[w])
  PROVE  Sound(P, R)'
<1>1. Placed(O, adrift', w, P[w])
  BY DEF Leaves, Placed
<1>2. Reach(view', O, adrift', spoiled', w, P[w])
  BY DEF Reach
<1>3. Fine(view', O, cut', spoiled', adrift', w, P[w])
  BY <1>1, <1>2 DEF Fine
<1>4. obj'[w] = O
  OBVIOUS
<1>5. Fine(view', obj'[w], cut', spoiled', adrift', w, P[w])
  BY <1>3, <1>4
<1> QED
  BY <1>5, EndsSound

\* ... and the view as well
LEMMA LeftSame ==
  ASSUME IInv, IInv', NEW w \in File, w = who, O \in Object, O = obj[w],
         NEW P \in Trails, NEW Q \in Trails, Leaves(P, Q),
         who' = None, got' = {}, obj' = obj, view' = view, spoiled' = spoiled,
         adrift \subseteq adrift', Moved => w \in adrift',
         \/ Cuts({}) /\ (card' = card \/ card' = view)
         \/ card' = card /\ cut' = cut
  PROVE  \E P2 \in Trails, Q2 \in Trails : Sound(P2, Q2)'
<1>1. Ground(w, P, Q) /\ P[w] \in Trail /\ Base(view, O, cut, spoiled, w, P[w], O.size) /\ O.size \in Nat
      /\ (Moved \/ (Placed(O, adrift, w, P[w]) /\ Reach(view, O, adrift, spoiled, w, P[w])))
  BY DEF Leaves, Object
<1>2. IsVolume(view)
  BY DEF IInv, Coherent
<1>3. SizeOf(view, obj[w], w) \in Nat
  BY <1>2, SizeOfIs
<1>4. \E R \in Trails : Mixed(R, Q, P) /\ Ground(w, P, R)'
  <2>1. CASE Cuts({}) /\ (card' = card \/ card' = view)
    <3>1. Anchored(view, cache, obj[w], cut, spoiled, w, P[w])
      BY <1>1 DEF Anchored
    <3>2. \A f \in File : f # w =>
           /\ obj'[f] = obj[f]
           /\ (f \in adrift => f \in adrift') /\ (f \in spoiled <=> f \in spoiled')
      OBVIOUS
    <3>3. w \notin cut' =>
           /\ SizeOf(view, obj[w], w) <= SizeOf(view, obj'[w], w)
           /\ w \in spoiled /\ w \notin spoiled' => SizeOf(view, obj[w], w) = 0
      BY <1>3
    <3> QED
      BY <1>1, <2>1, <3>1, <3>2, <3>3, GroundLooks
  <2>2. CASE card' = card /\ cut' = cut
    <3>1. cut \subseteq cut' /\ cut' \subseteq cut \cup {w}
      BY <2>2
    <3>2. \A f \in File : f # w =>
           /\ obj'[f] = obj[f]
           /\ (f \in adrift => f \in adrift') /\ (f \in spoiled <=> f \in spoiled')
      OBVIOUS
    <3>3. w \notin cut' =>
           /\ SizeOf(view, obj[w], w) <= SizeOf(view, obj'[w], w)
           /\ w \in spoiled /\ w \notin spoiled' => SizeOf(view, obj[w], w) = 0
      BY <1>3
    <3> QED
      BY <1>1, <2>2, <3>1, <3>2, <3>3, GroundStays
  <2> QED
    BY <2>1, <2>2
<1>5. PICK R \in Trails : Ground(w, P, R)'
  BY <1>4
<1>6. Base(view', O, cut', spoiled', w, P[w], O.size)
  <2>1. w \notin cut' => w \notin cut \/ ~O.dirDirty
    BY DEF Cuts
  <2>2. SameAlong(view, view', P[w])
    BY DEF SameAlong
  <2>3. PICK v2, ct2, sp2 : v2 = view' /\ ct2 = cut' /\ sp2 = spoiled'
    OBVIOUS
  <2>4. v2.entry[w] = view.entry[w] /\ SameAlong(view, v2, P[w]) /\ (w \notin ct2 => w \notin cut \/ ~O.dirDirty)
        /\ (w \in spoiled => w \in sp2)
    BY <2>1, <2>2, <2>3
  <2>5. Base(v2, O, ct2, sp2, w, P[w], O.size)
    BY <1>1, <1>2, <2>4, BaseKept
  <2> QED
    BY <2>3, <2>5
<1>7. w \notin adrift' => Reach(view', O, adrift', spoiled', w, P[w])
  BY <1>1 DEF Reach
<1>8. Sound(P, R)'
  BY <1>5, <1>6, <1>7, LeftGoes
<1> QED
  BY <1>8

LEMMA CacheFailsDo ==
  ASSUME CacheFails
  PROVE  \E d \in FailDo : Doing(d)
<1>1. CASE Doing("flush") \/ Doing("fill")
  BY <1>1 DEF FailDo, QuietDo
<1>2. CASE \E b \in Needed : LoadFails(b)
  <2>1. Needed # {}
    BY <1>2
  <2>2. ~(\E d \in FailDo : Doing(d)) => Needed = {}
    BY DEF Needed, FailDo, QuietDo
  <2> QED
    BY <2>1, <2>2
<1> QED
  BY <1>1, <1>2 DEF CacheFails

\* A transfer between cache and card fails.
LEMMA CacheFailsSound ==
  ASSUME ChainInv, IInv', CacheFails, ~broken'
  PROVE  \E P \in Trails, Q \in Trails : Sound(P, Q)'
<1>1. who' = None /\ got' = {} /\ obj' = obj /\ view' = view /\ spoiled' = spoiled /\ Cuts({}) /\ ~Tears
      /\ adrift' = (IF Moved THEN adrift \cup {who} ELSE adrift)
  BY DEF CacheFails, Failing, CallFails
<1>2. card' = card \/ card' = view
  BY DEF CacheFails, LoadFails, FlushFails, FlushDone
<1>3. PICK d \in FailDo : Doing(d)
  BY CacheFailsDo
<1>4. /\ who \in File /\ O \in Object /\ O = obj[who] /\ IInv
      /\ \E P \in Trails, Q \in Trails : Leaves(P, Q)
  BY <1>1, <1>3, LeftAre
<1>5. PICK w \in File, P \in Trails, Q \in Trails : w = who /\ Leaves(P, Q)
  BY <1>4
<1>6. adrift \subseteq adrift' /\ (Moved => w \in adrift')
  BY <1>1, <1>5
<1> QED
  BY <1>1, <1>2, <1>4, <1>5, <1>6, LeftSame

\* There is no such cluster.
LEMMA NotInFatSound ==
  ASSUME ChainInv, IInv', NotInFat, ~broken'
  PROVE  \E P \in Trails, Q \in Trails : Sound(P, Q)'
<1>1. who' = None /\ got' = {} /\ obj' = obj /\ view' = view /\ spoiled' = spoiled /\ card' = card /\ cut' = cut
      /\ ~Tears /\ adrift' = (IF Moved THEN adrift \cup {who} ELSE adrift)
  BY DEF NotInFat, CallFails, volume
<1>2. \E d \in FailDo : Doing(d)
  BY DEF NotInFat, FailDo, QuietDo
<1>3. PICK d \in FailDo : Doing(d)
  BY <1>2
<1>4. /\ who \in File /\ O \in Object /\ O = obj[who] /\ IInv
      /\ \E P \in Trails, Q \in Trails : Leaves(P, Q)
  BY <1>1, <1>3, LeftAre
<1>5. PICK w \in File, P \in Trails, Q \in Trails : w = who /\ Leaves(P, Q)
  BY <1>4
<1>6. adrift \subseteq adrift' /\ (Moved => w \in adrift')
  BY <1>1, <1>5
<1> QED
  BY <1>1, <1>4, <1>5, <1>6, LeftSame

\* A piece is read or written outside the volume.
LEMMA ElsewhereSound ==
  ASSUME ChainInv, IInv', Elsewhere, ~broken'
  PROVE  \E P \in Trails, Q \in Trails : Sound(P, Q)'
<1>1. who' = None /\ got' = {} /\ obj' = obj /\ view' = view /\ spoiled' = spoiled /\ card' = card /\ cut' = cut
      /\ adrift' = adrift \cup {who}
  BY DEF Elsewhere, volume
<1>2. (Doing("copy") \/ Doing("fill")) /\ ~Tears
  BY DEF Elsewhere, Tears, Doing
<1>3. PICK d \in FailDo : Doing(d)
  BY <1>2 DEF FailDo, QuietDo
<1>4. /\ who \in File /\ O \in Object /\ O = obj[who] /\ IInv
      /\ \E P \in Trails, Q \in Trails : Leaves(P, Q)
  BY <1>2, <1>3, LeftAre
<1>5. PICK w \in File, P \in Trails, Q \in Trails : w = who /\ Leaves(P, Q)
  BY <1>4
<1>6. adrift \subseteq adrift' /\ (Moved => w \in adrift')
  BY <1>1, <1>5
<1> QED
  BY <1>1, <1>4, <1>5, <1>6, LeftSame

\* When the cache holds the block of the piece, card and view are the same elsewhere.
LEMMA CardElsewhere ==
  ASSUME view \in Store, card \in Store, Coherent(view, card, cache), O.cur \in Cluster, O.pos \in Nat, Hit(Here)
  PROVE  /\ card.fat = view.fat /\ card.entry = view.entry
         /\ \A c \in Cluster : c # O.cur => card.data[c] = view.data[c]
<1>1. IsVolume(view) /\ IsVolume(card) /\ OnlyIn(view, card, cache.block)
  BY DEF Coherent
<1>2. BlockOfCluster(O.pos) \in 0 .. BlocksPerCluster - 1
  BY CountAssumption DEF BlockOfCluster
<1>3. cache.block = DataBlock(O.cur, BlockOfCluster(O.pos)) /\ O.cur \in Nat
  BY ClustersAre DEF Hit, Here
<1>4. cache.block # DirBlock /\ \A c \in Cluster : cache.block # FatBlock(c)
  BY <1>2, <1>3, BlocksDiffer, ClustersAre
<1>5. card.entry = view.entry
  BY <1>1, <1>4 DEF OnlyIn
<1>6. card.fat = view.fat
  <2>1. \A c \in Cluster : view.fat[c] = card.fat[c]
    BY <1>1, <1>4 DEF OnlyIn
  <2> QED
    BY <1>1, <2>1 DEF IsVolume
<1>7. ASSUME NEW c \in Cluster, c # O.cur PROVE card.data[c] = view.data[c]
  <2>1. ASSUME NEW i \in 0 .. ClusterSize - 1 PROVE view.data[c][i] = card.data[c][i]
    <3>1. i \div BlockSize \in 0 .. BlocksPerCluster - 1
      BY BlockOfByte
    <3>2. cache.block # DataBlock(c, i \div BlockSize)
      BY <1>2, <1>3, <1>7, <3>1, BlocksDiffer, ClustersAre
    <3> QED
      BY <1>1, <3>2 DEF OnlyIn
  <2>2. PICK a, b : a = card.data[c] /\ b = view.data[c]
    OBVIOUS
  <2>3. PICK D, R : D = 0 .. ClusterSize - 1 /\ R = {Nothing} \cup File \X Position
    OBVIOUS
  <2>4. a \in [D -> R] /\ b \in [D -> R]
    BY <2>2, <2>3 DEF Store
  <2>5. \A i \in D : a[i] = b[i]
    BY <2>1, <2>2, <2>3
  <2>6. a = b
    BY <2>4, <2>5
  <2> QED
    BY <2>2, <2>6
<1> QED
  BY <1>5, <1>6, <1>7

\* A write past the cache fails, and bytes of the file may be lost.
LEMMA LeftSpoiled ==
  ASSUME IInv, IInv', NEW w \in File, w = who, O \in Object, O = obj[w], O.open,
         NEW P \in Trails, NEW Q \in Trails, Leaves(P, Q),
         who' = None, got' = {}, obj' = obj, spoiled' = spoiled \cup {w},
         view'.fat = view.fat, view'.entry = view.entry,
         \A f \in File : f # w => SameAlong(view, view', P[f]),
         adrift \subseteq adrift', adrift' \subseteq adrift \cup {w}, Moved => w \in adrift',
         Cuts({}), card' = card
  PROVE  \E P2 \in Trails, Q2 \in Trails : Sound(P2, Q2)'
<1>1. Ground(w, P, Q) /\ P[w] \in Trail /\ Simple(P[w]) /\ Base(view, O, cut, spoiled, w, P[w], O.size) /\ O.size \in Nat
  BY DEF Leaves, Object
<1>2. PICK S \in Trails : Ground(w, P, S)'
  <2>1. Anchored(view, cache, obj[w], cut, spoiled, w, P[w])
    BY <1>1 DEF Anchored
  <2>2. \A f \in File : f # w =>
           /\ obj'[f] = obj[f] /\ view'.entry[f] = view.entry[f] /\ SameAlong(view, view', P[f])
           /\ (f \in adrift => f \in adrift') /\ (f \in spoiled <=> f \in spoiled')
    OBVIOUS
  <2>3. SizeOf(view, obj[w], w) <= SizeOf(view', obj'[w], w)
    BY <1>1 DEF SizeOf
  <2>4. \A c \in Cluster : ~(view.fat[c] # Free /\ view'.fat[c] = Free)
    OBVIOUS
  <2>5. {} \in SUBSET {w} /\ w \in spoiled'
    OBVIOUS
  <2> QED
    BY <1>1, <2>1, <2>2, <2>3, <2>4, <2>5, GroundStep
<1>3. Base(view', O, cut', spoiled', w, P[w], O.size)
  <2>1. w \notin cut' => w \notin cut \/ ~O.dirDirty
    BY DEF Cuts
  <2>2. Entered(view.entry[w], O, cut, w) /\ Near(P[w], O.cur) /\ Links(view.fat, HeadOf(view, O, w), P[w])
    BY <1>1 DEF Base
  <2>3. Entered(view'.entry[w], O, cut', w)
    <3>1. O.dirDirty \in BOOLEAN
      BY DEF Object
    <3>2. w \notin cut' \/ ~O.dirDirty => w \notin cut \/ ~O.dirDirty
      BY <2>1, <3>1
    <3> QED
      BY <2>2, <3>2 DEF Entered
  <2>4. Links(view'.fat, HeadOf(view', O, w), P[w])
    BY <2>2 DEF HeadOf
  <2>5. w \in spoiled'
    OBVIOUS
  <2> QED
    BY <2>2, <2>3, <2>4, <2>5 DEF Base
<1>4. w \notin adrift' => Reach(view', O, adrift', spoiled', w, P[w])
  BY DEF Reach
<1>5. Sound(P, S)'
  BY <1>2, <1>3, <1>4, LeftGoes
<1> QED
  BY <1>5

\* A transfer past the cache fails.
LEMMA PastCacheFailsSound ==
  ASSUME ChainInv, IInv', PastCacheFails, ~broken'
  PROVE  \E P \in Trails, Q \in Trails : Sound(P, Q)'
<1>1. who' = None /\ got' = {} /\ obj' = obj /\ Cuts({})
      /\ adrift' = (IF Moved THEN adrift \cup {who} ELSE adrift)
  BY DEF PastCacheFails, Failing, CallFails
<1>2. CASE Doing("copy") /\ UNCHANGED <<volume, spoiled>>
  <2>1. view' = view /\ card' = card /\ spoiled' = spoiled
    BY <1>2 DEF volume
  <2>2. "copy" \in FailDo /\ Doing("copy") /\ ~Tears
    BY <1>2 DEF FailDo, QuietDo, Tears, Doing
  <2>4. /\ who \in File /\ O \in Object /\ O = obj[who] /\ IInv
        /\ \E P \in Trails, Q \in Trails : Leaves(P, Q)
    BY <2>2, LeftAre
  <2>5. PICK w \in File, P \in Trails, Q \in Trails : w = who /\ Leaves(P, Q)
    BY <2>4
  <2>6. adrift \subseteq adrift' /\ (Moved => w \in adrift')
    BY <1>1, <2>5
  <2> QED
    BY <1>1, <2>1, <2>4, <2>5, <2>6, LeftSame
<1>3. CASE /\ Doing("fill") /\ O.cur \in Cluster
           /\ \/ card' = card /\ view' = IF Hit(Here) THEN card ELSE view
              \/ card' = Written(card) /\ view' = Written(view)
           /\ spoiled' = IF (Hit(Here) /\ cache.dirty) \/ who \in adrift
                         THEN spoiled \cup {who} ELSE spoiled
  <2>1. /\ who \in File /\ O \in Object /\ O = obj[who] /\ IsVolume(view) /\ IsVolume(card)
        /\ Coherent(view, card, cache) /\ IInv /\ Arg \in Nat \ {0}
        /\ O.cur \in Nat /\ O.first \in Nat /\ O.size \in Nat /\ O.pos \in Nat /\ got = {} /\ O.open
    BY <1>3, FillingIs
  <2>2. PICK P \in Trails, Q \in Trails :
          /\ Ground(who, P, Q) /\ P[who] \in Trail /\ Simple(P[who])
          /\ Base(view, O, cut, spoiled, who, P[who], O.size) /\ Reach(view, O, adrift, spoiled, who, P[who])
          /\ Tracks(O, who, adrift, At(P[who], Index(O.pos)), Arg)
          /\ \E i \in Nat : i < P[who].n /\ P[who].at[i] = O.cur
          /\ who \notin adrift => Index(O.pos) < P[who].n /\ P[who].at[Index(O.pos)] = O.cur
    BY <1>3, FillingIs
  <2>3. PICK w \in File : w = who
    BY <2>1
  <2>4. Leaves(P, Q)
    <3>1. Moved \/ Placed(O, adrift, who, P[who])
      BY <1>3, <2>1, <2>2, PieceLeft
    <3> QED
      BY <2>2, <3>1 DEF Leaves
  <2>5. adrift \subseteq adrift' /\ adrift' \subseteq adrift \cup {w} /\ (Moved => w \in adrift')
        /\ adrift' \cup {w} = adrift \cup {w}
    BY <1>1, <2>3
  <2>6. spoiled' \in {spoiled, spoiled \cup {w}} /\ (w \in adrift => w \in spoiled')
    BY <1>3, <2>3
  <2>7. CASE card' = card /\ view' = IF Hit(Here) THEN card ELSE view
    <3>1. /\ view'.fat = view.fat /\ view'.entry = view.entry
          /\ \A c \in Cluster : c # O.cur => view'.data[c] = view.data[c]
      <4>1. view \in Store /\ card \in Store
        BY DEF ChainInv, TypeOK
      <4> QED
        BY <1>3, <2>1, <2>7, <4>1, CardElsewhere
    <3>2. CASE spoiled' = spoiled \cup {w}
      <4>1. \A f \in File : f # w => SameAlong(view, view', P[f])
        <5> SUFFICES ASSUME NEW f \in File, f # w, NEW j \in Nat, j < P[f].n
                     PROVE  view'.fat[P[f].at[j]] = view.fat[P[f].at[j]] /\ view'.data[P[f].at[j]] = view.data[P[f].at[j]]
          BY DEF SameAlong
        <5>1. P[f].at[j] \in Cluster
          BY <2>2, <2>3 DEF Ground, Fine, Base, Links
        <5>2. P[f].at[j] # O.cur
          BY <2>2, <2>3 DEF Ground, Apart
        <5> QED
          BY <3>1, <5>1, <5>2
      <4> QED
        BY <1>1, <2>1, <2>3, <2>4, <2>5, <2>7, <3>1, <3>2, <4>1, LeftSpoiled
    <3>3. CASE spoiled' # spoiled \cup {w}
      <4>1. ~(Hit(Here) /\ cache.dirty)
        BY <1>3, <2>3, <3>3
      <4>2. view' = view /\ spoiled' = spoiled
        BY <2>1, <2>6, <2>7, <3>3, <4>1 DEF Coherent
      <4> QED
        BY <1>1, <2>1, <2>3, <2>4, <2>5, <2>7, <4>2, LeftSame
    <3> QED
      BY <3>2, <3>3
  <2>8. CASE card' = Written(card) /\ view' = Written(view)
    <3>1. PICK i \in Nat : i < P[w].n /\ P[w].at[i] = O.cur
      BY <2>2, <2>3
    <3>2. obj'[w].open /\ obj'[w].size = O.size /\ \A f \in File : f # w => obj'[f] = obj[f]
      BY <1>1, <2>1, <2>3
    <3>3. PICK S \in Trails : Ground(w, P, S)'
      BY <1>1, <1>3, <2>1, <2>2, <2>3, <2>5, <2>6, <2>8, <3>1, <3>2, FillGround
    <3>4. view'.fat = view.fat /\ view'.entry = view.entry
      BY <1>3, <2>1, <2>8, WrittenIs
    <3>5. PICK x \in Trail : x = P[w]
      BY <2>2, <2>3
    <3>6. Links(view.fat, HeadOf(view, O, w), x) /\ Chain(view.fat, x) /\ Entered(view.entry[w], O, cut, w)
          /\ Near(x, O.cur) /\ (w \notin spoiled => Holds(view, w, x, O.size))
      <4>1. Links(view.fat, HeadOf(view, O, w), x)
        BY <2>2, <2>3, <3>5 DEF Base
      <4>2. Chain(view.fat, x)
        BY <4>1, LinksChain
      <4> QED
        BY <2>1, <2>2, <2>3, <3>5, <4>1, <4>2 DEF Base
    <3>7. ASSUME NEW l \in Nat, w \notin spoiled', Adopts => l <= O.pos, Holds(view, w, x, l)
          PROVE  Holds(view', w, x, l)
      <4>1. w \notin adrift
        BY <2>6, <3>7
      <4>2. \A j \in Nat : j < x.n /\ x.at[j] = O.cur => j = Index(O.pos)
        <5>1. Index(O.pos) \in Nat
          BY <2>1, PlaceIs
        <5> QED
          BY <2>2, <2>3, <3>5, <4>1, <5>1 DEF Simple
      <4>3. Holds(view, who, x, l) /\ Arg \in Nat
        BY <2>1, <2>3, <3>7
      <4>4. Holds(Written(view), who, x, l)
        BY <1>3, <2>1, <3>6, <3>7, <4>2, <4>3, WrittenHolds
      <4> QED
        BY <2>3, <2>8, <4>4
    <3>8. Base(view', O, cut', spoiled', w, x, O.size)
      <4>1. w \notin cut' => w \notin cut \/ ~O.dirDirty
        BY <1>1, <2>1, <2>3 DEF Cuts
      <4>2. Entered(view'.entry[w], O, cut', w)
        <5>1. w \notin cut' \/ ~O.dirDirty => w \notin cut \/ ~O.dirDirty
          BY <4>1, Zenon
        <5> QED
          BY <3>4, <3>6, <5>1 DEF Entered
      <4>3. w \notin spoiled' => Holds(view', w, x, O.size)
        <5>1. Adopts => O.size <= O.pos
          BY <2>1 DEF Adopts
        <5>2. w \notin spoiled' => w \notin spoiled
          BY <2>6
        <5> QED
          BY <2>1, <3>6, <3>7, <5>1, <5>2
      <4>4. Links(view'.fat, HeadOf(view', O, w), x)
        BY <2>1, <3>4, <3>6 DEF HeadOf
      <4> QED
        BY <2>1, <3>6, <4>2, <4>3, <4>4 DEF Base
    <3>9. w \notin adrift' => Reach(view', O, adrift', spoiled', w, x)
      <4>1. ASSUME w \notin adrift', w \notin spoiled' PROVE Holds(view', w, x, O.pos)
        <5>1. w \notin adrift /\ w \notin spoiled
          BY <2>5, <2>6, <4>1
        <5>2. Holds(view, w, x, O.pos)
          BY <2>1, <2>2, <2>3, <3>5, <5>1 DEF Reach
        <5>3. Adopts => O.pos <= O.pos
          BY <2>1
        <5> QED
          BY <2>1, <3>7, <4>1, <5>2, <5>3
      <4> QED
        BY <4>1 DEF Reach
    <3>10. Sound(P, S)'
      BY <1>1, <2>1, <2>3, <2>4, <2>5, <3>3, <3>5, <3>8, <3>9, LeftGoes
    <3> QED
      BY <3>10
  <2> QED
    BY <1>3, <2>7, <2>8
<1> QED
  BY <1>2, <1>3 DEF PastCacheFails

-----------------------------------------------------------------------------
(***************************************************************************)
(* Loss of power                                                           *)
(***************************************************************************)
\* Power is lost: the card is what is left.
LEMMA PowerLossSound ==
  ASSUME ChainInv, IInv', PowerLoss, ~broken'
  PROVE  \E P \in Trails, Q \in Trails : Sound(P, Q)'
<1>1. /\ view' = card /\ card' = card /\ obj' = [f \in File |-> Closed] /\ who' = None /\ got' = {}
      /\ adrift' = {} /\ cut' = {} /\ cut = {} /\ ~broken /\ spoiled' = spoiled
  BY DEF PowerLoss
<1>2. PICK P \in Trails, Q \in Trails : Sound(P, Q)
  BY <1>1 DEF ChainInv
<1>3. Backed(card, view, obj, cut, spoiled, Q, P)
  BY <1>2 DEF Sound, Ground
<1>4. ~Closed.open
  BY ClosedIs
<1>5. ASSUME NEW f \in File
      PROVE  /\ Links(card.fat, HeadIn(card, f), Q[f]) /\ Q[f] \in Trail
             /\ card.entry[f].used =>
                  /\ card.entry[f].first = 0 => card.entry[f].size = 0
                  /\ f \notin spoiled => Holds(card, f, Q[f], card.entry[f].size)
  BY <1>1, <1>3 DEF Backed, Told, Trails
<1>6. ASSUME NEW f \in File PROVE Told(card, SizeOf(card, Closed, f), spoiled, f, Q[f])
  <2>1. IsVolume(card)
    BY DEF ChainInv, IInv, Coherent
  <2>2. card.entry[f].size \in Nat
    BY <2>1, FileHere
  <2>3. card.entry[f].used => card.entry[f].size <= SizeOf(card, Closed, f)
    BY <1>4, <2>2 DEF SizeOf
  <2> QED
    BY <1>5, <2>3 DEF Told
<1>7. ASSUME NEW f \in File PROVE Fine(card, Closed, {}, spoiled, {}, f, Q[f])
  <2>1. Base(card, Closed, {}, spoiled, f, Q[f], Closed.size)
    BY <1>4, <1>5 DEF Base, HeadOf
  <2>2. Placed(Closed, {}, f, Q[f]) /\ Reach(card, Closed, {}, spoiled, f, Q[f])
    BY <1>4 DEF Placed, Reach
  <2> QED
    BY <2>1, <2>2 DEF Fine
<1>8. ASSUME NEW f \in File, NEW i \in Nat, i < Q[f].n PROVE card.fat[Q[f].at[i]] # Free
  BY <1>5, <1>8, LinkedNotFree
<1>9. PICK ob : ob = [f \in File |-> Closed]
  OBVIOUS
<1>10. \A f \in File : ob[f] = Closed
  BY <1>9
<1>11. Apart(Q, Q)
  BY <1>3 DEF Backed
<1>12. Backed(card, card, ob, {}, spoiled, Q, Q)
  BY <1>6, <1>8, <1>10, <1>11 DEF Backed
<1>13. obj' = ob
  BY <1>1, <1>9
<1>14. Backed(card, view, obj, cut, spoiled, Q, Q)'
  BY <1>1, <1>12, <1>13
<1>15. \A f \in File : Fine(view', obj'[f], cut', spoiled', adrift', f, Q[f])
  BY <1>1, <1>7, <1>10, <1>13
<1>16. Ground(None, Q, Q)'
  BY <1>11, <1>14, <1>15 DEF Ground
<1> QED
  BY <1>1, <1>16 DEF Sound

\* between calls
LEMMA BetweenCalls ==
  ASSUME ChainInv, Followed
  PROVE  /\ who = None /\ got = {} /\ IInv /\ IsVolume(view) /\ obj \in [File -> Object]
         /\ \E P \in Trails, Q \in Trails : \A f \in File :
              Ground(f, P, Q) /\ P[f] \in Trail /\ Fine(view, obj[f], cut, spoiled, adrift, f, P[f])
<1>1. who = None /\ ~broken /\ IInv
  BY DEF ChainInv, TypeOK, Followed, Idle
<1>2. PICK P \in Trails, Q \in Trails : Sound(P, Q)
  BY <1>1 DEF ChainInv
<1>3. got = {} /\ Ground(None, P, Q)
  BY <1>1, <1>2 DEF Sound
<1>4. \A f \in File : f # None
  BY NoneAssumption
<1>5. \A f \in File : Ground(f, P, Q) /\ P[f] \in Trail /\ Fine(view, obj[f], cut, spoiled, adrift, f, P[f])
  BY <1>3, <1>4 DEF Ground, Trails
<1> QED
  BY <1>1, <1>3, <1>5 DEF IInv, Coherent

\* A call begins.
LEMMA StartsSound ==
  ASSUME ChainInv, NEW f \in File, NEW s, Starts(f, s) \/ (s = <<>> /\ Starts(None, s)),
         s # <<>> =>
           \/ s \in Seq(Easy(obj[f].size)) /\ SizeOf(view, obj[f], f) = obj[f].size
           \/ Closing' \/ Opening' \/ Setting'
           \/ \A P \in Trails, Q \in Trails :
                Fine(view, obj[f], cut, spoiled, adrift, f, P[f]) => Phase(P, Q)'
  PROVE  \E P \in Trails, Q \in Trails : Sound(P, Q)'
<1>1. Followed /\ todo' = s /\ who' = (IF s = <<>> THEN None ELSE f)
      /\ UNCHANGED <<view, card, obj, got, adrift, spoiled, cut>>
  BY DEF Starts, volume
<1>2. /\ got = {}
      /\ \E P \in Trails, Q \in Trails : \A g \in File :
           Ground(g, P, Q) /\ P[g] \in Trail /\ Fine(view, obj[g], cut, spoiled, adrift, g, P[g])
  BY <1>1, BetweenCalls
<1>3. PICK P \in Trails, Q \in Trails : \A g \in File :
           Ground(g, P, Q) /\ P[g] \in Trail /\ Fine(view, obj[g], cut, spoiled, adrift, g, P[g])
  BY <1>2
<1>4. Ground(f, P, Q)'
  <2>1. Ground(f, P, Q)
    BY <1>3
  <2> QED
    BY <1>1, <2>1 DEF Ground
<1>5. Fine(view', obj'[f], cut', spoiled', adrift', f, P[f]) /\ got' = {}
  BY <1>1, <1>2, <1>3
<1>6. CASE s = <<>>
  BY <1>1, <1>4, <1>5, <1>6, EndsSound
<1>7. CASE s # <<>> /\ s \in Seq(Easy(obj[f].size)) /\ SizeOf(view, obj[f], f) = obj[f].size
  <2>1. who' = f /\ todo' \in Seq(Easy(obj'[f].size)) /\ SizeOf(view', obj'[f], f) = obj'[f].size
    BY <1>1, <1>7
  <2> QED
    BY <1>4, <1>5, <2>1, QuietGoes
<1>8. CASE s # <<>> /\ (Closing' \/ Opening' \/ Setting')
  <2>1. who' = f
    BY <1>1, <1>8
  <2> QED
    BY <1>4, <1>5, <1>8, <2>1, QuietGoes
<1>9. CASE s # <<>> /\ \A S \in Trails, T \in Trails :
                Fine(view, obj[f], cut, spoiled, adrift, f, S[f]) => Phase(S, T)'
  <2>1. who' = f /\ Phase(P, Q)'
    BY <1>1, <1>3, <1>9
  <2> QED
    BY <1>4, <2>1, GoesSound
<1> QED
  BY <1>6, <1>7, <1>8, <1>9

-----------------------------------------------------------------------------
(***************************************************************************)
(* A call begins                                                           *)
(***************************************************************************)
LEMMA RefuseSound ==
  ASSUME ChainInv, IInv', NEW f \in File, Refuses
  PROVE  \E P \in Trails, Q \in Trails : Sound(P, Q)'
<1>1. PICK s : s = <<>>
  OBVIOUS
<1>2. s = <<>> /\ Starts(None, s)
  BY <1>1 DEF Refuses
<1> QED
  BY <1>2, StartsSound

\* a call that changes no chain begins
LEMMA EasyStarts ==
  ASSUME ChainInv, IInv', NEW f \in File, obj[f].open, NEW s \in Seq(Easy(obj[f].size)), Starts(f, s)
  PROVE  \E P \in Trails, Q \in Trails : Sound(P, Q)'
<1>1. SizeOf(view, obj[f], f) = obj[f].size
  BY DEF SizeOf
<1> QED
  BY <1>1, StartsSound

\* who and what the first task is for
LEMMA StartsIs ==
  ASSUME ChainInv, NEW f \in File, NEW s \in Seq(Plain), s # <<>>, Starts(f, s)
  PROVE  /\ who' = f /\ todo' = s /\ O' = obj[f] /\ obj[f] \in Object
         /\ got' = {} /\ view' = view /\ obj' = obj /\ adrift' = adrift /\ spoiled' = spoiled /\ cut' = cut
<1>1. Followed /\ todo' = s /\ who' = f
      /\ UNCHANGED <<view, obj, got, adrift, spoiled, cut>>
  BY DEF Starts, volume
<1>2. got = {} /\ obj \in [File -> Object]
  BY <1>1, BetweenCalls
<1> QED
  BY <1>1, <1>2 DEF O

LEMMA OpenSound ==
  ASSUME ChainInv, IInv', NEW f \in File, NEW m \in Modes, Open(f, m)
  PROVE  \E P \in Trails, Q \in Trails : Sound(P, Q)'
<1>1. m \in SUBSET Flags /\ ~obj[f].open
  BY ModesAssumption DEF Flags, Open
<1>2. Task("find", m) \in Plain /\ Task("create", 0) = Task("create", 0) /\ Task("flush", 0) \in Plain
  <2>1. 0 \in Nat
    OBVIOUS
  <2> QED
    BY <1>1, <2>1, TaskIs
<1>3. CASE view.entry[f].used /\ Starts(f, <<Task("find", m)>>)
  <2>1. PICK s : s = <<Task("find", m)>>
    OBVIOUS
  <2>2. s \in Seq(Plain) /\ s # <<>> /\ Starts(f, s)
    BY <1>2, <1>3, <2>1, ListIs
  <2>3. who' = f /\ todo' = s /\ O' = obj[f] /\ view' = view
    BY <2>2, StartsIs
  <2>4. Opening'
    BY <1>1, <1>3, <2>1, <2>3 DEF Opening
  <2> QED
    BY <2>2, <2>4, StartsSound
<1>4. CASE ~view.entry[f].used /\ Starts(f, <<Task("create", 0), Task("flush", 0), Task("find", m)>>)
  <2>1. PICK s : s = <<Task("create", 0), Task("flush", 0), Task("find", m)>>
    OBVIOUS
  <2>2. s # <<>> /\ Starts(f, s)
    BY <1>4, <2>1
  <2>3. who' = f /\ todo' = s /\ O' = obj[f] /\ view' = view
    BY <2>2 DEF Starts, O, volume
  <2>4. Opening'
    BY <1>1, <1>4, <2>1, <2>3 DEF Opening
  <2> QED
    BY <2>2, <2>4, StartsSound
<1> QED
  BY <1>3, <1>4 DEF Open

LEMMA ThreeTasks ==
  \A a \in Plain, b \in Plain, c \in Plain : <<a, b>> \o <<c>> = <<a, b, c>>
<1> SUFFICES ASSUME NEW a \in Plain, NEW b \in Plain, NEW c \in Plain PROVE <<a, b>> \o <<c>> = <<a, b, c>>
  OBVIOUS
<1>1. <<a, b>> \in Seq(Plain) /\ <<c>> \in Seq(Plain) /\ <<a, b, c>> \in Seq(Plain)
  BY ListIs
<1>2. <<a, b>> \o <<c>> \in Seq(Plain)
  BY <1>1, JoinIs
<1>3. Len(<<a, b>> \o <<c>>) = 3 /\ Len(<<a, b, c>>) = 3
  BY <1>1, ConcatProperties
<1>4. \A i \in 1 .. 3 : (<<a, b>> \o <<c>>)[i] = <<a, b, c>>[i]
  <2>1. \A i \in 1 .. 3 : (<<a, b>> \o <<c>>)[i] = IF i <= 2 THEN <<a, b>>[i] ELSE <<c>>[i - 2]
    BY <1>1, ConcatProperties
  <2>2. (<<a, b>> \o <<c>>)[1] = a /\ (<<a, b>> \o <<c>>)[2] = b /\ (<<a, b>> \o <<c>>)[3] = c
    BY <2>1
  <2> QED
    BY <2>2
<1> QED
  BY <1>1, <1>2, <1>3, <1>4, SeqEqual

LEMMA CloseSound ==
  ASSUME ChainInv, IInv', NEW f \in File, Close(f)
  PROVE  \E P \in Trails, Q \in Trails : Sound(P, Q)'
<1>1. PICK s : s = Sync \o <<Task("shut", 0)>>
  OBVIOUS
<1>2. s = <<Task("sync", 0), Task("flush", 0), Task("shut", 0)>>
  <2>1. 0 \in Nat
    OBVIOUS
  <2>2. Task("sync", 0) \in Plain /\ Task("flush", 0) \in Plain /\ Task("shut", 0) \in Plain
    BY <2>1, TaskIs
  <2> QED
    BY <1>1, <2>2, ThreeTasks DEF Sync
<1>3. s # <<>> /\ Starts(f, s) /\ obj[f].open
  BY <1>1, <1>2 DEF Close
<1>4. who' = f /\ todo' = s /\ O' = obj[f]
  BY <1>3 DEF Starts, O, volume
<1>5. Closing'
  BY <1>2, <1>3, <1>4 DEF Closing
<1> QED
  BY <1>3, <1>5, StartsSound

LEMMA SyncFileSound ==
  ASSUME ChainInv, IInv', NEW f \in File, SyncFile(f) \/ DirEntry(f) \/ Timestamp(f)
  PROVE  \E P \in Trails, Q \in Trails : Sound(P, Q)'
<1>1. obj[f] \in Object /\ obj[f].size \in Nat
  BY DEF ChainInv, IInv, Object
<1>2. PICK l \in Nat : l = obj[f].size
  BY <1>1
<1>3. Sync \in Seq(Easy(l))
  BY SyncEasy
<1>4. Task("look", 0) \in Easy(l) /\ Task("stamp", 0) \in Easy(l)
  BY EasyIs
<1>5. <<Task("look", 0)>> \in Seq(Easy(l)) /\ <<Task("stamp", 0)>> \in Seq(Easy(l))
  BY <1>4, OneOf
<1>6. Sync \o <<Task("look", 0)>> \in Seq(Easy(l)) /\ <<Task("stamp", 0)>> \o Sync \in Seq(Easy(l))
  BY <1>3, <1>5, EasyJoin
<1>7. PICK s \in Seq(Easy(l)) : Starts(f, s) /\ obj[f].open
  BY <1>3, <1>6 DEF SyncFile, DirEntry, Timestamp
<1> QED
  BY <1>2, <1>7, EasyStarts

LEMMA SeekStarts ==
  ASSUME ChainInv, IInv', NEW f \in File, NEW p \in Places, SeekSet(f, p)
  PROVE  \E P \in Trails, Q \in Trails : Sound(P, Q)'
<1>1. obj[f] \in Object /\ obj[f].size \in Nat /\ p \in Nat
  BY CountAssumption DEF ChainInv, IInv, Object
<1>2. PICK l \in Nat : l = obj[f].size
  BY <1>1
<1>3. <<Task("seek", p)>> \in Seq(Easy(l))
  BY <1>1, EasyIs, OneOf
<1>4. PICK s \in Seq(Easy(l)) : Starts(f, s) /\ obj[f].open
  BY <1>3 DEF SeekSet
<1> QED
  BY <1>2, <1>4, EasyStarts

LEMMA RangeStarts ==
  ASSUME ChainInv, IInv', NEW f \in File, ContiguousRange(f)
  PROVE  \E P \in Trails, Q \in Trails : Sound(P, Q)'
<1>1. obj[f] \in Object /\ obj[f].size \in Nat /\ obj[f].first \in Nat
  BY DEF ChainInv, IInv, Object
<1>2. PICK l \in Nat : l = obj[f].size
  BY <1>1
<1>3. <<Task("range", obj[f].first)>> \in Seq(Easy(l))
  BY <1>1, EasyIs, OneOf
<1>4. CASE Refuses
  BY <1>4, RefuseSound
<1>5. CASE ~Refuses
  <2>1. PICK s \in Seq(Easy(l)) : Starts(f, s) /\ obj[f].open
    BY <1>3, <1>5 DEF ContiguousRange
  <2> QED
    BY <1>2, <2>1, EasyStarts
<1> QED
  BY <1>4, <1>5

LEMMA RewindSound ==
  ASSUME ChainInv, IInv', NEW f \in File, Rewind(f)
  PROVE  \E P \in Trails, Q \in Trails : Sound(P, Q)'
<1>1. /\ obj[f].open /\ Followed /\ obj' = [obj EXCEPT ![f] = [obj[f] EXCEPT !.cur = 0, !.pos = 0]]
      /\ adrift' = adrift \ {f} /\ UNCHANGED <<view, card, cut, spoiled, who, got>>
  BY DEF Rewind, volume, call
<1>2. /\ who = None /\ got = {} /\ IInv /\ IsVolume(view) /\ obj \in [File -> Object]
      /\ \E P \in Trails, Q \in Trails : \A g \in File :
           Ground(g, P, Q) /\ P[g] \in Trail /\ Fine(view, obj[g], cut, spoiled, adrift, g, P[g])
  BY <1>1, BetweenCalls
<1>3. PICK P \in Trails, Q \in Trails : \A g \in File :
           Ground(g, P, Q) /\ P[g] \in Trail /\ Fine(view, obj[g], cut, spoiled, adrift, g, P[g])
  BY <1>2
<1>4. PICK o \in Object, x \in Trail : o = obj[f] /\ x = P[f]
  BY <1>2, <1>3
<1>5. PICK u : u = [o EXCEPT !.cur = 0, !.pos = 0]
  OBVIOUS
<1>6. SameBut(u, o) /\ u.cur = 0 /\ u.pos = 0
  <2>1. \A c \in Nat, p \in Nat : LET m == [o EXCEPT !.cur = c, !.pos = p] IN
          SameBut(m, o) /\ m.cur = c /\ m.pos = p
    BY PlaceSet
  <2>2. PICK c \in Nat : c = 0
    OBVIOUS
  <2>3. u = [o EXCEPT !.cur = c, !.pos = c]
    BY <1>5, <2>2
  <2>4. SameBut(u, o) /\ u.cur = c /\ u.pos = c
    BY <2>1, <2>3
  <2> QED
    BY <2>2, <2>4
<1>7. obj'[f] = u /\ \A g \in File : g # f => obj'[g] = obj[g]
  BY <1>1, <1>2, <1>4, <1>5
<1>8. PICK R \in Trails : Ground(f, P, R)'
  <2>1. Ground(f, P, Q) /\ adrift' \cup {f} = adrift \cup {f} /\ SameBut(obj'[f], obj[f])
    BY <1>1, <1>3, <1>4, <1>6, <1>7
  <2> QED
    BY <1>1, <1>2, <1>7, <2>1, PlaceGround
<1>9. Base(view, u, cut, spoiled, f, x, u.size)
  <2>1. Base(view, o, cut, spoiled, f, x, o.size) /\ o.open /\ u.size = o.size
    BY <1>1, <1>3, <1>4, <1>6 DEF Fine, SameBut
  <2>2. Near(x, u.cur)
    BY <1>6 DEF Near
  <2> QED
    BY <1>6, <2>1, <2>2, BaseMoved
<1>10. Placed(u, adrift', f, x)
  BY <1>6 DEF Placed, AtPos
<1>11. Reach(view, u, adrift', spoiled, f, x)
  BY <1>6, HoldsNone DEF Reach
<1>12. Fine(view', obj'[f], cut', spoiled', adrift', f, P[f])
  BY <1>1, <1>4, <1>7, <1>9, <1>10, <1>11 DEF Fine
<1> QED
  BY <1>1, <1>2, <1>8, <1>12, EndsSound

\* an object that lost its place stays within the bound on positions
LEMMA WithinFits ==
  ASSUME ChainInv, NEW f \in File, NEW n \in Nat, Within(f, n)
  PROVE  f \in adrift => Fits(obj[f], n)
<1>1. obj[f].pos \in Nat /\ obj[f].size \in Nat
  BY DEF ChainInv, IInv, Object
<1> SUFFICES ASSUME f \in adrift PROVE Fits(obj[f], n)
  OBVIOUS
<1> DEFINE p == obj[f].pos
           s == obj[f].size
           m == Max({p, s})
<1>2. m + n \in Position
  BY DEF Within
<1>3. m = IF p >= s THEN p ELSE s
  BY <1>1, MostIs
<1>4. Full \in Nat /\ m + n <= Full
  BY <1>2, FullIs
<1>5. p \in Nat /\ s \in Nat
  BY <1>1
<1> HIDE DEF m, p, s
<1>6. p + n <= Full /\ s + n <= Full
  BY <1>3, <1>4, <1>5
<1> QED
  BY <1>6 DEF Fits, p, s

\* the object has its place, or may go on without
LEMMA StartTracks ==
  ASSUME NEW f \in File, NEW o, o.open, NEW v, NEW ct, NEW sp, NEW x, NEW n,
         Fine(v, o, ct, sp, adrift, f, x), f \in adrift => Fits(o, n)
  PROVE  Tracks(o, f, adrift, AtPos(x, o.pos), n)
  BY DEF Fine, Placed, Tracks

LEMMA ReadStarts ==
  ASSUME ChainInv, IInv', NEW f \in File, NEW n \in Sizes, Read(f, n)
  PROVE  \E P \in Trails, Q \in Trails : Sound(P, Q)'
<1> DEFINE o == obj[f]
           m == IF o.pos <= o.size THEN Min({n, o.size - o.pos}) ELSE n
<1>1. o.open /\ Within(f, m) /\ IF "read" \in o.mode THEN Starts(f, <<Task("read", m)>>) ELSE Refuses
  BY DEF Read
<1>2. m \in Nat
  <2>1. n \in Nat /\ o.pos \in Nat /\ o.size \in Nat
    BY CountAssumption DEF ChainInv, IInv, Object
  <2>2. CASE o.pos <= o.size
    <3> DEFINE a == o.size - o.pos
    <3>1. a \in Nat
      BY <2>1, <2>2
    <3>2. Min({n, a}) \in Nat
      BY <2>1, <3>1, LeastIs
    <3> QED
      BY <2>2, <3>2
  <2>3. CASE ~(o.pos <= o.size)
    BY <2>1, <2>3
  <2> QED
    BY <2>2, <2>3
<1>3. PICK k \in Nat : k = m
  BY <1>2
<1>4. obj[f].open /\ Within(f, k) /\ IF "read" \in obj[f].mode THEN Starts(f, <<Task("read", k)>>) ELSE Refuses
  BY <1>1, <1>3
<1> HIDE DEF o, m
<1>5. CASE Refuses
  BY <1>5, RefuseSound
<1>6. CASE Starts(f, <<Task("read", k)>>)
  <2>1. PICK s : s = <<Task("read", k)>>
    OBVIOUS
  <2>2. s \in Seq(Plain) /\ s # <<>> /\ Starts(f, s)
    BY <1>6, <2>1, TaskIs, ListIs
  <2>3. /\ who' = f /\ todo' = s /\ O' = obj[f] /\ obj[f] \in Object
        /\ got' = {} /\ view' = view /\ obj' = obj /\ adrift' = adrift /\ spoiled' = spoiled /\ cut' = cut
    BY <2>2, StartsIs
  <2>4. f \in adrift => Fits(obj[f], k)
    BY <1>4, WithinFits
  <2>5. ASSUME NEW P \in Trails, NEW Q \in Trails, Fine(view, obj[f], cut, spoiled, adrift, f, P[f])
        PROVE  Phase(P, Q)'
    <3>1. Tracks(obj[f], f, adrift, AtPos(P[f], obj[f].pos), k)
      BY <1>4, <2>4, <2>5, StartTracks
    <3>2. Base(view, obj[f], cut, spoiled, f, P[f], obj[f].size) /\ Reach(view, obj[f], adrift, spoiled, f, P[f])
      BY <2>5 DEF Fine
    <3>3. Reading(P[f])'
      BY <1>4, <2>1, <2>3, <3>1, <3>2 DEF Reading, Intact
    <3> QED
      BY <2>3, <3>3 DEF Phase
  <2> QED
    BY <2>2, <2>5, StartsSound
<1> QED
  BY <1>4, <1>5, <1>6

LEMMA WriteStarts ==
  ASSUME ChainInv, IInv', NEW f \in File, NEW n \in Sizes, Write(f, n)
  PROVE  \E P \in Trails, Q \in Trails : Sound(P, Q)'
<1>1. n \in Nat \ {0} /\ obj[f] \in Object /\ obj[f].size \in Nat
  BY CountAssumption DEF ChainInv, IInv, Object
<1>2. PICK k \in Nat \ {0}, l \in Nat : k = n /\ l = obj[f].size
  BY <1>1
<1>3. f \in adrift => Fits(obj[f], k)
  BY <1>2, WithinFits DEF Write
<1>4. obj[f].open
  BY DEF Write
<1>5. Task("put", k) \in Plain /\ Task("seek", l) \in Plain
  BY TaskIs
<1>6. \/ Refuses \/ Starts(f, <<Task("seek", l)>> \o <<Task("put", k)>>) \/ Starts(f, <<>> \o <<Task("put", k)>>)
  BY <1>2 DEF Write
<1>7. \A s \in Seq(Plain) : <<>> \o s = s
  OBVIOUS
<1>8. PICK s \in Seq(Plain), t \in Seq(Plain) : s = <<Task("put", k)>> /\ t = <<Task("seek", l)>> \o <<Task("put", k)>>
  BY <1>5, ListIs, JoinIs
<1>9. s # <<>> /\ t # <<>>
  BY <1>5, <1>8, ListIs, ConsIs
<1>10. Refuses \/ Starts(f, s) \/ Starts(f, t)
  BY <1>6, <1>7, <1>8
<1>11. CASE Refuses
  BY <1>11, RefuseSound
<1>12. CASE Starts(f, s)
  <2>3. /\ who' = f /\ todo' = s /\ O' = obj[f] /\ obj[f] \in Object
        /\ got' = {} /\ view' = view /\ obj' = obj /\ adrift' = adrift /\ spoiled' = spoiled /\ cut' = cut
    BY <1>9, <1>12, StartsIs
  <2>5. ASSUME NEW P \in Trails, NEW Q \in Trails, Fine(view, obj[f], cut, spoiled, adrift, f, P[f])
        PROVE  Phase(P, Q)'
    <3>1. Tracks(obj[f], f, adrift, AtPos(P[f], obj[f].pos), k)
      BY <1>3, <1>4, <2>5, StartTracks
    <3>2. Base(view, obj[f], cut, spoiled, f, P[f], obj[f].size) /\ Reach(view, obj[f], adrift, spoiled, f, P[f])
      BY <2>5 DEF Fine
    <3>3. Writing(P[f], P, Q)'
      BY <1>4, <1>8, <2>3, <3>1, <3>2 DEF Writing, Intact
    <3> QED
      BY <2>3, <3>3 DEF Phase
  <2> QED
    BY <1>9, <1>12, <2>5, StartsSound
<1>13. CASE Starts(f, t)
  <2>3. /\ who' = f /\ todo' = t /\ O' = obj[f] /\ obj[f] \in Object
        /\ got' = {} /\ view' = view /\ obj' = obj /\ adrift' = adrift /\ spoiled' = spoiled /\ cut' = cut
    BY <1>9, <1>13, StartsIs
  <2>4. After(obj[f], f, adrift, s, l)
    BY <1>3, <1>8 DEF After
  <2>5. Setting'
    BY <1>4, <1>8, <2>3, <2>4 DEF Setting
  <2> QED
    BY <1>9, <1>13, <2>5, StartsSound
<1> QED
  BY <1>10, <1>11, <1>12, <1>13

\* a call that truncates begins
LEMMA CutStarts ==
  ASSUME ChainInv, IInv', NEW f \in File, NEW n \in Nat, obj[f].open, obj[f].size > 0, NEW r \in Seq(Easy(n)),
         NEW s, s = <<Task("seek", n)>> \o Cutting(obj[f].first, n, r), Starts(f, s)
  PROVE  \E P \in Trails, Q \in Trails : Sound(P, Q)'
<1>1. obj[f] \in Object /\ obj[f].first \in Nat
  BY DEF ChainInv, IInv, Object
<1>2. PICK R : R = Cutting(obj[f].first, n, r)
  OBVIOUS
<1>3. R \in Seq(Plain) /\ Task("seek", n) \in Plain
  BY <1>1, <1>2, CuttingIs, TaskIs
<1>4. s \in Seq(Plain) /\ s # <<>> /\ s = <<Task("seek", n)>> \o R
  BY <1>2, <1>3, ConsIs
<1>5. /\ who' = f /\ todo' = s /\ O' = obj[f]
      /\ got' = {} /\ view' = view /\ obj' = obj /\ adrift' = adrift /\ spoiled' = spoiled /\ cut' = cut
  BY <1>4, StartsIs
<1>6. After(obj[f], f, adrift, R, n)
  BY <1>2 DEF After
<1>7. Setting'
  BY <1>3, <1>4, <1>5, <1>6 DEF Setting
<1> QED
  BY <1>4, <1>7, StartsSound

LEMMA TruncateStarts ==
  ASSUME ChainInv, IInv', NEW f \in File, NEW n \in Places, Truncate(f, n)
  PROVE  \E P \in Trails, Q \in Trails : Sound(P, Q)'
<1>1. obj[f] \in Object /\ obj[f].size \in Nat /\ n \in Nat /\ obj[f].open
  BY CountAssumption DEF ChainInv, IInv, Object, Truncate
<1>2. CASE Refuses
  BY <1>2, RefuseSound
<1>3. CASE Starts(f, Truncated(obj[f], n))
  <2>1. CASE obj[f].size = 0
    <3>1. PICK s : s = <<>>
      OBVIOUS
    <3>2. Starts(f, s)
      BY <1>3, <2>1, <3>1 DEF Truncated
    <3> QED
      BY <3>1, <3>2, StartsSound
  <2>2. CASE obj[f].size > 0
    <3>1. PICK r \in Seq(Easy(n)) : Truncated(obj[f], n) = <<Task("seek", n)>> \o Cutting(obj[f].first, n, r)
      BY <1>1, <2>2, TruncatedList
    <3>2. PICK s : s = <<Task("seek", n)>> \o Cutting(obj[f].first, n, r) /\ Starts(f, s)
      BY <1>3, <3>1
    <3> QED
      BY <1>1, <2>2, <3>2, CutStarts
  <2> QED
    BY <1>1, <2>1, <2>2
<1> QED
  BY <1>2, <1>3 DEF Truncate

\* what follows a truncation to nothing
LEMMA CuttingJoin ==
  ASSUME NEW h \in Nat, NEW n \in Nat, NEW r \in Seq(Easy(n)), NEW t \in Seq(Easy(n))
  PROVE  /\ (<<Task("seek", n)>> \o Cutting(h, n, r)) \o t = <<Task("seek", n)>> \o Cutting(h, n, r \o t)
         /\ r \o t \in Seq(Easy(n))
<1>1. r \o t \in Seq(Easy(n))
  BY EasyJoin
<1>2. r \in Seq(Plain) /\ t \in Seq(Plain)
  BY EasyList
<1> DEFINE k == IF n = 0 THEN Task("free", h) ELSE Task("tail", 0)
<1>3. k \in Plain /\ Task("seek", n) \in Plain /\ Task("shrink", n) \in Plain
  <2>1. 0 \in Nat
    OBVIOUS
  <2> QED
    BY <2>1, TaskIs
<1>4. Cutting(h, n, r) = <<k>> \o (<<Task("shrink", n)>> \o r)
      /\ Cutting(h, n, r \o t) = <<k>> \o (<<Task("shrink", n)>> \o (r \o t))
  BY DEF Cutting
<1> HIDE DEF k
<1>5. PICK a \in Seq(Plain), b \in Seq(Plain), c \in Seq(Plain) :
        a = <<Task("seek", n)>> /\ b = <<k>> /\ c = <<Task("shrink", n)>>
  BY <1>3, ListIs
<1>6. c \o r \in Seq(Plain) /\ b \o (c \o r) \in Seq(Plain)
  BY <1>2, <1>5, JoinIs
<1>7. (a \o (b \o (c \o r))) \o t = a \o ((b \o (c \o r)) \o t)
  BY <1>2, <1>5, <1>6, ConcatAssociative
<1>8. (b \o (c \o r)) \o t = b \o ((c \o r) \o t)
  BY <1>2, <1>5, <1>6, ConcatAssociative
<1>9. (c \o r) \o t = c \o (r \o t)
  BY <1>2, <1>5, <1>6, ConcatAssociative
<1>10. (a \o Cutting(h, n, r)) \o t = a \o Cutting(h, n, r \o t)
  BY <1>4, <1>5, <1>7, <1>8, <1>9
<1> QED
  BY <1>1, <1>5, <1>10

LEMMA RemoveStarts ==
  ASSUME ChainInv, IInv', NEW f \in File, Remove(f)
  PROVE  \E P \in Trails, Q \in Trails : Sound(P, Q)'
<1>1. obj[f] \in Object /\ obj[f].size \in Nat /\ obj[f].open /\ obj[f].first \in Nat
  BY DEF ChainInv, IInv, Object, Remove
<1>2. PICK t : t = <<Task("erase", 0), Task("flush", 0)>>
  OBVIOUS
<1>3. PICK z \in Nat : z = 0
  OBVIOUS
<1>4. t \in Seq(Easy(z)) /\ t \in Seq(Plain)
  <2>1. Task("erase", 0) \in Easy(z) /\ Task("flush", 0) \in Easy(z)
    BY <1>3, EasyIs
  <2>2. t \in Seq(Easy(z))
    BY <1>2, <2>1
  <2> QED
    BY <2>2, EasyList
<1>5. CASE Refuses
  BY <1>5, RefuseSound
<1>6. CASE Starts(f, Truncated(obj[f], z) \o t)
  <2>1. CASE obj[f].size = 0
    <3>1. Truncated(obj[f], z) \o t = t
      <4>1. \A q \in Seq(Plain) : <<>> \o q = q
        OBVIOUS
      <4>2. Truncated(obj[f], z) = <<>>
        BY <2>1 DEF Truncated
      <4> QED
        BY <1>4, <4>1, <4>2
    <3>2. t \in Seq(Easy(obj[f].size)) /\ Starts(f, t)
      BY <1>3, <1>4, <1>6, <2>1, <3>1
    <3> QED
      BY <1>1, <3>2, EasyStarts
  <2>2. CASE obj[f].size > 0
    <3>1. PICK r \in Seq(Easy(z)) : Truncated(obj[f], z) = <<Task("seek", z)>> \o Cutting(obj[f].first, z, r)
      BY <1>1, <2>2, TruncatedList
    <3>2. /\ (<<Task("seek", z)>> \o Cutting(obj[f].first, z, r)) \o t = <<Task("seek", z)>> \o Cutting(obj[f].first, z, r \o t)
          /\ r \o t \in Seq(Easy(z))
      BY <1>1, <1>4, CuttingJoin
    <3>3. PICK q \in Seq(Easy(z)) : q = r \o t
      BY <3>2
    <3>4. PICK s : s = <<Task("seek", z)>> \o Cutting(obj[f].first, z, q) /\ Starts(f, s)
      BY <1>6, <3>1, <3>2, <3>3
    <3> QED
      BY <1>1, <2>2, <3>4, CutStarts
  <2> QED
    BY <1>1, <2>1, <2>2
<1> QED
  BY <1>2, <1>3, <1>5, <1>6 DEF Remove

LEMMA CallsSound ==
  ASSUME ChainInv, IInv', NEW f \in File, Calls(f)
  PROVE  \E P \in Trails, Q \in Trails : Sound(P, Q)'
<1>1. CASE \E m \in Modes : Open(f, m)
  BY <1>1, OpenSound
<1>2. CASE Close(f)
  BY <1>2, CloseSound
<1>3. CASE SyncFile(f) \/ DirEntry(f) \/ Timestamp(f)
  BY <1>3, SyncFileSound
<1>4. CASE Rewind(f)
  BY <1>4, RewindSound
<1>5. CASE ContiguousRange(f)
  BY <1>5, RangeStarts
<1>6. CASE \E p \in Places : SeekSet(f, p)
  BY <1>6, SeekStarts
<1>7. CASE \E p \in Places : Truncate(f, p)
  BY <1>7, TruncateStarts
<1>8. CASE \E n \in Sizes : Read(f, n)
  BY <1>8, ReadStarts
<1>9. CASE \E n \in Sizes : Write(f, n)
  BY <1>9, WriteStarts
<1>10. CASE Remove(f)
  BY <1>10, RemoveStarts
<1> QED
  BY <1>1, <1>2, <1>3, <1>4, <1>5, <1>6, <1>7, <1>8, <1>9, <1>10 DEF Calls

-----------------------------------------------------------------------------
(***************************************************************************)
(* The beginning, and no step at all                                       *)
(***************************************************************************)
\* At first there is no file, and no chain.
LEMMA InitSound ==
  ASSUME Init
  PROVE  \E P \in Trails, Q \in Trails : Sound(P, Q)
<1>1. /\ who = None /\ got = {} /\ card = view /\ cut = {} /\ spoiled = {} /\ adrift = {}
      /\ obj = [f \in File |-> Closed]
  BY DEF Init
<1>2. \A f \in File : obj[f] = Closed /\ ~view.entry[f].used
  BY <1>1 DEF Init
<1>3. ~Closed.open
  BY ClosedIs
<1>4. PICK P : P = [f \in File |-> NoTrail]
  OBVIOUS
<1>5. P \in Trails /\ \A f \in File : P[f] = NoTrail /\ P[f].n = 0
  BY <1>4, NilIs DEF Trails
<1>6. Apart(P, P)
  BY <1>5 DEF Apart
<1>7. \A f \in File : Links(view.fat, 0, P[f])
  BY <1>5 DEF Links
<1>8. ASSUME NEW f \in File PROVE Told(view, SizeOf(view, obj[f], f), spoiled, f, P[f])
  BY <1>2, <1>7 DEF Told, HeadIn
<1>9. ASSUME NEW f \in File PROVE Fine(view, obj[f], cut, spoiled, adrift, f, P[f])
  <2>1. Base(view, obj[f], cut, spoiled, f, P[f], obj[f].size)
    BY <1>2, <1>3, <1>7 DEF Base, HeadOf, HeadIn
  <2> QED
    BY <1>2, <1>3, <2>1 DEF Fine, Placed, Reach
<1>10. Backed(card, view, obj, cut, spoiled, P, P)
  BY <1>1, <1>5, <1>6, <1>8 DEF Backed
<1>11. Ground(None, P, P)
  BY <1>5, <1>6, <1>9, <1>10 DEF Ground
<1> QED
  BY <1>1, <1>5, <1>11 DEF Sound

LEMMA TruncatingStays ==
  ASSUME NEW x, NEW P, NEW Q, Truncating(x, P, Q),
         UNCHANGED <<view, cache, obj, todo, who, got, adrift, spoiled, cut>>
  PROVE  Truncating(x, P, Q)'
<1>1. O' = O /\ who' = who
  BY DEF O
<1>2. PICK n \in Nat : \E r \in Seq(Easy(n)) :
        /\ n <= O.size /\ O.pos = n
        /\ \/ CutsFirst(x, n, r) \/ FreesNext(x, n, r) \/ FreesLoose(x, n, r, P, Q) \/ EndsChain(x, n, r) \/ Shrinks(x, n, r)
  BY DEF Truncating, CutsFirst, FreesNext, FreesLoose, EndsChain, Shrinks
<1>3. PICK r \in Seq(Easy(n)) :
        /\ n <= O.size /\ O.pos = n
        /\ \/ CutsFirst(x, n, r) \/ FreesNext(x, n, r) \/ FreesLoose(x, n, r, P, Q) \/ EndsChain(x, n, r) \/ Shrinks(x, n, r)
  BY <1>2
<1>4. FineNow(x)' = FineNow(x) /\ Torn(x, n)' = Torn(x, n) /\ Intact(x, n)' = Intact(x, n)
  BY <1>1 DEF FineNow, Torn, Intact
<1>5. \A D : Loose(D, P, Q)' = Loose(D, P, Q)
  BY <1>1 DEF Loose
<1>6. CutsFirst(x, n, r) => CutsFirst(x, n, r)'
  BY <1>1, <1>4 DEF CutsFirst
<1>7. FreesNext(x, n, r) => FreesNext(x, n, r)'
  BY <1>1, <1>4 DEF FreesNext
<1>8. FreesLoose(x, n, r, P, Q) => FreesLoose(x, n, r, P, Q)'
  BY <1>1, <1>4, <1>5 DEF FreesLoose
<1>9. (EndsChain(x, n, r) => EndsChain(x, n, r)') /\ (Shrinks(x, n, r) => Shrinks(x, n, r)')
  BY <1>1, <1>4 DEF EndsChain, Shrinks
<1>10. /\ n <= O'.size /\ O'.pos = n
       /\ \/ CutsFirst(x, n, r)' \/ FreesNext(x, n, r)' \/ FreesLoose(x, n, r, P, Q)' \/ EndsChain(x, n, r)' \/ Shrinks(x, n, r)'
  BY <1>1, <1>3, <1>6, <1>7, <1>8, <1>9
<1>11. got' = {} /\ O'.open /\ O'.size > 0
  BY <1>1 DEF Truncating
<1> QED
  BY <1>10, <1>11 DEF Truncating, CutsFirst, FreesNext, FreesLoose, EndsChain, Shrinks

LEMMA NothingDone ==
  ASSUME ChainInv, vars' = vars
  PROVE  ChainInv'
<1>1. UNCHANGED <<view, card, cache, obj, todo, who, got, adrift, spoiled, cut, broken, faults>>
  BY DEF vars, volume, call
<1>2. IInv' /\ TypeOK'
  <2>1. IInv /\ [Next]_vars
    BY DEF ChainInv
  <2>2. TypeOK'
    BY <1>1 DEF ChainInv, TypeOK
  <2> QED
    BY <2>1, <2>2, StepKeeps
<1>3. broken' => Idle'
  BY <1>1 DEF ChainInv, Idle
<1>4. ASSUME ~broken' PROVE \E P \in Trails, Q \in Trails : Sound(P, Q)'
  <2>1. PICK P \in Trails, Q \in Trails : Sound(P, Q)
    BY <1>1, <1>4 DEF ChainInv
  <2>2. Ground(who, P, Q)'
    BY <1>1, <2>1 DEF Sound, Ground
  <2>3. ASSUME who' # None PROVE Phase(P, Q)'
    <3>1. Phase(P, Q)
      BY <1>1, <2>1, <2>3 DEF Sound
    <3>2. CASE Quiet(P[who])
      <4>1. Quiet(P[who])'
        BY <1>1, <3>2 DEF Quiet, FineNow, Closing, Opening, Setting, O
      <4> QED
        BY <4>1 DEF Phase
    <3>3. CASE Reading(P[who])
      <4>1. Reading(P[who])'
        BY <1>1, <3>3 DEF Reading, Intact, O
      <4> QED
        BY <4>1 DEF Phase
    <3>4. CASE Writing(P[who], P, Q)
      <4>1. Writing(P[who], P, Q)'
        BY <1>1, <3>4 DEF Writing, Intact, O, AtCluster, Offset, BlockOfCluster
      <4> QED
        BY <4>1 DEF Phase
    <3>5. CASE Seeking(P[who])
      <4>1. Seeking(P[who])'
        BY <1>1, <3>5 DEF Seeking, Intact, O
      <4> QED
        BY <4>1 DEF Phase
    <3>6. CASE Truncating(P[who], P, Q)
      <4>1. PICK x : x = P[who] /\ x = P[who']
        BY <1>1
      <4>2. Truncating(x, P, Q)
        BY <3>6, <4>1
      <4>3. Truncating(x, P, Q)'
        BY <1>1, <4>2, TruncatingStays
      <4>4. Phase(P, Q)'
        BY <4>1, <4>3, Zenon DEF Phase
      <4> QED
        BY <4>4
    <3> QED
      BY <3>1, <3>2, <3>3, <3>4, <3>5, <3>6 DEF Phase
  <2> QED
    BY <1>1, <2>1, <2>2, <2>3 DEF Sound
<1> QED
  BY <1>2, <1>3, <1>4 DEF ChainInv

\* nothing is done once a file refers to clusters that were freed
LEMMA BrokenIdle ==
  ASSUME ChainInv, Next
  PROVE  broken' => Idle'
<1>1. CASE \E f \in File : Calls(f)
  <2>1. PICK f \in File : Calls(f)
    BY <1>1
  <2>2. ~broken /\ broken' = broken
    <3>1. ASSUME NEW g, NEW s, Starts(g, s) PROVE ~broken /\ broken' = broken
      BY <3>1 DEF Starts, Followed
    <3>2. CASE \E m \in Modes : Open(f, m)
      BY <3>1, <3>2 DEF Open
    <3>3. CASE Close(f) \/ SyncFile(f) \/ DirEntry(f) \/ Timestamp(f)
      BY <3>1, <3>3 DEF Close, SyncFile, DirEntry, Timestamp
    <3>4. CASE Rewind(f)
      BY <3>4 DEF Rewind, Followed
    <3>5. CASE ContiguousRange(f) \/ Remove(f)
      BY <3>1, <3>5 DEF ContiguousRange, Remove, Refuses
    <3>6. CASE \E p \in Places : SeekSet(f, p) \/ Truncate(f, p)
      BY <3>1, <3>6 DEF SeekSet, Truncate, Refuses
    <3>7. CASE \E n \in Sizes : Read(f, n) \/ Write(f, n)
      BY <3>1, <3>7 DEF Read, Write, Refuses
    <3> QED
      BY <2>1, <3>2, <3>3, <3>4, <3>5, <3>6, <3>7 DEF Calls
  <2> QED
    BY <2>2
<1>2. CASE Works
  <2>1. ~Idle
    BY <1>2 DEF Works, DoFlush, DoSync, DoFind, DoCreate, DoErase, DoShut, DoLook, DoSeek, DoHop, DoArrive,
       DoRead, DoCopy, DoRange, DoPut, DoTake, DoTie, DoFill, DoTail, DoFree, DoEnd, DoShrink, Doing
  <2>2. broken' = broken
    BY <1>2 DEF Works, DoFlush, DoSync, DoFind, DoCreate, DoErase, DoShut, DoLook, DoSeek, DoHop, DoArrive,
       DoRead, DoCopy, DoRange, DoPut, DoTake, DoTie, DoFill, DoTail, DoFree, DoEnd, DoShrink
  <2> QED
    BY <2>1, <2>2 DEF ChainInv
<1>3. CASE CacheFails \/ PastCacheFails \/ NotInFat \/ Elsewhere \/ PowerLoss
  <2>1. todo' = <<>>
    BY <1>3 DEF CacheFails, PastCacheFails, NotInFat, Elsewhere, PowerLoss, Failing, CallFails
  <2> QED
    BY <2>1 DEF Idle
<1>4. CASE NoLongerFollowed
  BY <1>4 DEF NoLongerFollowed, vars, call, Idle
<1> QED
  BY <1>1, <1>2, <1>3, <1>4 DEF Next

-----------------------------------------------------------------------------
(***************************************************************************)
(* The types: whose call it is, and what is remembered                     *)
(***************************************************************************)
\* whose call it is, and what is remembered of the files
Marks ==
  /\ who \in File \cup {None} /\ (who = None <=> todo = <<>>)
  /\ adrift \subseteq File /\ spoiled \subseteq File /\ cut \subseteq File /\ broken \in BOOLEAN
  /\ faults \in 0 .. MaxFaults

LEMMA CutsKept ==
  ASSUME NEW freed \in SUBSET File, Cuts(freed), cut \subseteq File
  PROVE  cut' \subseteq File
BY DEF Cuts

LEMMA ThenMarks ==
  ASSUME who \in File, NEW s, Then(s), faults \in 0 .. MaxFaults
  PROVE  /\ who' \in File \cup {None} /\ (who' = None <=> todo' = <<>>)
         /\ faults' \in 0 .. MaxFaults
BY NoneAssumption DEF Then

LEMMA MarksBetween ==
  ASSUME TypeOK, NEW f \in File, Calls(f)
  PROVE  Marks'
<1>1. ASSUME NEW g \in File \cup {None}, NEW s, Starts(g, s), g = None => s = <<>> PROVE Marks'
  <2>1. /\ todo' = s /\ who' = (IF s = <<>> THEN None ELSE g)
        /\ UNCHANGED <<adrift, spoiled, cut, broken, faults>>
    BY <1>1 DEF Starts
  <2>2. who' \in File \cup {None} /\ (who' = None <=> todo' = <<>>)
    BY <1>1, <2>1
  <2> QED
    BY <2>1, <2>2 DEF TypeOK, Marks
<1>2. \A s : Starts(f, s) => Marks'
  <2>1. f # None
    BY NoneAssumption
  <2> QED
    BY <1>1, <2>1
<1>3. Refuses => Marks'
  BY <1>1 DEF Refuses
<1>4. CASE \E m \in Modes : Open(f, m)
  BY <1>2, <1>4 DEF Open
<1>5. CASE Close(f) \/ SyncFile(f) \/ DirEntry(f) \/ Timestamp(f)
  BY <1>2, <1>5 DEF Close, SyncFile, DirEntry, Timestamp
<1>6. CASE Rewind(f)
  BY <1>6 DEF Rewind, TypeOK, Marks, call
<1>7. CASE ContiguousRange(f) \/ Remove(f)
  BY <1>2, <1>3, <1>7 DEF ContiguousRange, Remove
<1>8. CASE \E p \in Places : SeekSet(f, p) \/ Truncate(f, p)
  BY <1>2, <1>3, <1>8 DEF SeekSet, Truncate
<1>9. CASE \E n \in Sizes : Read(f, n) \/ Write(f, n)
  BY <1>2, <1>3, <1>9 DEF Read, Write
<1> QED
  BY <1>4, <1>5, <1>6, <1>7, <1>8, <1>9 DEF Calls

LEMMA MarksAtWork ==
  ASSUME TypeOK, Works
  PROVE  Marks'
<1>1. ~Idle
  BY DEF Works, DoFlush, DoSync, DoFind, DoCreate, DoErase, DoShut, DoLook, DoSeek, DoHop, DoArrive,
     DoRead, DoCopy, DoRange, DoPut, DoTake, DoTie, DoFill, DoTail, DoFree, DoEnd, DoShrink, Doing
<1>2. /\ who \in File /\ faults \in 0 .. MaxFaults /\ cut \subseteq File /\ broken \in BOOLEAN
      /\ adrift \subseteq File /\ spoiled \subseteq File /\ who # None
  BY <1>1 DEF TypeOK, Idle
<1>3. broken' = broken
  BY DEF Works, DoFlush, DoSync, DoFind, DoCreate, DoErase, DoShut, DoLook, DoSeek, DoHop, DoArrive,
     DoRead, DoCopy, DoRange, DoPut, DoTake, DoTie, DoFill, DoTail, DoFree, DoEnd, DoShrink
<1>4. ((\E s : Then(s)) \/ UNCHANGED <<call, faults>>) =>
         /\ who' \in File \cup {None} /\ (who' = None <=> todo' = <<>>)
         /\ faults' \in 0 .. MaxFaults
  <2>1. (\E s : Then(s)) => /\ who' \in File \cup {None} /\ (who' = None <=> todo' = <<>>)
                            /\ faults' \in 0 .. MaxFaults
    BY <1>2, ThenMarks
  <2>2. UNCHANGED <<call, faults>> => who' = who /\ todo' = todo /\ faults' = faults
    BY DEF call
  <2> QED
    BY <1>1, <1>2, <2>1, <2>2 DEF Idle
<1>5. (\E freed \in SUBSET File : Cuts(freed)) \/ cut' = cut \/ cut' = cut \cup {who} => cut' \subseteq File
  BY <1>2, CutsKept
<1>6. {} \in SUBSET File /\ {who} \in SUBSET File
  BY <1>2
<1>7. /\ (\E s : Then(s)) \/ UNCHANGED <<call, faults>>
      /\ (\E freed \in SUBSET File : Cuts(freed)) \/ cut' = cut \/ cut' = cut \cup {who}
      /\ adrift' \in {adrift, adrift \ {who}, adrift \cup {who}}
      /\ spoiled' \in {spoiled, spoiled \ {who}, spoiled \cup {who}}
  <2>1. CASE DoFlush \/ DoSync \/ DoFind \/ DoCreate \/ DoErase \/ DoShut \/ DoLook
    BY <1>6, <2>1 DEF DoFlush, DoSync, DoFind, DoCreate, DoErase, DoShut, DoLook
  <2>2. CASE DoSeek \/ DoHop \/ DoArrive \/ DoRead \/ DoCopy \/ DoRange
    BY <1>6, <2>2 DEF DoSeek, DoHop, DoArrive, DoRead, DoCopy, DoRange, Returns
  <2>3. CASE DoPut \/ DoTake \/ DoTie \/ DoFill
    BY <1>6, <2>3 DEF DoPut, DoTake, DoTie, DoFill, Returns
  <2>4. CASE DoTail \/ DoFree \/ DoEnd \/ DoShrink
    BY <1>6, <2>4 DEF DoTail, DoFree, DoEnd, DoShrink
  <2> QED
    BY <2>1, <2>2, <2>3, <2>4 DEF Works
<1>8. adrift' \subseteq File /\ spoiled' \subseteq File
  BY <1>2, <1>7
<1> QED
  BY <1>2, <1>3, <1>4, <1>5, <1>7, <1>8 DEF Marks

LEMMA MarksAtFault ==
  ASSUME TypeOK, CacheFails \/ PastCacheFails \/ NotInFat \/ Elsewhere \/ PowerLoss
  PROVE  Marks'
<1>1. who' = None /\ todo' = <<>> /\ None \in File \cup {None}
  BY DEF CacheFails, PastCacheFails, NotInFat, Elsewhere, PowerLoss, Failing, CallFails
<1>2. /\ adrift \subseteq File /\ spoiled \subseteq File /\ cut \subseteq File /\ broken \in BOOLEAN
      /\ faults \in 0 .. MaxFaults /\ MaxFaults \in Nat
  BY FaultsAssumption DEF TypeOK
<1>3. CASE PowerLoss
  <2>1. adrift' = {} /\ cut' = {} /\ spoiled' = spoiled /\ broken' \in BOOLEAN
    BY <1>3 DEF PowerLoss
  <2>2. faults' \in 0 .. MaxFaults
    BY <1>2, <1>3 DEF PowerLoss
  <2> QED
    BY <1>1, <1>2, <2>1, <2>2 DEF Marks
<1>4. CASE CacheFails \/ PastCacheFails \/ NotInFat \/ Elsewhere
  <2>1. ~Idle
    BY <1>4 DEF CacheFails, PastCacheFails, NotInFat, Elsewhere, Doing
  <2>2. who \in File
    BY <2>1 DEF TypeOK, Idle
  <2>3. faults' \in {faults, faults + 1} /\ (faults' # faults => faults < MaxFaults)
    BY <1>4 DEF CacheFails, PastCacheFails, NotInFat, Elsewhere, Failing
  <2>4. faults' \in 0 .. MaxFaults
    BY <1>2, <2>3
  <2>5. adrift' \in {adrift, adrift \cup {who}} /\ spoiled' \in {spoiled, spoiled \cup {who}}
    BY <1>4 DEF CacheFails, PastCacheFails, NotInFat, Elsewhere, Failing, CallFails
  <2>6. broken' \in BOOLEAN
    BY <1>2, <1>4 DEF CacheFails, PastCacheFails, NotInFat, Elsewhere, Failing, CallFails
  <2>7. Cuts({}) \/ cut' = cut
    BY <1>4 DEF CacheFails, PastCacheFails, NotInFat, Elsewhere
  <2>8. cut' \subseteq File
    BY <1>2, <2>7, CutsKept
  <2> QED
    BY <1>1, <1>2, <2>2, <2>4, <2>5, <2>6, <2>8 DEF Marks
<1> QED
  BY <1>3, <1>4

-----------------------------------------------------------------------------
(***************************************************************************)
(* The types: positions are bounded, for the chains behind them are        *)
(***************************************************************************)
\* no chain is longer than the volume
LEMMA TrailFits ==
  ASSUME NEW x \in Trail, Simple(x), \A i \in Nat : i < x.n => x.at[i] \in Cluster
  PROVE  x.n \in Nat /\ x.n <= ClusterCount
<1> DEFINE l == x.n
           I == 1 .. l
           q == [i \in I |-> x.at[i - 1]]
<1>1. l \in Nat
  BY DEF Trail
<1>2. IsFiniteSet(Cluster) /\ Cardinality(Cluster) = ClusterCount
  <2>1. ClusterCount \in Nat \ {0}
    BY CountAssumption
  <2>2. PICK e \in Nat : e = ClusterCount + 1
    BY <2>1
  <2>3. 2 \in Int /\ e \in Int /\ ~(2 > e) /\ e - 2 + 1 = ClusterCount
    BY <2>1, <2>2
  <2>4. IsFiniteSet(2 .. e) /\ Cardinality(2 .. e) = IF 2 > e THEN 0 ELSE e - 2 + 1
    BY <2>3, FS_Interval
  <2>5. Cluster = 2 .. e
    BY <2>2 DEF Cluster
  <2> QED
    BY <2>3, <2>4, <2>5
<1>3. Cardinality(I) = l
  <2>1. (IF 1 > l THEN 0 ELSE l - 1 + 1) = l
    BY <1>1
  <2> QED
    BY <1>1, <2>1, FS_Interval
<1>4. q \in Injection(I, Cluster)
  <2>1. q \in [I -> Cluster]
    <3>1. \A i \in I : i - 1 \in Nat /\ i - 1 < l
      BY <1>1
    <3> QED
      BY <3>1
  <2>2. ASSUME NEW i \in I, NEW j \in I, q[i] = q[j] PROVE i = j
    <3>1. i - 1 \in Nat /\ i - 1 < l /\ j - 1 \in Nat /\ j - 1 < l
      BY <1>1
    <3>2. x.at[i - 1] = x.at[j - 1]
      BY <2>2
    <3>3. i - 1 = j - 1
      BY <3>1, <3>2 DEF Simple
    <3> QED
      BY <1>1, <3>3
  <2> QED
    BY <2>1, <2>2 DEF Injection, IsInjective
<1>5. Cardinality(I) <= Cardinality(Cluster)
  BY <1>2, <1>4, FS_Injection
<1> QED
  BY <1>1, <1>2, <1>3, <1>5

LEMMA LinkedFits ==
  ASSUME NEW fat, NEW h, NEW x \in Trail, Links(fat, h, x), Simple(x)
  PROVE  x.n \in Nat /\ x.n <= ClusterCount
BY TrailFits DEF Links

\* a piece of a transfer stays in the volume
LEMMA PieceStays ==
  ASSUME NEW x \in Trail, x.n <= ClusterCount, O \in Object, Arg \in Nat \ {0},
         O.cur \in Cluster, O.pos \in Position, O.size \in Position,
         O.cur = At(x, Index(O.pos)) \/ Fits(O, Arg)
  PROVE  O.pos + Piece \in Position /\ Bytes \subseteq Position
<1>1. O.pos \in Nat /\ Full \in Nat /\ Position = 0 .. Full /\ x.n \in Nat
  BY FullIs DEF Object, Trail
<1>2. Piece \in Nat \ {0} /\ Piece <= Arg /\ O.pos + Piece \in Nat
  <2>1. Piece \in Nat \ {0} /\ O.pos + Piece \in Nat
    BY <1>1, PieceSome
  <2>2. Piece <= Arg
    BY <1>1, PieceIs
  <2> QED
    BY <2>1, <2>2
<1>3. O.pos + Piece <= Full
  <2>1. CASE Fits(O, Arg)
    BY <1>1, <1>2, <2>1 DEF Fits
  <2>2. CASE O.cur = At(x, Index(O.pos))
    <3>1. Index(O.pos) \in Nat
      BY <1>1, PlaceIs
    <3>2. Index(O.pos) < x.n
      <4>1. O.cur # 0 /\ O.cur # Eoc
        BY ClustersAre
      <4> QED
        BY <2>2, <4>1 DEF At
    <3>3. PICK q : q = O.pos + Piece - 1
      OBVIOUS
    <3>4. q \in Nat /\ q \in Bytes
      BY <1>1, <1>2, <3>3 DEF Bytes
    <3>5. Index(q) = Index(O.pos)
      BY <1>1, <3>4, BytesPlaced
    <3>6. q + 1 <= Full
      BY <1>1, <3>1, <3>2, <3>4, <3>5, PlaceFits
    <3> QED
      BY <1>1, <1>2, <3>3, <3>6
  <2> QED
    BY <2>1, <2>2
<1>4. O.pos + Piece \in Position
  BY <1>1, <1>2, <1>3
<1>5. ASSUME NEW q \in Bytes PROVE q \in Position
  BY <1>1, <1>2, <1>3 DEF Bytes
<1> QED
  BY <1>4, <1>5

\* the task of a transfer, and where it is
LEMMA FillStays ==
  ASSUME ChainInv, Doing("fill"), O.cur \in Cluster
  PROVE  O.pos + Piece \in Position /\ Bytes \subseteq Position /\ Arg \in Nat \ {0} /\ O \in Object /\ who \in File
<1>1. who \in File /\ O \in Object /\ Arg \in Nat \ {0}
  BY FillingIs
<1>2. O.pos \in Position /\ O.size \in Position
  BY <1>1 DEF ChainInv, TypeOK, O
<1>3. PICK P \in Trails :
        /\ P[who] \in Trail /\ Simple(P[who])
        /\ Base(view, O, cut, spoiled, who, P[who], O.size)
        /\ Tracks(O, who, adrift, At(P[who], Index(O.pos)), Arg)
  BY FillingIs
<1>4. PICK x \in Trail : x = P[who]
  BY <1>3
<1>5. x.n <= ClusterCount
  BY <1>3, <1>4, LinkedFits DEF Base
<1>6. O.cur = At(x, Index(O.pos)) \/ Fits(O, Arg)
  BY <1>3, <1>4 DEF Tracks
<1> QED
  BY <1>1, <1>2, <1>5, <1>6, PieceStays

LEMMA CopyStays ==
  ASSUME ChainInv, Doing("copy"), O.cur \in Cluster
  PROVE  O.pos + Piece \in Position /\ who \in File
<1>1. who \in File /\ O \in Object
  BY AtPhase
<1>2. O.pos \in Position /\ O.size \in Position
  BY <1>1 DEF ChainInv, TypeOK, O
<1>3. PICK P \in Trails : Reading(P[who]) /\ P[who] \in Trail /\ Simple(P[who])
  BY AtPhase
<1>4. PICK x \in Trail : x = P[who]
  BY <1>3
<1>5. Reading(x) /\ Simple(x)
  BY <1>3, <1>4
<1>6. PICK n \in Nat :
         \/ todo = <<Task("read", n)>> /\ Tracks(O, who, adrift, AtPos(x, O.pos), n)
         \/ n > 0 /\ todo = <<Task("copy", n)>> /\ Tracks(O, who, adrift, At(x, Index(O.pos)), n)
  BY <1>5 DEF Reading
<1>7. Arg = n /\ n > 0 /\ Tracks(O, who, adrift, At(x, Index(O.pos)), n)
  BY <1>6 DEF Doing, Task, Arg
<1>8. Base(view, O, cut, spoiled, who, x, O.size)
  BY <1>5 DEF Reading, Intact
<1>9. x.n <= ClusterCount
  BY <1>5, <1>8, LinkedFits DEF Base
<1>10. O.cur = At(x, Index(O.pos)) \/ Fits(O, Arg)
  BY <1>7 DEF Tracks
<1>11. Arg \in Nat \ {0}
  BY <1>7
<1> QED
  BY <1>1, <1>2, <1>9, <1>10, <1>11, PieceStays

LEMMA ArriveStays ==
  ASSUME ChainInv, Doing("arrive")
  PROVE  Arg \in Position /\ who \in File
<1>1. who \in File /\ O \in Object
  BY AtPhase
<1>2. O.size \in Position
  BY <1>1 DEF ChainInv, TypeOK, O
<1>3. PICK P \in Trails : Seeking(P[who])
  BY AtPhase
<1>4. PICK k0 \in Nat, a \in Nat \ {0}, R \in Seq(Plain) :
        todo = Hops(k0, <<Task("arrive", a)>> \o R) /\ a <= O.size
  BY <1>3 DEF Seeking
<1> DEFINE s == <<Task("arrive", a)>> \o R
<1>5. s \in Seq(Plain) /\ Task("arrive", a) \in Plain
  BY HopsList, TaskIs
<1>6. k0 = 0
  <2>1. Head(todo).do = "arrive"
    BY DEF Doing
  <2>2. Task("hop", 0).do # "arrive"
    BY DEF Task
  <2> HIDE DEF s
  <2>3. ~(k0 > 0)
    BY <1>4, <1>5, <2>1, <2>2, HopsIs DEF s
  <2> QED
    BY <2>3
<1>7. todo = s
  <2> HIDE DEF s
  <2> QED
    BY <1>4, <1>5, <1>6, HopsIs DEF s
<1>8. Arg = Task("arrive", a).arg
  BY <1>5, <1>7, HeadIs
<1>9. Arg = a
  BY <1>8 DEF Task
<1> QED
  BY <1>1, <1>2, <1>4, <1>9, FullIs

LEMMA ShrinkStays ==
  ASSUME ChainInv, Doing("shrink")
  PROVE  Arg \in Position /\ who \in File
<1>1. /\ who \in File /\ O \in Object /\ O.size \in Nat
  BY CutIs
<1>2. O.size \in Position
  BY <1>1 DEF ChainInv, TypeOK, O
<1>3. PICK P \in Trails, Q \in Trails :
        P[who] \in Trail /\ Truncating(P[who], P, Q)
  BY CutIs
<1>4. PICK x \in Trail : x = P[who]
  BY <1>3
<1>5. Truncating(x, P, Q)
  BY <1>3, <1>4
<1>6. PICK n \in Nat : n <= O.size /\ Arg = n
  BY <1>1, <1>5, TruncatingTasks
<1> QED
  BY <1>1, <1>2, <1>6, FullIs

LEMMA TieStays ==
  ASSUME ChainInv, Doing("tie")
  PROVE  Arg \in Cluster /\ O.cur \in Cluster /\ who \in File
<1>1. who \in File
  BY AddingIs
<1>2. PICK P \in Trails :
              /\ P[who] \in Trail /\ P[who].n > 0 /\ Arg \in Cluster
              /\ P[who].n # 0 => O.cur \in Cluster /\ O.cur = P[who].at[P[who].n - 1]
  BY AddingIs
<1>3. P[who].n # 0
  BY <1>2
<1> QED
  BY <1>1, <1>2, <1>3

-----------------------------------------------------------------------------
(***************************************************************************)
(* The types: the volume and the objects                                   *)
(***************************************************************************)
\* the entries, the bytes and the numbers of objects that TypeOK has
Bound == [used : BOOLEAN, first : Cluster \cup {0}, size : Position]
Byte  == {Nothing} \cup File \X Position

LEMMA StoreIs ==
  ASSUME NEW v
  PROVE  v \in Store <=>
           /\ v = [fat |-> v.fat, entry |-> v.entry, data |-> v.data]
           /\ v.fat \in [Cluster -> Cluster \cup {Free, Eoc}] /\ v.entry \in [File -> Bound]
           /\ v.data \in [Cluster -> [0 .. ClusterSize - 1 -> Byte]]
BY DEF Store, Bound, Byte

LEMMA FatStored ==
  ASSUME NEW v \in Store, NEW c, NEW n \in Cluster \cup {Free, Eoc}
  PROVE  [v EXCEPT !.fat[c] = n] \in Store
<1> DEFINE F == Cluster \cup {Free, Eoc}
           w == [v EXCEPT !.fat[c] = n]
<1>1. /\ v = [fat |-> v.fat, entry |-> v.entry, data |-> v.data]
      /\ v.fat \in [Cluster -> F] /\ v.entry \in [File -> Bound]
      /\ v.data \in [Cluster -> [0 .. ClusterSize - 1 -> Byte]]
  BY StoreIs
<1>2. w = [fat |-> [v.fat EXCEPT ![c] = n], entry |-> v.entry, data |-> v.data]
  BY <1>1
<1>3. [v.fat EXCEPT ![c] = n] \in [Cluster -> F]
  BY <1>1
<1> HIDE DEF w, F
<1>4. w.fat = [v.fat EXCEPT ![c] = n] /\ w.entry = v.entry /\ w.data = v.data
  BY <1>2
<1>5. w.fat \in [Cluster -> Cluster \cup {Free, Eoc}]
  BY <1>3, <1>4 DEF F
<1>6. w \in Store
  BY <1>1, <1>2, <1>4, <1>5, StoreIs
<1> QED
  BY <1>6 DEF w

LEMMA EntryStored ==
  ASSUME NEW v \in Store, NEW f \in File, NEW u \in Bound
  PROVE  SetEntry(v, f, u) \in Store
<1> DEFINE w == SetEntry(v, f, u)
<1>1. /\ v = [fat |-> v.fat, entry |-> v.entry, data |-> v.data]
      /\ v.fat \in [Cluster -> Cluster \cup {Free, Eoc}] /\ v.entry \in [File -> Bound]
      /\ v.data \in [Cluster -> [0 .. ClusterSize - 1 -> Byte]]
  BY StoreIs
<1>2. w = [fat |-> v.fat, entry |-> [v.entry EXCEPT ![f] = u], data |-> v.data]
  BY <1>1 DEF SetEntry
<1>3. [v.entry EXCEPT ![f] = u] \in [File -> Bound]
  BY <1>1
<1> HIDE DEF w
<1>4. w.fat = v.fat /\ w.entry = [v.entry EXCEPT ![f] = u] /\ w.data = v.data
  BY <1>2
<1>5. w \in Store
  BY <1>1, <1>2, <1>3, <1>4, StoreIs
<1> QED
  BY <1>5 DEF w

LEMMA WrittenStored ==
  ASSUME NEW v \in Store, IsVolume(v), O.cur \in Cluster, who \in File, O.pos \in Nat, Arg \in Nat,
         Bytes \subseteq Position
  PROVE  Written(v) \in Store
<1> DEFINE w == Written(v)
<1>1. /\ v = [fat |-> v.fat, entry |-> v.entry, data |-> v.data]
      /\ v.fat \in [Cluster -> Cluster \cup {Free, Eoc}] /\ v.entry \in [File -> Bound]
      /\ v.data \in [Cluster -> [0 .. ClusterSize - 1 -> Byte]]
  BY StoreIs
<1>2. /\ IsVolume(w) /\ w.fat = v.fat /\ w.entry = v.entry
      /\ \A c \in Cluster : c # O.cur => w.data[c] = v.data[c]
      /\ \A i \in 0 .. ClusterSize - 1 :
              w.data[O.cur][i] =
                IF Reached(i) THEN <<who, (O.pos \div ClusterSize) * ClusterSize + i>>
                ELSE IF Cleared(i) THEN Nothing ELSE v.data[O.cur][i]
  BY WrittenIs
<1>3. w = [v EXCEPT !.data[O.cur] = w.data[O.cur]]
  <2>1. w = [v EXCEPT !.data = [v.data EXCEPT ![O.cur] = w.data[O.cur]]]
    BY <1>1 DEF Written
  <2> QED
    BY <2>1
<1>4. w.data[O.cur] = [i \in 0 .. ClusterSize - 1 |-> w.data[O.cur][i]]
  <2>1. DOMAIN v.data[O.cur] = 0 .. ClusterSize - 1
    BY DEF IsVolume
  <2>2. w.data[O.cur] = [i \in DOMAIN v.data[O.cur] |->
           IF i \in {InCluster(p) : p \in Bytes} THEN <<who, (O.pos \div ClusterSize) * ClusterSize + i>>
           ELSE IF Adopts /\ i \in InCluster(O.pos) .. InCluster(O.pos) + BlockSize - 1 THEN Nothing
           ELSE v.data[O.cur][i]]
    BY <1>1 DEF Written
  <2> QED
    BY <2>1, <2>2
<1> HIDE DEF w
<1>5. ASSUME NEW i \in 0 .. ClusterSize - 1 PROVE w.data[O.cur][i] \in Byte
  <2>1. CASE Reached(i)
    <3>1. PICK q \in Bytes : i = InCluster(q)
      BY <2>1 DEF Reached
    <3>2. (O.pos \div ClusterSize) * ClusterSize + i = q
      BY <3>1, BytesPlaced
    <3>3. w.data[O.cur][i] = <<who, q>>
      BY <1>2, <2>1, <3>2
    <3>4. q \in Position
      BY <3>1
    <3> QED
      BY <3>3, <3>4 DEF Byte
  <2>2. CASE ~Reached(i) /\ Cleared(i)
    BY <1>2, <2>2 DEF Byte
  <2>3. CASE ~Reached(i) /\ ~Cleared(i)
    BY <1>1, <1>2, <2>3
  <2> QED
    BY <2>1, <2>2, <2>3
<1>6. w.data[O.cur] \in [0 .. ClusterSize - 1 -> Byte]
  BY <1>4, <1>5
<1>7. w.data \in [Cluster -> [0 .. ClusterSize - 1 -> Byte]]
  <2>1. w.data = [v.data EXCEPT ![O.cur] = w.data[O.cur]]
    BY <1>1, <1>3
  <2> QED
    BY <1>1, <1>6, <2>1
<1>8. w = [fat |-> w.fat, entry |-> w.entry, data |-> w.data]
  BY <1>2 DEF IsVolume
<1>9. w \in Store
  BY <1>1, <1>2, <1>7, <1>8, StoreIs
<1> QED
  BY <1>9 DEF w

LEMMA LoadsStore ==
  ASSUME card \in Store, view \in Store, NEW b, NEW d, Loads(b, d)
  PROVE  card' \in Store
BY LoadsCard

LEMMA PutsStore ==
  ASSUME card \in Store, view \in Store, NEW c, NEW n \in Cluster \cup {Free, Eoc}, Puts(c, n)
  PROVE  view' \in Store /\ card' \in Store
<1>1. view' = [view EXCEPT !.fat[c] = n] /\ Loads(FatBlock(c), TRUE)
  BY DEF Puts
<1> QED
  BY <1>1, FatStored, LoadsStore

\* the numbers of an object are in the range TypeOK gives them
Ranged(o) ==
  o.first \in Cluster \cup {0} /\ o.cur \in Cluster \cup {0, Eoc} /\ o.pos \in Position /\ o.size \in Position

LEMMA TypeParts ==
  ASSUME TypeOK
  PROVE  view \in Store /\ card \in Store /\ Marks /\ \A f \in File : Ranged(obj[f])
BY DEF TypeOK, Marks, Ranged

\* the object of the call
LEMMA CallObject ==
  ASSUME ChainInv, ~Idle
  PROVE  /\ who \in File /\ O \in Object /\ O = obj[who] /\ Ranged(O)
         /\ O.first \in Nat /\ O.cur \in Nat /\ O.pos \in Nat /\ O.size \in Nat
         /\ view \in Store /\ card \in Store /\ IsVolume(view) /\ IsVolume(card)
         /\ view.entry[who] \in Bound
<1>1. who \in File /\ view \in Store /\ card \in Store /\ \A f \in File : Ranged(obj[f])
  BY TypeParts DEF ChainInv, TypeOK, Idle
<1>2. IsVolume(view) /\ IsVolume(card) /\ obj \in [File -> Object]
  BY DEF ChainInv, IInv, Coherent
<1>3. O = obj[who] /\ O \in Object
  BY <1>1, <1>2 DEF O
<1>4. view.entry[who] \in Bound
  BY <1>1, StoreIs
<1> QED
  BY <1>1, <1>2, <1>3, <1>4 DEF Object

LEMMA DirectoryStored ==
  ASSUME ChainInv, DoSync \/ DoCreate \/ DoErase
  PROVE  view' \in Store /\ card' \in Store
<1>1. ~Idle
  BY DEF DoSync, DoCreate, DoErase, Doing
<1>2. /\ who \in File /\ O \in Object /\ Ranged(O) /\ O.first \in Nat /\ O.size \in Nat
      /\ view \in Store /\ card \in Store /\ IsVolume(view) /\ view.entry[who] \in Bound
  BY <1>1, CallObject
<1>3. 0 \in Position
  BY FullIs
<1>4. ASSUME NEW u \in Bound, Loads(DirBlock, TRUE), view' = SetEntry(view, who, u)
      PROVE  view' \in Store /\ card' \in Store
  BY <1>2, <1>4, EntryStored, LoadsStore
<1>5. CASE DoSync
  <2>1. CASE UNCHANGED volume
    BY <1>2, <2>1 DEF volume
  <2>2. CASE Loads(DirBlock, TRUE) /\ view' = [view EXCEPT !.entry[who].first = O.first, !.entry[who].size = O.size]
    <3>1. view' = TellEntry(view, who, O.first, O.size)
      BY <2>2 DEF TellEntry
    <3>2. view' = SetEntry(view, who, [used |-> view.entry[who].used, first |-> O.first, size |-> O.size])
      BY <1>2, <3>1, EntryTold
    <3>3. [used |-> view.entry[who].used, first |-> O.first, size |-> O.size] \in Bound
      BY <1>2 DEF Bound, Ranged
    <3> QED
      BY <1>4, <2>2, <3>2, <3>3
  <2> QED
    BY <1>5, <2>1, <2>2 DEF DoSync
<1>6. CASE DoCreate
  <2>1. [used |-> TRUE, first |-> 0, size |-> 0] \in Bound
    BY <1>3 DEF Bound
  <2>2. view' = SetEntry(view, who, [used |-> TRUE, first |-> 0, size |-> 0]) /\ Loads(DirBlock, TRUE)
    BY <1>6 DEF DoCreate, SetEntry
  <2> QED
    BY <1>4, <2>1, <2>2
<1>7. CASE DoErase
  <2>1. [used |-> FALSE, first |-> view.entry[who].first, size |-> view.entry[who].size] \in Bound
    BY <1>2 DEF Bound
  <2>2. view' = EraseEntry(view, who) /\ Loads(DirBlock, TRUE)
    BY <1>7 DEF DoErase, EraseEntry
  <2>3. view' = SetEntry(view, who, [used |-> FALSE, first |-> view.entry[who].first, size |-> view.entry[who].size])
    BY <1>2, <2>2, EntryErased
  <2> QED
    BY <1>4, <2>1, <2>2, <2>3
<1> QED
  BY <1>5, <1>6, <1>7

LEMMA StoresKept ==
  ASSUME ChainInv, Next
  PROVE  view' \in Store /\ card' \in Store
<1>1. view \in Store /\ card \in Store
  BY TypeParts DEF ChainInv
<1>2. \A b, d : Loads(b, d) => card' \in Store
  BY <1>1, LoadsStore
<1>3. CASE \E f \in File : Calls(f)
  <2>1. PICK f \in File : Calls(f)
    BY <1>3
  <2>2. ASSUME NEW g, NEW s, Starts(g, s) PROVE view' = view /\ card' = card
    BY <2>2 DEF Starts, volume
  <2>3. Refuses => view' = view /\ card' = card
    BY <2>2 DEF Refuses
  <2>4. CASE \E m \in Modes : Open(f, m)
    BY <1>1, <2>2, <2>4 DEF Open
  <2>5. CASE Close(f) \/ SyncFile(f) \/ DirEntry(f) \/ Timestamp(f)
    BY <1>1, <2>2, <2>5 DEF Close, SyncFile, DirEntry, Timestamp
  <2>6. CASE Rewind(f)
    BY <1>1, <2>6 DEF Rewind, volume
  <2>7. CASE ContiguousRange(f) \/ Remove(f)
    BY <1>1, <2>2, <2>3, <2>7 DEF ContiguousRange, Remove
  <2>8. CASE \E p \in Places : SeekSet(f, p) \/ Truncate(f, p)
    BY <1>1, <2>2, <2>3, <2>8 DEF SeekSet, Truncate
  <2>9. CASE \E n \in Sizes : Read(f, n) \/ Write(f, n)
    BY <1>1, <2>2, <2>3, <2>9 DEF Read, Write
  <2> QED
    BY <2>1, <2>4, <2>5, <2>6, <2>7, <2>8, <2>9 DEF Calls
<1>4. CASE DoSync \/ DoCreate \/ DoErase
  BY <1>4, DirectoryStored
<1>5. CASE DoFlush \/ DoFind \/ DoShut \/ DoLook
  BY <1>1, <1>2, <1>5 DEF DoFlush, DoFind, DoShut, DoLook, FlushDone, volume
<1>6. CASE DoSeek \/ DoHop \/ DoArrive \/ DoRead \/ DoCopy \/ DoRange
  BY <1>1, <1>2, <1>6 DEF DoSeek, DoHop, DoArrive, DoRead, DoCopy, DoRange, volume
<1>7. CASE DoPut \/ DoTail \/ DoShrink
  BY <1>1, <1>2, <1>7 DEF DoPut, DoTail, DoShrink, volume
<1>8. CASE DoTake
  <2>1. CASE \E c \in Cluster : Puts(c, Eoc)
    BY <1>1, <2>1, PutsStore
  <2>2. CASE \E c \in Cluster : Loads(FatBlock(c), FALSE) /\ view' = view
    BY <1>1, <1>2, <2>2
  <2> QED
    BY <1>8, <2>1, <2>2 DEF DoTake
<1>9. CASE DoTie
  <2>1. Arg \in Cluster /\ Puts(O.cur, Arg)
    BY <1>9, TieStays DEF DoTie
  <2> QED
    BY <1>1, <2>1, PutsStore
<1>10. CASE DoFree \/ DoEnd
  <2>1. \E c \in Cluster, n \in {Free, Eoc} : Puts(c, n)
    BY <1>10 DEF DoFree, DoEnd
  <2> QED
    BY <1>1, <2>1, PutsStore
<1>11. CASE DoFill
  <2>1. Doing("fill") /\ O.cur \in Cluster /\ ~Idle
    BY <1>11 DEF DoFill, Doing
  <2>2. /\ who \in File /\ O.pos \in Nat /\ IsVolume(view) /\ IsVolume(card) /\ Arg \in Nat
        /\ Bytes \subseteq Position
    BY <2>1, CallObject, FillStays
  <2>3. Written(view) \in Store /\ Written(card) \in Store
    BY <1>1, <2>1, <2>2, WrittenStored
  <2> QED
    BY <1>1, <1>2, <1>11, <2>3 DEF DoFill, FlushDone
<1>12. CASE CacheFails
  BY <1>1, <1>12 DEF CacheFails, LoadFails, FlushFails, FlushDone
<1>13. CASE PastCacheFails
  <2>1. CASE Doing("copy") /\ UNCHANGED volume
    BY <1>1, <2>1 DEF volume
  <2>2. CASE Doing("fill") /\ O.cur \in Cluster
    <3>1. ~Idle
      BY <2>2 DEF Doing
    <3>2. /\ who \in File /\ O.pos \in Nat /\ IsVolume(view) /\ IsVolume(card) /\ Arg \in Nat
          /\ Bytes \subseteq Position
      BY <2>2, <3>1, CallObject, FillStays
    <3>3. Written(view) \in Store /\ Written(card) \in Store
      BY <1>1, <2>2, <3>2, WrittenStored
    <3> QED
      BY <1>1, <1>13, <3>3 DEF PastCacheFails, volume
  <2> QED
    BY <1>13, <2>1, <2>2 DEF PastCacheFails
<1>14. CASE NotInFat \/ Elsewhere \/ PowerLoss
  BY <1>1, <1>14 DEF NotInFat, Elsewhere, PowerLoss, volume
<1>15. CASE NoLongerFollowed
  BY <1>1, <1>15 DEF NoLongerFollowed, vars, volume
<1> QED
  BY <1>3, <1>4, <1>5, <1>6, <1>7, <1>8, <1>9, <1>10, <1>11, <1>12, <1>13, <1>14, <1>15 DEF Next, Works

LEMMA RangedClosed == Ranged(Closed)
<1>1. 0 \in Position
  BY FullIs
<1> QED
  BY <1>1 DEF Ranged, Closed

LEMMA RangedSets ==
  ASSUME ChainInv, ~Idle, NEW u, Ranged(u), Sets(u), NEW f \in File
  PROVE  Ranged(obj'[f])
<1>1. who \in File /\ IInv /\ \A g \in File : Ranged(obj[g])
  BY CallObject, TypeParts DEF ChainInv
<1>2. obj'[who] = u /\ \A g \in File : g # who => obj'[g] = obj[g]
  BY <1>1, SetsIs
<1> QED
  BY <1>1, <1>2

LEMMA RangedMoved ==
  ASSUME NEW o \in Object, Ranged(o)
  PROVE  /\ \A c \in Cluster \cup {0, Eoc} : Ranged([o EXCEPT !.cur = c])
         /\ \A p \in Position : Ranged([o EXCEPT !.pos = p])
         /\ Ranged([o EXCEPT !.cur = 0, !.pos = 0])
         /\ \A p \in Position : Ranged([o EXCEPT !.size = p, !.first = IF p = 0 THEN 0 ELSE o.first, !.dirDirty = TRUE])
         /\ Ranged([o EXCEPT !.dirDirty = FALSE])
<1>1. 0 \in Position
  BY FullIs
<1>2. \A c : /\ [o EXCEPT !.cur = c].first = o.first /\ [o EXCEPT !.cur = c].cur = c
             /\ [o EXCEPT !.cur = c].pos = o.pos /\ [o EXCEPT !.cur = c].size = o.size
  BY DEF Object
<1>3. \A p : /\ [o EXCEPT !.pos = p].first = o.first /\ [o EXCEPT !.pos = p].cur = o.cur
             /\ [o EXCEPT !.pos = p].pos = p /\ [o EXCEPT !.pos = p].size = o.size
  BY DEF Object
<1>4. LET u == [o EXCEPT !.cur = 0, !.pos = 0]
      IN  u.first = o.first /\ u.cur = 0 /\ u.pos = 0 /\ u.size = o.size
  BY DEF Object
<1>5. \A p, h : LET u == [o EXCEPT !.size = p, !.first = h, !.dirDirty = TRUE]
                IN  u.first = h /\ u.cur = o.cur /\ u.pos = o.pos /\ u.size = p
  BY DEF Object
<1>6. LET u == [o EXCEPT !.dirDirty = FALSE]
      IN  u.first = o.first /\ u.cur = o.cur /\ u.pos = o.pos /\ u.size = o.size
  BY DEF Object
<1>7. \A c \in Cluster \cup {0, Eoc} : Ranged([o EXCEPT !.cur = c])
  BY <1>2 DEF Ranged
<1>8. \A p \in Position : Ranged([o EXCEPT !.pos = p])
  BY <1>3 DEF Ranged
<1>9. Ranged([o EXCEPT !.cur = 0, !.pos = 0])
  BY <1>1, <1>4 DEF Ranged
<1>10. \A p \in Position : Ranged([o EXCEPT !.size = p, !.first = IF p = 0 THEN 0 ELSE o.first, !.dirDirty = TRUE])
  BY <1>5 DEF Ranged
<1>11. Ranged([o EXCEPT !.dirDirty = FALSE])
  BY <1>6 DEF Ranged
<1> QED
  BY <1>7, <1>8, <1>9, <1>10, <1>11

LEMMA RangedGrown ==
  ASSUME NEW o \in Object, Ranged(o)
  PROVE  Ranged(Grown(o)) /\ \A c \in Cluster : Ranged(Added(o, c))
<1>1. o.size \in Nat /\ o.pos \in Nat
  BY DEF Object
<1>2. Max({o.size, o.pos}) \in Position
  <2>1. Max({o.size, o.pos}) \in {o.size, o.pos}
    BY <1>1, MostIs
  <2> QED
    BY <2>1 DEF Ranged
<1>3. Grown(o).first = o.first /\ Grown(o).cur = o.cur /\ Grown(o).pos = o.pos /\ Grown(o).size = Max({o.size, o.pos})
  BY DEF Grown, Object
<1>4. \A c : /\ Added(o, c).first = (IF o.first = 0 THEN c ELSE o.first) /\ Added(o, c).cur = c
             /\ Added(o, c).pos = o.pos /\ Added(o, c).size = o.size
  BY DEF Added, Object
<1> QED
  BY <1>2, <1>3, <1>4 DEF Ranged

\* what the FAT has for a cluster
LEMMA EntryRanged ==
  ASSUME view \in Store, NEW c \in Cluster \cup {0}
  PROVE  Entry(c) \in Cluster \cup {0, Eoc}
<1>1. CASE c = 0
  BY <1>1 DEF Entry
<1>2. CASE c \in Cluster /\ c # 0
  <2>1. view.fat \in [Cluster -> Cluster \cup {Free, Eoc}]
    BY StoreIs
  <2> QED
    BY <1>2, <2>1 DEF Entry, Free
<1> QED
  BY <1>1, <1>2

LEMMA FoundRanged ==
  ASSUME ChainInv, DoFind
  PROVE  \E u : Ranged(u) /\ Sets(u)
<1>1. ~Idle
  BY DEF DoFind, Doing
<1>2. view.entry[who] \in Bound
  BY <1>1, CallObject
<1>3. PICK u : /\ u = [open |-> TRUE, mode |-> Arg \ {"trunc"}, first |-> view.entry[who].first, cur |-> 0,
                       pos |-> 0, size |-> view.entry[who].size, dirDirty |-> FALSE]
               /\ Sets(u)
  BY DEF DoFind
<1>4. 0 \in Position
  BY FullIs
<1>5. Ranged(u)
  BY <1>2, <1>3, <1>4 DEF Ranged, Bound
<1> QED
  BY <1>3, <1>5

LEMMA ObjectsAtWork ==
  ASSUME ChainInv, Works, NEW f \in File
  PROVE  Ranged(obj'[f])
<1>1. ~Idle
  BY DEF Works, DoFlush, DoSync, DoFind, DoCreate, DoErase, DoShut, DoLook, DoSeek, DoHop, DoArrive,
     DoRead, DoCopy, DoRange, DoPut, DoTake, DoTie, DoFill, DoTail, DoFree, DoEnd, DoShrink, Doing
<1>2. who \in File /\ O \in Object /\ Ranged(O) /\ view \in Store /\ Ranged(obj[f])
  BY <1>1, CallObject, TypeParts DEF ChainInv
<1>3. \A u : Ranged(u) /\ Sets(u) => Ranged(obj'[f])
  BY <1>1, RangedSets
<1>4. obj' = obj => Ranged(obj'[f])
  BY <1>2
<1>5. \A c \in Cluster \cup {0} : Entry(c) \in Cluster \cup {0, Eoc}
  BY <1>2, EntryRanged
<1>6. \A c \in Cluster \cup {0, Eoc} : Sets([O EXCEPT !.cur = c]) => Ranged(obj'[f])
  BY <1>2, <1>3, RangedMoved
<1>7. \A p \in Position : Sets([O EXCEPT !.pos = p]) => Ranged(obj'[f])
  BY <1>2, <1>3, RangedMoved
<1>8. O.first \in Cluster \cup {0, Eoc}
  BY <1>2 DEF Ranged
<1>9. InFat(O.cur) => Entry(O.cur) \in Cluster \cup {0, Eoc}
  BY <1>5 DEF InFat
<1>10. CASE DoFlush \/ DoCreate \/ DoLook \/ DoRange \/ DoTail \/ DoFree \/ DoEnd
  BY <1>4, <1>10 DEF DoFlush, DoCreate, DoLook, DoRange, DoTail, DoFree, DoEnd
<1>11. CASE DoErase \/ DoShut
  BY <1>3, <1>11, RangedClosed DEF DoErase, DoShut
<1>12. CASE DoFind
  BY <1>3, <1>12, FoundRanged
<1>13. CASE DoSync
  <2>1. obj' = obj \/ Sets([O EXCEPT !.dirDirty = FALSE])
    BY <1>13 DEF DoSync
  <2> QED
    BY <1>2, <1>3, <1>4, <2>1, RangedMoved
<1>14. CASE DoSeek
  <2>1. obj' = obj \/ Sets([O EXCEPT !.cur = 0, !.pos = 0]) \/ Sets([O EXCEPT !.cur = O.first])
    BY <1>14 DEF DoSeek
  <2>2. Ranged([O EXCEPT !.cur = 0, !.pos = 0])
    BY <1>2, RangedMoved
  <2> QED
    BY <1>3, <1>4, <1>6, <1>8, <2>1, <2>2
<1>15. CASE DoHop
  <2>1. InFat(O.cur) /\ Sets([O EXCEPT !.cur = Entry(O.cur)])
    BY <1>15 DEF DoHop
  <2> QED
    BY <1>6, <1>9, <2>1
<1>16. CASE DoArrive
  <2>1. Arg \in Position /\ Sets([O EXCEPT !.pos = Arg])
    BY <1>16, ArriveStays DEF DoArrive
  <2> QED
    BY <1>7, <2>1
<1>17. CASE DoRead
  <2>1. obj' = obj \/ Sets([O EXCEPT !.cur = O.first]) \/ (InFat(O.cur) /\ Sets([O EXCEPT !.cur = Entry(O.cur)]))
    BY <1>17 DEF DoRead
  <2> QED
    BY <1>4, <1>6, <1>8, <1>9, <2>1
<1>18. CASE DoCopy
  <2>1. O.pos + Piece \in Position /\ Sets([O EXCEPT !.pos = O.pos + Piece])
    BY <1>18, CopyStays DEF DoCopy
  <2> QED
    BY <1>7, <2>1
<1>19. CASE DoPut
  <2>1. \/ obj' = obj \/ Sets([O EXCEPT !.cur = O.first]) \/ Sets(Grown(O))
        \/ (O.cur \in Cluster /\ Sets([O EXCEPT !.cur = Entry(O.cur)]))
    BY <1>19 DEF DoPut
  <2>2. Ranged(Grown(O))
    BY <1>2, RangedGrown
  <2>3. O.cur \in Cluster => InFat(O.cur)
    BY DEF InFat
  <2> QED
    BY <1>3, <1>4, <1>6, <1>8, <1>9, <2>1, <2>2, <2>3
<1>20. CASE DoTake
  <2>1. obj' = obj \/ \E c \in Cluster : Sets(Added(O, c))
    BY <1>20 DEF DoTake
  <2> QED
    BY <1>2, <1>3, <1>4, <2>1, RangedGrown
<1>21. CASE DoTie
  <2>1. Arg \in Cluster /\ Sets(Added(O, Arg))
    BY <1>21, TieStays DEF DoTie
  <2> QED
    BY <1>2, <1>3, <2>1, RangedGrown
<1>22. CASE DoFill
  <2>1. O.pos + Piece \in Position /\ Sets([O EXCEPT !.pos = O.pos + Piece])
    BY <1>22, FillStays DEF DoFill
  <2> QED
    BY <1>7, <2>1
<1>23. CASE DoShrink
  <2>1. Arg \in Position /\ Sets([O EXCEPT !.size = Arg, !.first = IF Arg = 0 THEN 0 ELSE O.first, !.dirDirty = TRUE])
    BY <1>23, ShrinkStays DEF DoShrink
  <2>2. Ranged([O EXCEPT !.size = Arg, !.first = IF Arg = 0 THEN 0 ELSE O.first, !.dirDirty = TRUE])
    BY <1>2, <2>1, RangedMoved
  <2> QED
    BY <1>3, <2>1, <2>2
<1> QED
  BY <1>10, <1>11, <1>12, <1>13, <1>14, <1>15, <1>16, <1>17, <1>18, <1>19, <1>20, <1>21, <1>22, <1>23 DEF Works

LEMMA ObjectsKept ==
  ASSUME ChainInv, Next, NEW f \in File
  PROVE  Ranged(obj'[f])
<1>1. Ranged(obj[f]) /\ obj \in [File -> Object]
  BY TypeParts DEF ChainInv, IInv
<1>2. CASE \E g \in File : Calls(g)
  <2>1. PICK g \in File : Calls(g)
    BY <1>2
  <2>2. ASSUME NEW h, NEW s, Starts(h, s) PROVE obj' = obj
    BY <2>2 DEF Starts
  <2>3. Refuses => obj' = obj
    BY <2>2 DEF Refuses
  <2>4. CASE \E m \in Modes : Open(g, m)
    BY <1>1, <2>2, <2>4 DEF Open
  <2>5. CASE Close(g) \/ SyncFile(g) \/ DirEntry(g) \/ Timestamp(g)
    BY <1>1, <2>2, <2>5 DEF Close, SyncFile, DirEntry, Timestamp
  <2>6. CASE Rewind(g)
    <3>1. obj' = [obj EXCEPT ![g].pos = 0, ![g].cur = 0]
      BY <2>6 DEF Rewind
    <3>2. obj' = [obj EXCEPT ![g] = [obj[g] EXCEPT !.cur = 0, !.pos = 0]]
      BY <1>1, <2>1, <3>1 DEF Object
    <3>3. obj'[f] = obj[f] \/ (f = g /\ obj'[f] = [obj[g] EXCEPT !.cur = 0, !.pos = 0])
      BY <1>1, <2>1, <3>2
    <3>4. Ranged([obj[f] EXCEPT !.cur = 0, !.pos = 0])
      BY <1>1, RangedMoved
    <3> QED
      BY <1>1, <3>3, <3>4
  <2>7. CASE ContiguousRange(g) \/ Remove(g)
    BY <1>1, <2>2, <2>3, <2>7 DEF ContiguousRange, Remove
  <2>8. CASE \E p \in Places : SeekSet(g, p) \/ Truncate(g, p)
    BY <1>1, <2>2, <2>3, <2>8 DEF SeekSet, Truncate
  <2>9. CASE \E n \in Sizes : Read(g, n) \/ Write(g, n)
    BY <1>1, <2>2, <2>3, <2>9 DEF Read, Write
  <2> QED
    BY <2>1, <2>4, <2>5, <2>6, <2>7, <2>8, <2>9 DEF Calls
<1>3. CASE Works
  BY <1>3, ObjectsAtWork
<1>4. CASE CacheFails \/ PastCacheFails \/ NotInFat \/ Elsewhere
  BY <1>1, <1>4 DEF CacheFails, PastCacheFails, NotInFat, Elsewhere, Failing, CallFails
<1>5. CASE PowerLoss
  BY <1>5, RangedClosed DEF PowerLoss
<1>6. CASE NoLongerFollowed
  BY <1>1, <1>6 DEF NoLongerFollowed, vars
<1> QED
  BY <1>2, <1>3, <1>4, <1>5, <1>6 DEF Next

LEMMA TypesKept ==
  ASSUME ChainInv, IInv', Next
  PROVE  TypeOK'
<1>1. Marks'
  <2>1. CASE \E f \in File : Calls(f)
    BY <2>1, MarksBetween DEF ChainInv
  <2>2. CASE Works
    BY <2>2, MarksAtWork DEF ChainInv
  <2>3. CASE CacheFails \/ PastCacheFails \/ NotInFat \/ Elsewhere \/ PowerLoss
    BY <2>3, MarksAtFault DEF ChainInv
  <2>4. CASE NoLongerFollowed
    <3>1. UNCHANGED <<who, todo, adrift, spoiled, cut, broken, faults>> /\ Marks
      BY <2>4, TypeParts DEF ChainInv, NoLongerFollowed, vars, call
    <3> QED
      BY <3>1 DEF Marks
  <2> QED
    BY <2>1, <2>2, <2>3, <2>4 DEF Next
<1>2. view' \in Store /\ card' \in Store
  BY StoresKept
<1>3. \A f \in File : Ranged(obj'[f])
  BY ObjectsKept
<1>4. cache'.dirty \in BOOLEAN /\ \A f \in File : obj'[f].open \in BOOLEAN /\ obj'[f].dirDirty \in BOOLEAN
  BY DEF IInv, Coherent, Object
<1> QED
  BY <1>1, <1>2, <1>3, <1>4 DEF TypeOK, Marks, Ranged

-----------------------------------------------------------------------------
(***************************************************************************)
(* The invariant holds                                                     *)
(***************************************************************************)
LEMMA SoundAtWork ==
  ASSUME ChainInv, IInv', Works
  PROVE  \E P \in Trails, Q \in Trails : Sound(P, Q)'
BY FlushSound, SyncSound, FindSound, CreateSound, EraseSound, ShutSound, LookSound,
   SeekSound, HopSound, ArriveSound, ReadSound, CopySound, RangeSound,
   PutSound, TakeSound, TieSound, FillSound, TailSound, FreeSound, EndSound, ShrinkSound DEF Works

LEMMA StepIsSound ==
  ASSUME ChainInv, IInv', Next, ~broken'
  PROVE  \E P \in Trails, Q \in Trails : Sound(P, Q)'
<1>1. CASE \E f \in File : Calls(f)
  BY <1>1, CallsSound
<1>2. CASE Works
  BY <1>2, SoundAtWork
<1>3. CASE CacheFails
  BY <1>3, CacheFailsSound
<1>4. CASE PastCacheFails
  BY <1>4, PastCacheFailsSound
<1>5. CASE NotInFat
  BY <1>5, NotInFatSound
<1>6. CASE Elsewhere
  BY <1>6, ElsewhereSound
<1>7. CASE PowerLoss
  BY <1>7, PowerLossSound
<1>8. CASE NoLongerFollowed
  BY <1>8 DEF NoLongerFollowed, vars
<1> QED
  BY <1>1, <1>2, <1>3, <1>4, <1>5, <1>6, <1>7, <1>8 DEF Next

LEMMA InitTypes == Init => TypeOK
<1>1. SUFFICES ASSUME Init PROVE TypeOK
  OBVIOUS
<1>2. 0 \in Position /\ 0 \in 0 .. MaxFaults
  BY FullIs, FaultsAssumption
<1>3. view \in Store /\ card = view
  <2>1. view = [fat   |-> [c \in Cluster |-> Free],
             entry |-> [f \in File |-> [used |-> FALSE, first |-> 0, size |-> 0]],
             data  |-> [c \in Cluster |-> [i \in 0 .. ClusterSize - 1 |-> Nothing]]] /\ card = view
    BY <1>1 DEF Init
  <2>2. [used |-> FALSE, first |-> 0, size |-> 0] \in Bound
    BY <1>2 DEF Bound
  <2>3. [i \in 0 .. ClusterSize - 1 |-> Nothing] \in [0 .. ClusterSize - 1 -> Byte]
    BY DEF Byte
  <2>4. /\ view = [fat |-> view.fat, entry |-> view.entry, data |-> view.data]
        /\ view.fat \in [Cluster -> Cluster \cup {Free, Eoc}] /\ view.entry \in [File -> Bound]
        /\ view.data \in [Cluster -> [0 .. ClusterSize - 1 -> Byte]]
    BY <2>1, <2>2, <2>3
  <2> QED
    BY <2>1, <2>4, StoreIs
<1>4. \A f \in File : obj[f] = Closed
  BY <1>1 DEF Init
<1>5. \A f \in File : Ranged(obj[f]) /\ obj[f].open \in BOOLEAN /\ obj[f].dirDirty \in BOOLEAN
  BY <1>4, RangedClosed, ClosedIs DEF Object
<1>6. cache.dirty \in BOOLEAN
  BY <1>1 DEF Init
<1>7. Marks
  BY <1>1, <1>2 DEF Init, Marks
<1> QED
  BY <1>3, <1>5, <1>6, <1>7 DEF TypeOK, Marks, Ranged

LEMMA ChainInit == Init => ChainInv
<1>1. SUFFICES ASSUME Init PROVE ChainInv
  OBVIOUS
<1>2. IInv /\ TypeOK
  BY <1>1, InitHolds, InitTypes
<1>3. ~broken
  BY <1>1 DEF Init
<1>4. \E P \in Trails, Q \in Trails : Sound(P, Q)
  BY <1>1, InitSound
<1> QED
  BY <1>2, <1>3, <1>4 DEF ChainInv

LEMMA ChainNext == ChainInv /\ [Next]_vars => ChainInv'
<1>1. CASE ChainInv /\ UNCHANGED vars
  BY <1>1, NothingDone
<1>2. ASSUME ChainInv, Next PROVE ChainInv'
  <2>1. IInv'
    BY <1>2, StepKeeps DEF ChainInv
  <2>2. TypeOK'
    BY <1>2, <2>1, TypesKept
  <2>3. broken' => Idle'
    BY <1>2, BrokenIdle
  <2>4. ~broken' => \E P \in Trails, Q \in Trails : Sound(P, Q)'
    BY <1>2, <2>1, StepIsSound
  <2> QED
    BY <2>1, <2>2, <2>3, <2>4 DEF ChainInv
<1> QED
  BY <1>1, <1>2

\* Whatever calls are made, and whichever transfers fail or power is lost, there are
\* chains for all files as ChainInv says.
THEOREM ChainInvariance == Spec => []ChainInv
<1> QED
  BY ChainInit, ChainNext, PTL DEF Spec
-----------------------------------------------------------------------------
(***************************************************************************)
(* What ClusterAt and ByteAt find                                          *)
(***************************************************************************)
\* one turn of the recursive function in ClusterAt
Turn(w, fat, h, n) ==
  IF n = 0 THEN h ELSE IF w[n - 1] \in Cluster THEN fat[w[n - 1]] ELSE w[n - 1]

\* induction, from the finiteness of intervals: on a set below which nothing is
\* missing, adding 1 would be one-to-one but not onto
LEMMA InductionOnSets ==
  ASSUME NEW S, 0 \in S, \A m \in Nat : m \in S => m + 1 \in S
  PROVE  Nat \subseteq S
<1> SUFFICES ASSUME NEW t \in Nat, t \notin S PROVE FALSE
  OBVIOUS
<1> DEFINE M == {m \in 0 .. t : \A k \in 0 .. m : k \in S}
           succ == [m \in M |-> m + 1]
<1>1. IsFiniteSet(M)
  <2>1. M \subseteq 0 .. t /\ IsFiniteSet(0 .. t) BY FS_Interval
  <2> QED BY <2>1, FS_Subset
<1>2. ASSUME NEW m \in M PROVE m + 1 \in M
  <2>1. m \in 0 .. t /\ m \in S /\ m # t OBVIOUS
  <2>2. m + 1 \in S /\ m + 1 \in 0 .. t BY <2>1
  <2>3. \A k \in 0 .. m + 1 : k \in 0 .. m \/ k = m + 1 BY <2>1
  <2> QED BY <2>2, <2>3
<1>3. succ \in Injection(M, M)
  <2>1. succ \in [M -> M] BY <1>2
  <2>2. \A a, b \in M : succ[a] = succ[b] => a = b OBVIOUS
  <2> QED BY <2>1, <2>2 DEF Injection, IsInjective
<1>4. succ \in Surjection(M, M)
  BY <1>1, <1>3, FS_Injection
<1>5. 0 \in M OBVIOUS
<1>6. PICK m \in M : succ[m] = 0
  BY <1>4, <1>5 DEF Surjection
<1> QED BY <1>6

\* following the entries of the FAT from the head of a chain finds its clusters
LEMMA ClusterAtIs ==
  ASSUME NEW fat, NEW h, NEW x \in Trail, Links(fat, h, x), NEW k \in Nat
  PROVE  ClusterAt(fat, h, k) = At(x, k)
<1> DEFINE g == [n \in 0 .. k |-> At(x, n)]
<1>1. At(x, 0) = h
  BY DEF At, Links, Trail
<1>2. ASSUME NEW n \in Nat
      PROVE  At(x, n + 1) = IF At(x, n) \in Cluster THEN fat[At(x, n)] ELSE At(x, n)
  <2>1. CASE At(x, n) \in Cluster
    BY <2>1, AtIs
  <2>2. CASE At(x, n) \notin Cluster
    <3>1. x.n \in Nat
      BY DEF Trail
    <3>2. n < x.n => At(x, n) \in Cluster
      BY <3>1 DEF At, Links
    <3> QED
      BY <2>2, <3>1, <3>2 DEF At
  <2> QED
    BY <2>1, <2>2
<1>3. \A n \in 0 .. k : At(x, n) = Turn(g, fat, h, n)
  <2>1. ASSUME NEW n \in 0 .. k, n # 0 PROVE At(x, n) = Turn(g, fat, h, n)
    <3>1. n - 1 \in Nat /\ n - 1 \in 0 .. k /\ (n - 1) + 1 = n
      BY <2>1
    <3>2. g[n - 1] = At(x, n - 1)
      BY <3>1
    <3>3. At(x, n) = IF At(x, n - 1) \in Cluster THEN fat[At(x, n - 1)] ELSE At(x, n - 1)
      BY <1>2, <3>1
    <3> HIDE DEF g
    <3> QED
      BY <2>1, <3>2, <3>3 DEF Turn
  <2> QED
    BY <1>1, <2>1 DEF Turn
<1>4. g = [n \in 0 .. k |-> Turn(g, fat, h, n)]
  BY <1>3
<1>5. ASSUME NEW w, w = [n \in 0 .. k |-> Turn(w, fat, h, n)]
      PROVE  w = g
  <2> DEFINE S == {n \in Nat : n <= k => w[n] = At(x, n)}
  <2>1. 0 \in S
    <3>1. w[0] = Turn(w, fat, h, 0)
      BY <1>5
    <3> QED
      BY <1>1, <3>1 DEF Turn
  <2>2. ASSUME NEW n \in Nat, n \in S PROVE n + 1 \in S
    <3>1. CASE n + 1 <= k
      <4>1. n \in 0 .. k /\ n + 1 \in 0 .. k /\ w[n] = At(x, n) /\ (n + 1) - 1 = n /\ n + 1 # 0
        BY <2>2, <3>1
      <4>2. w[n + 1] = Turn(w, fat, h, n + 1)
        BY <1>5, <4>1
      <4>3. w[n + 1] = IF w[n] \in Cluster THEN fat[w[n]] ELSE w[n]
        BY <4>1, <4>2 DEF Turn
      <4>4. w[n + 1] = At(x, n + 1)
        BY <1>2, <4>1, <4>3
      <4> QED
        BY <4>4
    <3>2. CASE ~(n + 1 <= k)
      BY <3>2
    <3> QED
      BY <3>1, <3>2
  <2>3. Nat \subseteq S
    BY <2>1, <2>2, InductionOnSets
  <2>4. \A n \in 0 .. k : w[n] = At(x, n)
    BY <2>3
  <2>5. w = [n \in 0 .. k |-> w[n]]
    BY <1>5
  <2> QED
    BY <2>4, <2>5
<1>6. ClusterAt(fat, h, k) = g[k]
  <2> DEFINE w == CHOOSE v : v = [n \in 0 .. k |-> Turn(v, fat, h, n)]
  <2> HIDE DEF g
  <2>1. w = [n \in 0 .. k |-> Turn(w, fat, h, n)]
    BY <1>4, Zenon
  <2>2. ClusterAt(fat, h, k) = w[k]
    BY Zenon DEF ClusterAt, Turn
  <2>3. w = g
    BY <1>5, <2>1
  <2> QED
    BY <2>2, <2>3
<1>7. g[k] = At(x, k)
  OBVIOUS
<1> QED
  BY <1>6, <1>7

\* the bytes of a file that is held are found
LEMMA ByteAtIs ==
  ASSUME NEW v, NEW f, NEW h, NEW x \in Trail, Links(v.fat, h, x), NEW l \in Nat, Holds(v, f, x, l),
         NEW p \in 0 .. l - 1
  PROVE  ByteAt(v, h, p) = <<f, p>>
<1>1. p \in Nat /\ p < l /\ Index(p) \in Nat
  BY PlaceIs
<1>2. Index(p) < x.n /\ v.data[x.at[Index(p)]][InCluster(p)] = <<f, p>>
  BY <1>1 DEF Holds
<1>3. PICK k \in Nat : k = Index(p)
  BY <1>1
<1>4. x.at[k] \in Cluster /\ v.fat[x.at[k]] # Free
  BY <1>2, <1>3, LinkedNotFree
<1>5. ClusterAt(v.fat, h, k) = At(x, k)
  BY ClusterAtIs
<1>6. At(x, k) = x.at[k]
  BY <1>2, <1>3 DEF At, Trail
<1> QED
  BY <1>2, <1>3, <1>4, <1>5, <1>6 DEF ByteAt

LEMMA OthersFine ==
  ASSUME ChainInv, ~broken, NEW f \in File, Idle \/ who # f
  PROVE  \E x \in Trail : Fine(view, obj[f], cut, spoiled, adrift, f, x)
<1>1. PICK P \in Trails, Q \in Trails : Sound(P, Q)
  BY DEF ChainInv
<1>2. who # f
  BY NoneAssumption DEF ChainInv, TypeOK, Idle
<1>3. Fine(view, obj[f], cut, spoiled, adrift, f, P[f])
  BY <1>1, <1>2 DEF Sound, Ground
<1> QED
  BY <1>1, <1>3 DEF Trails

-----------------------------------------------------------------------------
(***************************************************************************)
(* The properties                                                          *)
(***************************************************************************)
\* curCluster_ is the cluster of the current position, as SdFat.h:410 says of it, at a
\* boundary the one before; for every open file no call is at work on, unless a call
\* on it failed between moving one and the other. The types are part of the property.
THEOREM ClusterIsCurrent == Spec => []CurrentCluster
<1>1. ChainInv => CurrentCluster
  <2>1. SUFFICES ASSUME ChainInv, ~broken, NEW f \in File, f \notin adrift, obj[f].open, Idle \/ who # f
                 PROVE  obj[f].cur = IF obj[f].pos = 0 THEN 0
                                     ELSE ClusterAt(view.fat, obj[f].first, Index(obj[f].pos - 1))
    BY DEF CurrentCluster, ChainInv
  <2>2. PICK x \in Trail : Fine(view, obj[f], cut, spoiled, adrift, f, x)
    BY <2>1, OthersFine
  <2>3. Links(view.fat, obj[f].first, x) /\ obj[f].cur = AtPos(x, obj[f].pos)
    BY <2>1, <2>2 DEF Fine, Base, Placed, HeadOf
  <2>4. obj[f].pos \in Nat
    BY <2>1 DEF ChainInv, IInv, Object
  <2>5. CASE obj[f].pos # 0
    <3>1. obj[f].pos - 1 \in Nat
      BY <2>4, <2>5
    <3>2. PICK k \in Nat : k = Index(obj[f].pos - 1)
      BY <3>1, PlaceIs
    <3>3. ClusterAt(view.fat, obj[f].first, k) = At(x, k)
      BY <2>3, ClusterAtIs
    <3> QED
      BY <2>3, <2>5, <3>2, <3>3 DEF AtPos
  <2> QED
    BY <2>3, <2>5 DEF AtPos
<1> QED
  BY <1>1, ChainInvariance, PTL

\* write and what it calls (SdFile.cpp:1129-1221, 1070-1111), and all other calls on any
\* file, leave in an open file the bytes that were put there, each at its position.
THEOREM BytesAreKept == Spec => []BytesKept
<1>1. ChainInv => BytesKept
  <2>1. SUFFICES ASSUME ChainInv, ~broken, NEW f \in File, f \notin spoiled, obj[f].open,
                        ~(who = f /\ ~Idle), NEW p \in 0 .. obj[f].size - 1
                 PROVE  ByteAt(view, obj[f].first, p) = <<f, p>>
    BY DEF BytesKept
  <2>2. PICK x \in Trail : Fine(view, obj[f], cut, spoiled, adrift, f, x)
    BY <2>1, OthersFine
  <2>3. Links(view.fat, obj[f].first, x) /\ Holds(view, f, x, obj[f].size)
    BY <2>1, <2>2 DEF Fine, Base, HeadOf
  <2>4. obj[f].size \in Nat
    BY <2>1 DEF ChainInv, IInv, Object
  <2> QED
    BY <2>1, <2>3, <2>4, ByteAtIs
<1> QED
  BY <1>1, ChainInvariance, PTL

\* At any moment the card alone has whole files: the order in which write, sync, truncate
\* and remove change data, FAT and entry never puts an entry on the card whose size or
\* chain runs ahead of what is there.
THEOREM CardIsSound == Spec => []CardSound
<1>1. ChainInv => CardSound
  <2>1. SUFFICES ASSUME ChainInv, ~broken, NEW f \in File, f \notin spoiled, f \notin cut, card.entry[f].used,
                        NEW p \in 0 .. card.entry[f].size - 1
                 PROVE  ByteAt(card, card.entry[f].first, p) = <<f, p>>
    BY DEF CardSound, WholeOnCard
  <2>2. PICK P \in Trails, Q \in Trails : Sound(P, Q)
    BY <2>1 DEF ChainInv
  <2>3. PICK x \in Trail : x = Q[f]
    BY DEF Trails
  <2>4. Told(card, SizeOf(view, obj[f], f), spoiled, f, x)
    BY <2>1, <2>2, <2>3 DEF Sound, Ground, Backed
  <2>5. Links(card.fat, card.entry[f].first, x) /\ Holds(card, f, x, card.entry[f].size)
    BY <2>1, <2>4 DEF Told, HeadIn
  <2>6. card.entry[f].size \in Nat
    BY <2>1, FileHere DEF ChainInv, IInv, Coherent
  <2> QED
    BY <2>1, <2>5, <2>6, ByteAtIs
<1> QED
  BY <1>1, ChainInvariance, PTL

\* read (SdFile.cpp:665-717) gives the bytes of the file at the positions asked for, up
\* to the size, from a file that is not adrift.
THEOREM ReadsGiveBack == Spec => []ReadsBack
<1>1. ChainInv => ReadsBack
  <2>1. SUFFICES ASSUME ChainInv, ~broken, who \notin adrift, who \notin spoiled, who # None, NEW r \in got,
                        r[1] < obj[who].size
                 PROVE  r[2] = <<who, r[1]>>
    BY DEF ReadsBack
  <2>2. PICK P \in Trails, Q \in Trails : Sound(P, Q)
    BY <2>1 DEF ChainInv
  <2>3. Phase(P, Q)
    BY <2>1, <2>2 DEF Sound
  <2>4. Reading(P[who])
    BY <2>1, <2>3 DEF Phase, Quiet, Writing, Seeking, Truncating, CutsFirst, FreesNext, FreesLoose, EndsChain, Shrinks
  <2> QED
    BY <2>1, <2>4 DEF Reading, O
<1> QED
  BY <1>1, ChainInvariance, PTL

\* All variables keep their types, so the chain behind every position and size of a file
\* is in the volume, and every task that goes on has a cluster or an end of chain.
THEOREM TypeCorrect == Spec => []TypeOK
<1>1. ChainInv => TypeOK
  BY DEF ChainInv
<1> QED
  BY <1>1, ChainInvariance, PTL

\* A piece of a transfer of a file that is not adrift.
TransfersInPlace ==
  ~broken /\ who \notin adrift /\ (Doing("fill") \/ Doing("copy")) =>
    O.cur = ClusterAt(view.fat, O.first, Index(O.pos))

\* What write and read put into and get out of a block (SdFile.cpp:1167-1201, 693-714) is
\* in the cluster that the position lies in, as long as no call on the file failed. The
\* run sdfile_full shows how it goes wrong after one did.
THEOREM PiecesInPlace == Spec => []TransfersInPlace
<1>1. ChainInv => TransfersInPlace
  <2>1. SUFFICES ASSUME ChainInv, ~broken, who \notin adrift, NEW d \in {"fill", "copy"}, Doing(d)
                 PROVE  O.cur = ClusterAt(view.fat, O.first, Index(O.pos))
    BY DEF TransfersInPlace
  <2>2. PICK P \in Trails, Q \in Trails :
          /\ P[who] \in Trail
          /\ d \in {"read", "copy"} => Reading(P[who])
          /\ d \in {"put", "fill", "take", "tie"} => Writing(P[who], P, Q)
    BY <2>1, AtPhase
  <2>3. PICK x \in Trail : x = P[who]
    BY <2>2
  <2>4. O \in Object
    BY <2>1, AtPhase
  <2>5. O.open /\ Base(view, O, cut, spoiled, who, x, O.size) /\ O.cur = At(x, Index(O.pos))
    <3>1. CASE d = "copy"
      <4>1. Reading(x)
        BY <2>2, <2>3, <3>1
      <4>2. PICK n \in Nat :
              \/ todo = <<Task("read", n)>>
              \/ n > 0 /\ todo = <<Task("copy", n)>> /\ Tracks(O, who, adrift, At(x, Index(O.pos)), n)
        BY <4>1 DEF Reading
      <4>3. todo # <<Task("read", n)>>
        BY <2>1, <3>1 DEF Doing, Task
      <4> QED
        BY <2>1, <4>1, <4>2, <4>3 DEF Reading, Intact, Tracks
    <3>2. CASE d = "fill"
      <4>1. Writing(x, P, Q)
        BY <2>2, <2>3, <3>2
      <4>2. PICK n \in Nat :
              \/ todo = <<Task("put", n)>>
              \/ n > 0 /\ todo = <<Task("fill", n)>> /\ Tracks(O, who, adrift, At(x, Index(O.pos)), n)
              \/ todo = <<Task("take", 0), Task("fill", n)>>
              \/ \E c \in Cluster : todo = <<Task("tie", c), Task("fill", n)>>
        BY <4>1 DEF Writing
      <4>3. /\ todo # <<Task("put", n)>> /\ todo # <<Task("take", 0), Task("fill", n)>>
            /\ \A c : todo # <<Task("tie", c), Task("fill", n)>>
        BY <2>1, <3>2 DEF Doing, Task
      <4> QED
        BY <2>1, <4>1, <4>2, <4>3 DEF Writing, Intact, Tracks
    <3> QED
      BY <3>1, <3>2
  <2>6. Links(view.fat, O.first, x)
    BY <2>5 DEF Base, HeadOf
  <2>7. PICK k \in Nat : k = Index(O.pos)
    BY <2>4, PlaceIs DEF Object
  <2>8. ClusterAt(view.fat, O.first, k) = At(x, k)
    BY <2>6, ClusterAtIs
  <2> QED
    BY <2>5, <2>7, <2>8
<1> QED
  BY <1>1, ChainInvariance, PTL

\* Open files no call is at work on have clusters of their own, and no chain comes back
\* to a cluster of its own.
NoClusterTwice ==
  ~broken => \A f \in File, g \in File : \A i \in Nat, j \in Nat :
    LET c == ClusterAt(view.fat, obj[f].first, i)
    IN obj[f].open /\ obj[g].open /\ (Idle \/ who \notin {f, g}) /\ c \in Cluster
       /\ c = ClusterAt(view.fat, obj[g].first, j) => f = g /\ i = j

\* What addCluster takes (SdFile.cpp:32-41) is nobody's, and what truncate and remove free
\* (SdFile.cpp:1070-1111, 779-795) nobody needs, also when they stop halfway: files never share a
\* cluster, until one is freed that an entry or an object still refers to (broken).
THEOREM ClustersAreApart == Spec => []NoClusterTwice
<1>1. ChainInv => NoClusterTwice
  <2>1. SUFFICES ASSUME ChainInv, ~broken, NEW f \in File, NEW g \in File, NEW i \in Nat, NEW j \in Nat,
                        obj[f].open, obj[g].open, Idle \/ who \notin {f, g},
                        ClusterAt(view.fat, obj[f].first, i) \in Cluster,
                        ClusterAt(view.fat, obj[f].first, i) = ClusterAt(view.fat, obj[g].first, j)
                 PROVE  f = g /\ i = j
    BY DEF NoClusterTwice
  <2>2. PICK P \in Trails, Q \in Trails : Sound(P, Q)
    BY <2>1 DEF ChainInv
  <2>3. who # f /\ who # g
    BY <2>1, NoneAssumption DEF ChainInv, TypeOK, Idle
  <2>4. PICK x \in Trail, y \in Trail : x = P[f] /\ y = P[g]
    BY DEF Trails
  <2>5. Links(view.fat, obj[f].first, x) /\ Links(view.fat, obj[g].first, y) /\ Apart(P, P)
    BY <2>1, <2>2, <2>3, <2>4 DEF Sound, Ground, Fine, Base, HeadOf
  <2>6. ClusterAt(view.fat, obj[f].first, i) = At(x, i)
    BY <2>5, ClusterAtIs
  <2>7. ClusterAt(view.fat, obj[g].first, j) = At(y, j)
    BY <2>5, ClusterAtIs
  <2>8. At(x, i) \in Cluster /\ At(y, j) \in Cluster /\ At(x, i) = At(y, j)
    BY <2>1, <2>6, <2>7
  <2>9. i < x.n /\ At(x, i) = x.at[i]
    BY <2>5, <2>8, AtIs
  <2>10. j < y.n /\ At(y, j) = y.at[j]
    BY <2>5, <2>8, AtIs
  <2>11. i < P[f].n /\ j < P[g].n /\ P[f].at[i] = P[g].at[j]
    BY <2>4, <2>8, <2>9, <2>10
  <2> QED
    BY <2>5, <2>11 DEF Apart
<1> QED
  BY <1>1, ChainInvariance, PTL
=============================================================================

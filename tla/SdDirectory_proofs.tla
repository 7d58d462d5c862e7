------------------------- MODULE SdDirectory_proofs -------------------------
(***************************************************************************)
(* Proofs about SdDirectory, for any names, any chains, clusters of any    *)
(* number of slots, any number of objects and of accesses that fail.       *)
(*                                                                         *)
(* The invariant is Good(disk, obj), of a volume and the objects that are  *)
(* open on it.  It holds of every state that a call goes through, so it is *)
(* stated of a volume and objects, not of the variables:                   *)
(*  - a lemma ...Good says that a write to the volume, or a change of an   *)
(*    object, keeps it;                                                    *)
(*  - a lemma ...Fine says that every result of an operation has it, unless*)
(*    the volume is no longer followed;                                    *)
(*  - the calls, at the end, are those operations on the variables.        *)
(***************************************************************************)
EXTENDS SdDirectory, SequenceTheorems, FiniteSetTheorems, TLAPS

\* Types
SlotSet == [what : {"free", "deleted", "file", "dir", Dot, DotDot, "data"},
            name : Name \cup {Bad}, node : Node \cup {None}, size : Nat]
ObjectSet == [type : {"closed", "half", "file", "dir", "root16", "root32"},
              node : Node \cup {Root, None}, size : Nat,
              at : {<<>>} \cup (Chains \X Nat), write : BOOLEAN, dirty : BOOLEAN]
Disks == {D \in [Chains -> Seq(SlotSet)] : \A d \in Chains : Len(D[d]) = 0 \/ Len(D[d]) >= 2}
Objects == [Object -> ObjectSet]

-----------------------------------------------------------------------------
(***************************************************************************)
(* The invariant                                                           *)
(***************************************************************************)
Entry(D, d, i) == d \in Chains /\ i \in 1 .. Len(D[d]) /\ IsUsed(D[d][i])

\* A chain has no name twice, and nothing behind a slot that was never used: of all
\* chains, for a file's may become a directory's.
Whole(D) ==
  \A d \in Chains : \A i \in 1 .. Len(D[d]) : IsUsed(D[d][i]) =>
    /\ \A j \in 1 .. Len(D[d]) : IsUsed(D[d][j]) /\ D[d][i].name = D[d][j].name => i = j
    /\ \A j \in 1 .. i : D[d][j].what # "free"

\* Entries do not share chains.
Apart(D) ==
  \A d, e \in Chains : \A i \in 1 .. Len(D[d]), j \in 1 .. Len(D[e]) :
    /\ IsUsed(D[d][i]) /\ IsUsed(D[e][j])
    /\ D[d][i].node = D[e][j].node /\ D[d][i].node # None
    => d = e /\ i = j

\* The first two slots of chain n name it and its parent d, once makeDir() wrote them.
Named(D, n, d) ==
  D[n][1].what = Dot => /\ D[n][1].node = n /\ D[n][2].what = DotDot
                        /\ D[n][2].node = IF d = Root THEN None ELSE d
\* The chain of an entry is there.
Linked(D) ==
  \A d \in Chains : \A i \in 1 .. Len(D[d]) : IsUsed(D[d][i]) =>
    LET e == D[d][i] IN
    /\ e.node # d
    /\ e.node # None => Len(D[e.node]) > 0
    /\ e.size > 0 => e.node # None
    /\ e.what = "dir" /\ e.node # None => Named(D, e.node, d)

\* What an object has that its entry does not say yet is nobody else's.
Alone(D, O, h) ==
  LET n == O[h].node IN
  /\ D[n][1].what # Dot
  /\ \A g \in Object : g # h => O[g].node # n
  /\ \A d \in Chains : \A i \in 1 .. Len(D[d]) : IsUsed(D[d][i]) => D[d][i].node # n

\* An object's entry is there; the object says more than it only while it is dirty.
Placed(D, O, h) ==
  LET o == O[h]
      e == D[o.at[1]][o.at[2]]
  IN /\ o.at \in Chains \X Nat /\ Entry(D, o.at[1], o.at[2])
     /\ o.node \in Node \cup {None} /\ o.node # o.at[1]
     /\ o.size > 0 => o.node # None
     /\ o.node # None => Len(D[o.node]) > 0
     /\ ~o.dirty => e.node = o.node
     /\ o.dirty => e.node = None /\ o.node # None /\ Alone(D, O, h)
     /\ o.type = "dir" /\ e.what = "dir" => o.node # None

\* What an object says of its directory or file is so.
Current(D, O, h) ==
  LET o == O[h] IN
  /\ o.type = "closed" => o = Closed
  /\ o.type = "half" => o = Half
  /\ IsRoot(o) => o.node = Root /\ o.at = <<>> /\ ~o.dirty
  /\ IsDir(o) /\ o.size > 0 => o.size = Len(D[o.node])
  /\ o.type \in {"file", "dir"} => Placed(D, O, h)

\* All of it
Good(D, O) ==
  /\ D \in Disks /\ O \in Objects
  /\ Whole(D) /\ Apart(D) /\ Linked(D)
  /\ \A h \in Object : Current(D, O, h)

-----------------------------------------------------------------------------
(***************************************************************************)
(* What keeps it: the writes to the volume, and the changes of objects     *)
(***************************************************************************)
\* What a slot says
LEMMA CellIs ==
  ASSUME NEW D \in Disks, NEW d \in Chains
  PROVE  /\ D[d] \in Seq(SlotSet) /\ Len(D[d]) \in Nat /\ (Len(D[d]) = 0 \/ Len(D[d]) >= 2)
         /\ D[d] = <<>> <=> Len(D[d]) = 0
         /\ \A i \in 1 .. Len(D[d]) :
              /\ D[d][i] \in SlotSet /\ D[d][i].name \in Name \cup {Bad}
              /\ D[d][i].node \in Node \cup {None} /\ D[d][i].size \in Nat
<1>1. D[d] \in Seq(SlotSet) /\ (Len(D[d]) = 0 \/ Len(D[d]) >= 2)
  BY DEF Disks
<1>2. D[d] = <<>> <=> Len(D[d]) = 0
  BY <1>1, EmptySeq
<1>3. \A i \in 1 .. Len(D[d]) : D[d][i] \in SlotSet
  BY <1>1
<1> QED
  BY <1>1, <1>2, <1>3 DEF SlotSet

LEMMA PairIs ==
  ASSUME NEW S, NEW T, NEW p \in S \X T
  PROVE  p = <<p[1], p[2]>> /\ p[1] \in S /\ p[2] \in T /\ p # <<>>
  OBVIOUS

LEMMA PlacedIs ==
  ASSUME NEW D, NEW O, NEW h, Placed(D, O, h)
  PROVE  /\ O[h].at = <<O[h].at[1], O[h].at[2]>> /\ O[h].at # <<>>
         /\ O[h].at[1] \in Chains /\ O[h].at[2] \in Nat /\ Entry(D, O[h].at[1], O[h].at[2])
         /\ O[h].at[2] \in 1 .. Len(D[O[h].at[1]]) /\ IsUsed(D[O[h].at[1]][O[h].at[2]])
<1>1. O[h].at \in Chains \X Nat /\ Entry(D, O[h].at[1], O[h].at[2])
  BY Zenon DEF Placed
<1>2. /\ O[h].at = <<O[h].at[1], O[h].at[2]>> /\ O[h].at # <<>>
      /\ O[h].at[1] \in Chains /\ O[h].at[2] \in Nat
  <2> DEFINE p == O[h].at
  <2>1. p \in Chains \X Nat
    BY <1>1
  <2> HIDE DEF p
  <2>2. p = <<p[1], p[2]>> /\ p[1] \in Chains /\ p[2] \in Nat /\ p # <<>>
    BY ONLY <2>1, PairIs
  <2> QED
    BY <2>2 DEF p
<1>3. Entry(D, O[h].at[1], O[h].at[2])
  BY <1>1
<1> QED
  BY <1>2, <1>3, Zenon DEF Entry

LEMMA ApartIs ==
  ASSUME NEW D, Apart(D), NEW x \in Chains, NEW y \in Chains,
         NEW k \in 1 .. Len(D[x]), NEW j \in 1 .. Len(D[y]),
         IsUsed(D[x][k]), IsUsed(D[y][j]), D[x][k].node = D[y][j].node, D[x][k].node # None
  PROVE  x = y /\ k = j
  BY Zenon DEF Apart

\* D2 is D with e in slot i of chain d.
PutAs(D, D2, d, i, e) ==
  /\ D2 \in Disks /\ d \in Chains /\ i \in 1 .. Len(D[d])
  /\ \A x \in Chains : Len(D2[x]) = Len(D[x])
  /\ \A x \in Chains : \A k \in 1 .. Len(D[x]) : x # d \/ k # i => D2[x][k] = D[x][k]
  /\ D2[d][i] = e

LEMMA PutIs ==
  ASSUME NEW D \in Disks, NEW d \in Chains, NEW i \in 1 .. Len(D[d]), NEW e \in SlotSet
  PROVE  PutAs(D, [D EXCEPT ![d][i] = e], d, i, e)
<1> DEFINE D2 == [D EXCEPT ![d][i] = e]
           c == [D[d] EXCEPT ![i] = e]
<1>1. D \in [Chains -> Seq(SlotSet)] /\ D[d] \in Seq(SlotSet)
  BY DEF Disks
<1>2. c \in Seq(SlotSet) /\ Len(c) = Len(D[d]) /\ c[i] = e
      /\ \A k \in 1 .. Len(D[d]) : k # i => c[k] = D[d][k]
  BY <1>1, ExceptSeq
<1>3. D2 = [D EXCEPT ![d] = c]
  BY Zenon
<1> HIDE DEF c
<1>4. D2[d] = c /\ \A x \in Chains : x # d => D2[x] = D[x]
  BY <1>1, <1>3, Zenon
<1>5. D2 \in [Chains -> Seq(SlotSet)]
  BY <1>1, <1>2, <1>3, Zenon
<1> HIDE DEF D2
<1>6. D2 \in Disks
  BY <1>2, <1>4, <1>5 DEF Disks
<1> QED
  BY <1>2, <1>4, <1>6 DEF PutAs, D2

LEMMA NamedKept ==
  ASSUME NEW D, NEW D2, NEW n, NEW x, Named(D, n, x),
         D2[n][1] = D[n][1] \/ D2[n][1].what # Dot,
         D2[n][2] = D[n][2] \/ D[n][2].what # DotDot
  PROVE  Named(D2, n, x)
  BY DEF Named

\* What an object that is not changed needs for what it says to stay so.
LEMMA CurrentKept ==
  ASSUME NEW D, NEW D2, NEW O, NEW O2, NEW h \in Object, O \in Objects, Current(D, O, h),
         O2[h] = O[h],
         IsDir(O[h]) /\ O[h].node \in Chains => Len(D2[O[h].node]) = Len(D[O[h].node]),
         O[h].type \in {"file", "dir"} => Placed(D2, O2, h)
  PROVE  Current(D2, O2, h)
<1>1. O[h] \in ObjectSet
  BY DEF Objects
<1>2. IsDir(O[h]) /\ O[h].size > 0 => O[h].node \in Chains
  BY <1>1 DEF Current, Placed, IsDir, IsRoot, Chains, ObjectSet
<1> QED
  BY <1>1, <1>2 DEF Current

\* An entry is made.
LEMMA MadeGood ==
  ASSUME NEW D, NEW O, NEW D2, NEW d, NEW i, NEW name \in Name, Good(D, O),
         PutAs(D, D2, d, i, Slot("file", name, None, 0)),
         D[d][i].what \in {"free", "deleted"},
         \A j \in 1 .. i - 1 : D[d][j].what # "free",
         \A j \in 1 .. Len(D[d]) : IsUsed(D[d][j]) => D[d][j].name # name
  PROVE  Good(D2, O)
<1> DEFINE e == Slot("file", name, None, 0)
<1>1. /\ D \in Disks /\ O \in Objects /\ Whole(D) /\ Apart(D) /\ Linked(D) /\ D2 \in Disks
      /\ d \in Chains /\ i \in 1 .. Len(D[d])
  BY DEF Good, PutAs
<1>2. /\ \A x \in Chains : Len(D2[x]) = Len(D[x]) /\ Len(D[x]) \in Nat /\ (Len(D[x]) = 0 \/ Len(D[x]) >= 2)
      /\ \A x \in Chains : \A k \in 1 .. Len(D[x]) : x # d \/ k # i => D2[x][k] = D[x][k]
      /\ D2[d][i] = e /\ e.what = "file" /\ e.name = name /\ e.node = None /\ e.size = 0
  BY <1>1, CellIs DEF PutAs, Slot
<1> HIDE DEF e
<1>3. Whole(D2)
  <2> SUFFICES ASSUME NEW x \in Chains, NEW k \in 1 .. Len(D2[x]), IsUsed(D2[x][k])
               PROVE  /\ \A j \in 1 .. Len(D2[x]) :
                           IsUsed(D2[x][j]) /\ D2[x][k].name = D2[x][j].name => k = j
                      /\ \A j \in 1 .. k : D2[x][j].what # "free"
    BY Zenon DEF Whole
  <2>1. \A y \in 1 .. Len(D[x]) : IsUsed(D[x][y]) =>
          /\ \A j \in 1 .. Len(D[x]) : IsUsed(D[x][j]) /\ D[x][y].name = D[x][j].name => y = j
          /\ \A j \in 1 .. y : D[x][j].what # "free"
    BY <1>1, Zenon DEF Whole
  <2>2. k \in Int /\ k <= Len(D[x]) /\ k >= 1 /\ i \in Int
    BY <1>1, <1>2
  <2>3. CASE x = d /\ k = i
    BY <1>1, <1>2, <2>1, <2>2, <2>3
  <2>4. CASE x # d \/ k # i
    <3>1. D2[x][k] = D[x][k] /\ k \in 1 .. Len(D[x]) /\ IsUsed(D[x][k])
      BY <1>1, <1>2, <2>2, <2>4
    <3>2. /\ \A j \in 1 .. Len(D[x]) : IsUsed(D[x][j]) /\ D[x][k].name = D[x][j].name => k = j
          /\ \A j \in 1 .. k : D[x][j].what # "free"
      BY <2>1, <3>1, Zenon
    <3>3. ASSUME NEW j \in 1 .. Len(D2[x]), IsUsed(D2[x][j]), D2[x][k].name = D2[x][j].name
          PROVE  k = j
      <4>1. j \in 1 .. Len(D[x])
        BY <1>2
      <4>2. x # d \/ j # i
        <5> SUFFICES ASSUME x = d, j = i PROVE FALSE
          OBVIOUS
        <5>1. D2[x][j].name = name
          BY <1>2, Zenon
        <5>2. D[x][k].name # name
          BY <3>1, Zenon
        <5> QED
          BY <3>1, <3>3, <5>1, <5>2, Zenon
      <4>3. D2[x][j] = D[x][j]
        BY <1>2, <4>1, <4>2, Zenon
      <4> QED
        BY <3>1, <3>2, <3>3, <4>1, <4>3, Zenon
    <3>4. ASSUME NEW j \in 1 .. k PROVE D2[x][j].what # "free"
      <4>1. j \in 1 .. Len(D[x])
        BY <2>2
      <4>2. CASE x = d /\ j = i
        <5>1. e.what # "free"
          BY <1>2
        <5> QED
          BY <1>2, <4>2, <5>1, Zenon
      <4>3. CASE x # d \/ j # i
        BY <1>2, <3>2, <4>1, <4>3, Zenon
      <4> QED
        BY <4>2, <4>3
    <3> QED
      BY <3>3, <3>4, Zenon
  <2> QED
    BY <2>3, <2>4
<1>4. Apart(D2)
  <2> SUFFICES ASSUME NEW x \in Chains, NEW y \in Chains,
                      NEW k \in 1 .. Len(D2[x]), NEW j \in 1 .. Len(D2[y]),
                      IsUsed(D2[x][k]), IsUsed(D2[y][j]), D2[x][k].node = D2[y][j].node,
                      D2[x][k].node # None
               PROVE  x = y /\ k = j
    BY Zenon DEF Apart
  <2>1. (x # d \/ k # i) /\ (y # d \/ j # i)
    BY <1>2
  <2>2. /\ D2[x][k] = D[x][k] /\ k \in 1 .. Len(D[x])
        /\ D2[y][j] = D[y][j] /\ j \in 1 .. Len(D[y])
    BY <1>1, <1>2, <2>1
  <2>3. /\ IsUsed(D[x][k]) /\ IsUsed(D[y][j]) /\ D[x][k].node = D[y][j].node
        /\ D[x][k].node # None
    BY <2>2, Zenon
  <2> QED
    BY <1>1, <2>2, <2>3, ApartIs, Zenon
<1>5. Linked(D2)
  <2> SUFFICES ASSUME NEW x \in Chains, NEW k \in 1 .. Len(D2[x]), IsUsed(D2[x][k])
               PROVE  /\ D2[x][k].node # x
                      /\ D2[x][k].node # None => Len(D2[D2[x][k].node]) > 0
                      /\ D2[x][k].size > 0 => D2[x][k].node # None
                      /\ D2[x][k].what = "dir" /\ D2[x][k].node # None => Named(D2, D2[x][k].node, x)
    BY Zenon DEF Linked
  <2>1. CASE x = d /\ k = i
    BY <1>1, <1>2, <2>1, NodeAssumption DEF Chains
  <2>2. CASE x # d \/ k # i
    <3>1. /\ D2[x][k] = D[x][k] /\ k \in 1 .. Len(D[x]) /\ D[x][k].node \in Node \cup {None}
      BY <1>1, <1>2, <2>2, CellIs
    <3>2. /\ D[x][k].node # x
          /\ D[x][k].node # None => Len(D[D[x][k].node]) > 0
          /\ D[x][k].size > 0 => D[x][k].node # None
          /\ D[x][k].what = "dir" /\ D[x][k].node # None => Named(D, D[x][k].node, x)
      BY <1>1, <3>1 DEF Linked
    <3>3. ASSUME D[x][k].what = "dir", D[x][k].node # None PROVE Named(D2, D[x][k].node, x)
      <4> DEFINE n == D[x][k].node
      <4>1. n \in Chains /\ Len(D[n]) >= 2 /\ Named(D, n, x)
        BY <3>1, <3>2, <3>3, <1>2 DEF Chains
      <4> HIDE DEF n
      <4>2. /\ D2[n][1] = D[n][1] \/ D2[n][1].what # Dot
            /\ D2[n][2] = D[n][2] \/ D[n][2].what # DotDot
        BY <4>1, <1>2, <1>1 DEF Dot, DotDot
      <4> QED
        BY <4>1, <4>2, NamedKept, Zenon DEF n
    <3> QED
      BY <3>1, <3>2, <3>3, <1>2 DEF Chains
  <2> QED
    BY <2>1, <2>2
<1>6. ASSUME NEW h \in Object PROVE Current(D2, O, h)
  <2>1. Current(D, O, h) /\ O[h] \in ObjectSet
    BY DEF Good, Objects
  <2>2. ASSUME O[h].type \in {"file", "dir"} PROVE Placed(D2, O, h)
    <3>1. Placed(D, O, h)
      BY <2>1, <2>2 DEF Current
    <3>2. O[h].at[1] # d \/ O[h].at[2] # i
      BY <3>1, <1>1 DEF Placed, Entry, IsUsed
    <3>3. /\ Entry(D2, O[h].at[1], O[h].at[2])
          /\ D2[O[h].at[1]][O[h].at[2]] = D[O[h].at[1]][O[h].at[2]]
      BY <3>1, <3>2, <1>2 DEF Placed, Entry
    <3>4. ASSUME Alone(D, O, h), O[h].node # None PROVE Alone(D2, O, h)
      <4>1. O[h].node \in Chains /\ Len(D[O[h].node]) >= 2
        BY <3>1, <3>4, <1>2 DEF Placed, Chains
      <4> QED
        BY <4>1, <3>4, <1>2 DEF Alone, Dot
    <3> QED
      BY <3>1, <3>3, <3>4, <1>2 DEF Placed, Chains
  <2> QED
    BY <2>1, <2>2, <1>1, <1>2, CurrentKept
<1> QED
  BY <1>1, <1>3, <1>4, <1>5, <1>6 DEF Good

-----------------------------------------------------------------------------
\* Entries that stay, go, or only change what they refer to.
LEMMA WholeKept ==
  ASSUME NEW D \in Disks, NEW D2 \in Disks, Whole(D),
         \A x \in Chains : \A k \in 1 .. Len(D2[x]) : IsUsed(D2[x][k]) =>
           /\ k \in 1 .. Len(D[x]) /\ IsUsed(D[x][k]) /\ D2[x][k].name = D[x][k].name
           /\ \A j \in 1 .. k : D2[x][j].what = "free" => D[x][j].what = "free"
  PROVE  Whole(D2)
<1> SUFFICES ASSUME NEW x \in Chains, NEW k \in 1 .. Len(D2[x]), IsUsed(D2[x][k])
             PROVE  /\ \A j \in 1 .. Len(D2[x]) :
                         IsUsed(D2[x][j]) /\ D2[x][k].name = D2[x][j].name => k = j
                    /\ \A j \in 1 .. k : D2[x][j].what # "free"
  BY Zenon DEF Whole
<1>1. /\ k \in 1 .. Len(D[x]) /\ IsUsed(D[x][k]) /\ D2[x][k].name = D[x][k].name
      /\ \A j \in 1 .. k : D2[x][j].what = "free" => D[x][j].what = "free"
  BY Zenon
<1>2. /\ \A j \in 1 .. Len(D[x]) : IsUsed(D[x][j]) /\ D[x][k].name = D[x][j].name => k = j
      /\ \A j \in 1 .. k : D[x][j].what # "free"
  BY <1>1, Zenon DEF Whole
<1>3. ASSUME NEW j \in 1 .. Len(D2[x]), IsUsed(D2[x][j]), D2[x][k].name = D2[x][j].name
      PROVE  k = j
  <2>1. j \in 1 .. Len(D[x]) /\ IsUsed(D[x][j]) /\ D2[x][j].name = D[x][j].name
    BY <1>3, Zenon
  <2> QED
    BY <2>1, <1>1, <1>2, <1>3, Zenon
<1> QED
  BY <1>1, <1>2, <1>3, Zenon

LEMMA ApartKept ==
  ASSUME NEW D \in Disks, NEW D2 \in Disks, Apart(D),
         \A x \in Chains : \A k \in 1 .. Len(D2[x]) : IsUsed(D2[x][k]) /\ D2[x][k].node # None =>
           k \in 1 .. Len(D[x]) /\ IsUsed(D[x][k]) /\ D2[x][k].node = D[x][k].node
  PROVE  Apart(D2)
<1> SUFFICES ASSUME NEW x \in Chains, NEW y \in Chains,
                    NEW k \in 1 .. Len(D2[x]), NEW j \in 1 .. Len(D2[y]),
                    IsUsed(D2[x][k]), IsUsed(D2[y][j]), D2[x][k].node = D2[y][j].node,
                    D2[x][k].node # None
             PROVE  x = y /\ k = j
  BY DEF Apart
<1>1. k \in 1 .. Len(D[x]) /\ IsUsed(D[x][k]) /\ D2[x][k].node = D[x][k].node
  BY Zenon
<1>2. j \in 1 .. Len(D[y]) /\ IsUsed(D[y][j]) /\ D2[y][j].node = D[y][j].node
  <2>1. D2[y][j].node # None
    BY Zenon
  <2> QED
    BY <2>1, Zenon
<1>3. D[x][k].node = D[y][j].node /\ D[x][k].node # None
  BY <1>1, <1>2, Zenon
<1> QED
  BY <1>1, <1>2, <1>3 DEF Apart

\* A directory's own two slots are not touched.
Steady(D, D2) ==
  \A n \in Chains : Len(D[n]) > 0 =>
    /\ Len(D2[n]) > 0
    /\ D2[n][1] = D[n][1] \/ D2[n][1].what # Dot
    /\ D2[n][2] = D[n][2] \/ D[n][2].what # DotDot

LEMMA LinkedKept ==
  ASSUME NEW D \in Disks, NEW D2 \in Disks, Linked(D), Steady(D, D2),
         \A x \in Chains : \A k \in 1 .. Len(D2[x]) : IsUsed(D2[x][k]) =>
           /\ D2[x][k].node \in Node \cup {None}
           /\ D2[x][k].size > 0 => D2[x][k].node # None
           /\ D2[x][k].node # None =>
                \/ /\ k \in 1 .. Len(D[x]) /\ IsUsed(D[x][k])
                   /\ D2[x][k].node = D[x][k].node
                   /\ D2[x][k].what = "dir" => D[x][k].what = "dir"
                \/ /\ D2[x][k].node # x /\ Len(D2[D2[x][k].node]) > 0
                   /\ D2[x][k].what = "dir" => Named(D2, D2[x][k].node, x)
  PROVE  Linked(D2)
<1> SUFFICES ASSUME NEW x \in Chains, NEW k \in 1 .. Len(D2[x]), IsUsed(D2[x][k])
             PROVE  /\ D2[x][k].node # x
                    /\ D2[x][k].node # None => Len(D2[D2[x][k].node]) > 0
                    /\ D2[x][k].size > 0 => D2[x][k].node # None
                    /\ D2[x][k].what = "dir" /\ D2[x][k].node # None => Named(D2, D2[x][k].node, x)
  BY Zenon DEF Linked
<1> DEFINE n == D2[x][k].node
<1>1. n \in Node \cup {None} /\ (D2[x][k].size > 0 => n # None)
  BY Zenon
<1>2. CASE n = None
  BY <1>1, <1>2, NodeAssumption, Zenon DEF Chains
<1>3. CASE n # None /\ k \in 1 .. Len(D[x]) /\ IsUsed(D[x][k]) /\ n = D[x][k].node
           /\ (D2[x][k].what = "dir" => D[x][k].what = "dir")
  <2>1. /\ n \in Chains /\ n # x /\ Len(D[n]) > 0
        /\ D2[x][k].what = "dir" => Named(D, n, x)
    BY <1>1, <1>3, Zenon DEF Linked, Chains
  <2> HIDE DEF n
  <2>2. /\ Len(D2[n]) > 0
        /\ D2[n][1] = D[n][1] \/ D2[n][1].what # Dot
        /\ D2[n][2] = D[n][2] \/ D[n][2].what # DotDot
    BY <2>1, Zenon DEF Steady
  <2>3. D2[x][k].what = "dir" => Named(D2, n, x)
    BY <2>1, <2>2, NamedKept, Zenon
  <2> QED
    BY <2>1, <2>2, <2>3, <1>1, Zenon DEF n
<1>4. CASE n # None /\ n # x /\ Len(D2[n]) > 0 /\ (D2[x][k].what = "dir" => Named(D2, n, x))
  BY <1>1, <1>4, Zenon
<1> QED
  BY <1>2, <1>3, <1>4, Zenon

LEMMA AloneKept ==
  ASSUME NEW D \in Disks, NEW D2 \in Disks, NEW O, NEW O2, NEW h \in Object, Alone(D, O, h),
         O[h].node \in Node, Len(D[O[h].node]) > 0, O2[h].node = O[h].node, Steady(D, D2),
         \A g \in Object : g # h => O2[g].node = O[g].node \/ O2[g].node # O[h].node,
         \A x \in Chains : \A k \in 1 .. Len(D2[x]) : IsUsed(D2[x][k]) =>
           \/ D2[x][k].node # O[h].node
           \/ k \in 1 .. Len(D[x]) /\ IsUsed(D[x][k]) /\ D2[x][k].node = D[x][k].node
  PROVE  Alone(D2, O2, h)
<1> DEFINE n == O[h].node
<1>1. n \in Chains
  BY DEF Chains
<1>2. D2[n][1].what # Dot
  BY <1>1, Zenon DEF Alone, Steady
<1>3. \A g \in Object : g # h => O2[g].node # n
  BY Zenon DEF Alone
<1>4. \A x \in Chains : \A k \in 1 .. Len(D2[x]) : IsUsed(D2[x][k]) => D2[x][k].node # n
  BY Zenon DEF Alone
<1> QED
  BY <1>2, <1>3, <1>4, Zenon DEF Alone

LEMMA SteadyPut ==
  ASSUME NEW D \in Disks, NEW D2, NEW d, NEW i, NEW e, PutAs(D, D2, d, i, e),
         D[d][i].what \notin {Dot, DotDot}, e.what # Dot
  PROVE  Steady(D, D2)
<1> SUFFICES ASSUME NEW n \in Chains, Len(D[n]) > 0
             PROVE  /\ Len(D2[n]) > 0
                    /\ D2[n][1] = D[n][1] \/ D2[n][1].what # Dot
                    /\ D2[n][2] = D[n][2] \/ D[n][2].what # DotDot
  BY Zenon DEF Steady
<1>1. Len(D2[n]) = Len(D[n]) /\ Len(D[n]) \in Nat /\ Len(D[n]) >= 2
  BY CellIs DEF PutAs
<1> QED
  BY <1>1 DEF PutAs

\* An object is given another value.
LEMMA SetIs ==
  ASSUME NEW O \in Objects, NEW h \in Object, NEW o \in ObjectSet
  PROVE  /\ [O EXCEPT ![h] = o] \in Objects /\ [O EXCEPT ![h] = o][h] = o
         /\ \A g \in Object : g # h => [O EXCEPT ![h] = o][g] = O[g]
  BY Zenon DEF Objects

LEMMA ObjectIs ==
  ASSUME NEW O \in Objects, NEW h \in Object
  PROVE  /\ O[h] \in ObjectSet
         /\ O[h].type \in {"closed", "half", "file", "dir", "root16", "root32"}
         /\ O[h].node \in Node \cup {Root, None} /\ O[h].size \in Nat
         /\ O[h].dirty \in BOOLEAN /\ O[h].write \in BOOLEAN
         /\ O[h].at \in {<<>>} \cup (Chains \X Nat)
  BY DEF Objects, ObjectSet

\* Objects are closed.
LEMMA ClosedGood ==
  ASSUME NEW D, NEW O, NEW C, Good(D, O)
  PROVE  Good(D, [x \in Object |-> IF x \in C THEN Closed ELSE O[x]])
<1> DEFINE O2 == [x \in Object |-> IF x \in C THEN Closed ELSE O[x]]
<1>1. D \in Disks /\ O \in Objects /\ \A h \in Object : Current(D, O, h)
  BY DEF Good
<1>2. Closed \in ObjectSet
  BY DEF Closed, ObjectSet
<1>3. O2 \in Objects
  BY <1>1, <1>2, Zenon DEF Objects
<1>4. \A h \in Object : O2[h] = IF h \in C THEN Closed ELSE O[h]
  OBVIOUS
<1> HIDE DEF O2
<1>5. ASSUME NEW h \in Object PROVE Current(D, O2, h)
  <2>1. CASE h \in C
    <3>1. O2[h] = Closed
      BY <1>4, <2>1, Zenon
    <3>2. Closed.type = "closed"
      BY DEF Closed
    <3> QED
      BY <3>1, <3>2, Zenon DEF Current, IsDir, IsRoot
  <2>2. CASE h \notin C
    <3>1. O2[h] = O[h] /\ Current(D, O, h)
      BY <1>1, <1>4, <2>2
    <3>2. ASSUME O[h].type \in {"file", "dir"} PROVE Placed(D, O2, h)
      <4>1. Placed(D, O, h)
        BY <3>1, <3>2, Zenon DEF Current
      <4>2. ASSUME Alone(D, O, h), O[h].node # None PROVE Alone(D, O2, h)
        <5>1. \A g \in Object : g # h => O2[g].node # O2[h].node
          BY <1>4, <3>1, <4>2 DEF Alone, Closed
        <5> QED
          BY <3>1, <4>2, <5>1, Zenon DEF Alone
      <4> QED
        BY <3>1, <4>1, <4>2, Zenon DEF Placed
    <3> QED
      BY <1>1, <3>1, <3>2, CurrentKept, Zenon
  <2> QED
    BY <2>1, <2>2, Zenon
<1>6. Good(D, O2)
  BY <1>3, <1>5, Zenon DEF Good
<1> QED
  BY <1>6 DEF O2

\* One object is: what the rest have is no less theirs.
LEMMA ShutGood ==
  ASSUME NEW D, NEW O, NEW h \in Object, Good(D, O)
  PROVE  Good(D, [O EXCEPT ![h] = Closed])
<1>1. Good(D, [x \in Object |-> IF x \in {h} THEN Closed ELSE O[x]])
  BY ClosedGood, Zenon
<1>2. O \in [Object -> ObjectSet]
  BY DEF Good, Objects
<1>3. [O EXCEPT ![h] = Closed] = [x \in Object |-> IF x \in {h} THEN Closed ELSE O[x]]
  BY <1>2
<1> QED
  BY <1>1, <1>3, Zenon

\* An object that is not changed, when another is and the disk is not.
LEMMA OtherKept ==
  ASSUME NEW D, NEW O, NEW O2, NEW g \in Object, Good(D, O), O2[g] = O[g],
         \A h \in Object : h # g /\ O[g].dirty => O2[h].node # O[g].node
  PROVE  Current(D, O2, g)
<1>1. D \in Disks /\ O \in Objects /\ Current(D, O, g)
  BY DEF Good
<1>2. ASSUME O[g].type \in {"file", "dir"} PROVE Placed(D, O2, g)
  <2>1. Placed(D, O, g)
    BY <1>1, <1>2, Zenon DEF Current
  <2>2. ASSUME O[g].dirty PROVE Alone(D, O2, g)
    BY <2>1, <2>2, Zenon DEF Placed, Alone
  <2> QED
    BY <2>1, <2>2, Zenon DEF Placed
<1> QED
  BY <1>1, <1>2, CurrentKept, Zenon

\* What an entry says
LEMMA EntryIs ==
  ASSUME NEW D, NEW O, NEW d, NEW i, Good(D, O), Entry(D, d, i)
  PROVE  /\ d \in Chains /\ i \in 1 .. Len(D[d]) /\ IsUsed(D[d][i]) /\ i \in Nat
         /\ D[d][i] \in SlotSet /\ D[d][i].node \in Node \cup {None} /\ D[d][i].size \in Nat
         /\ D[d][i].node # d /\ (D[d][i].node # None => Len(D[D[d][i].node]) > 0)
         /\ D[d][i].size > 0 => D[d][i].node # None
         /\ D[d][i].what = "dir" /\ D[d][i].node # None => Named(D, D[d][i].node, d)
<1>1. D \in Disks /\ Linked(D) /\ d \in Chains /\ i \in 1 .. Len(D[d]) /\ IsUsed(D[d][i])
  BY Zenon DEF Good, Entry
<1>2. i \in Nat
  BY <1>1, CellIs
<1>3. D[d][i] \in SlotSet /\ D[d][i].node \in Node \cup {None} /\ D[d][i].size \in Nat
  BY <1>1, CellIs
<1> QED
  BY <1>1, <1>2, <1>3, Zenon DEF Linked

\* What a dirty object has is its own.
LEMMA DirtyIs ==
  ASSUME NEW D, NEW O, NEW g \in Object, Good(D, O), O[g].dirty
  PROVE  /\ O[g].type \in {"file", "dir"} /\ Placed(D, O, g) /\ Alone(D, O, g)
         /\ O[g].node \in Node
<1>1. O \in Objects /\ Current(D, O, g)
  BY DEF Good
<1>2. O[g].type \in {"file", "dir"}
  BY <1>1, ObjectIs DEF Current, IsRoot, Closed, Half
<1>3. Placed(D, O, g)
  BY <1>1, <1>2, Zenon DEF Current
<1> QED
  BY <1>2, <1>3, Zenon DEF Placed

LEMMA OpenedGood ==
  ASSUME NEW D, NEW O, NEW h \in Object, NEW d, NEW i, NEW o, Good(D, O), O[h] = Closed,
         Entry(D, d, i), o \in ObjectSet, o.type = D[d][i].what, o.node = D[d][i].node,
         o.at = <<d, i>>, ~o.dirty, o.node # Root,
         o.size = IF o.type = "dir" THEN Len(D[o.node]) ELSE D[d][i].size,
         o.type = "dir" => o.node # None
  PROVE  Good(D, [O EXCEPT ![h] = o])
<1> DEFINE O2 == [O EXCEPT ![h] = o]
<1>1. D \in Disks /\ O \in Objects /\ \A g \in Object : Current(D, O, g)
  BY DEF Good
<1>2. O2 \in Objects /\ O2[h] = o /\ \A g \in Object : g # h => O2[g] = O[g]
  BY <1>1, SetIs
<1> HIDE DEF O2
<1>3. /\ d \in Chains /\ i \in 1 .. Len(D[d]) /\ IsUsed(D[d][i]) /\ i \in Nat
      /\ D[d][i].node \in Node \cup {None} /\ D[d][i].size \in Nat
      /\ D[d][i].node # d /\ (D[d][i].node # None => Len(D[D[d][i].node]) > 0)
      /\ D[d][i].size > 0 => D[d][i].node # None
  BY EntryIs
<1>4. ASSUME NEW g \in Object PROVE Current(D, O2, g)
  <2>1. CASE g = h
    <3>1. o.at[1] = d /\ o.at[2] = i /\ o.at \in Chains \X Nat
      BY <1>3
    <3>2. Placed(D, O2, h)
      BY <1>2, <1>3, <3>1 DEF Placed, Entry
    <3>3. o.type \in {"file", "dir"}
      BY <1>3 DEF IsUsed
    <3> QED
      BY <2>1, <1>2, <3>2, <3>3 DEF Current, IsRoot, IsDir
  <2>2. CASE g # h
    <3>2. ASSUME NEW x \in Object, x # g, O[g].dirty PROVE O2[x].node # O[g].node
      <4>1. Alone(D, O, g)
        BY <3>2, DirtyIs, Zenon
      <4>2. o.node # O[g].node
        BY <1>3, <4>1, Zenon DEF Alone
      <4> QED
        BY <1>2, <3>2, <4>1, <4>2, Zenon DEF Alone
    <3> QED
      BY <1>2, <2>2, <3>2, OtherKept, Zenon
  <2> QED
    BY <2>1, <2>2, Zenon
<1> QED
  BY <1>1, <1>2, <1>4, Zenon DEF Good, O2

\* An object that is not changed, when one slot is.
LEMMA OtherPut ==
  ASSUME NEW D, NEW O, NEW D2, NEW O2, NEW d, NEW i, NEW e, NEW g \in Object, Good(D, O),
         PutAs(D, D2, d, i, e), Steady(D, D2), O2[g] = O[g],
         \A x \in Object : x # g /\ O[g].dirty => O2[x].node # O[g].node,
         O[g].dirty /\ IsUsed(e) =>
           \/ e.node # O[g].node
           \/ IsUsed(D[d][i]) /\ e.node = D[d][i].node,
         O[g].type \in {"file", "dir"} /\ O[g].at = <<d, i>> =>
           /\ IsUsed(e) /\ e.node = D[d][i].node
           /\ e.what = "dir" /\ O[g].type = "dir" => D[d][i].what = "dir" \/ O[g].node # None
  PROVE  Current(D2, O2, g)
<1>1. D \in Disks /\ D2 \in Disks /\ O \in Objects /\ Current(D, O, g)
  BY DEF Good, PutAs
<1>2. /\ \A x \in Chains : Len(D2[x]) = Len(D[x])
      /\ \A x \in Chains : \A k \in 1 .. Len(D[x]) : x # d \/ k # i => D2[x][k] = D[x][k]
      /\ D2[d][i] = e
  BY DEF PutAs
<1>3. ASSUME O[g].type \in {"file", "dir"} PROVE Placed(D2, O2, g)
  <2>1. Placed(D, O, g)
    BY <1>1, <1>3, Zenon DEF Current
  <2> DEFINE a == O[g].at[1]
             k == O[g].at[2]
  <2>2. /\ a \in Chains /\ k \in Nat /\ O[g].at = <<a, k>>
        /\ k \in 1 .. Len(D[a]) /\ IsUsed(D[a][k])
    <3>1. /\ O[g].at = <<O[g].at[1], O[g].at[2]>>
          /\ O[g].at[1] \in Chains /\ O[g].at[2] \in Nat
          /\ O[g].at[2] \in 1 .. Len(D[O[g].at[1]]) /\ IsUsed(D[O[g].at[1]][O[g].at[2]])
      BY ONLY <2>1, PlacedIs
    <3> QED
      BY <3>1, Zenon
  <2>3. /\ IsUsed(D2[a][k]) /\ D2[a][k].node = D[a][k].node
        /\ D2[a][k].what = "dir" /\ O[g].type = "dir" => D[a][k].what = "dir" \/ O[g].node # None
    <3>1. CASE a = d /\ k = i
      BY <1>2, <1>3, <2>2, <3>1, Zenon
    <3>2. CASE a # d \/ k # i
      BY <1>2, <2>2, <3>2, Zenon
    <3> QED
      BY <3>1, <3>2, Zenon
  <2>4. Entry(D2, a, k)
    BY <1>2, <2>2, <2>3 DEF Entry
  <2>5. ASSUME O[g].dirty PROVE Alone(D2, O2, g)
    <3>1. Alone(D, O, g) /\ O[g].node \in Node /\ Len(D[O[g].node]) > 0
      BY <2>1, <2>5, Zenon DEF Placed
    <3>2. ASSUME NEW x \in Chains, NEW y \in 1 .. Len(D2[x]), IsUsed(D2[x][y])
          PROVE  \/ D2[x][y].node # O[g].node
                 \/ y \in 1 .. Len(D[x]) /\ IsUsed(D[x][y]) /\ D2[x][y].node = D[x][y].node
      <4>1. y \in 1 .. Len(D[x])
        BY <1>2, <3>2
      <4>2. CASE x = d /\ y = i
        BY <1>2, <2>5, <3>2, <4>1, <4>2, Zenon
      <4>3. CASE x # d \/ y # i
        BY <1>2, <3>2, <4>1, <4>3, Zenon
      <4> QED
        BY <4>2, <4>3, Zenon
    <3>3. \A x \in Object : x # g => O2[x].node = O[x].node \/ O2[x].node # O[g].node
      BY <2>5, Zenon
    <3> HIDE DEF a, k
    <3>4. O2[g].node = O[g].node
      OBVIOUS
    <3> QED
      BY <1>1, <3>1, <3>2, <3>3, <3>4, AloneKept, Zenon
  <2>6. /\ D2[a][k].what = "dir" /\ O[g].type = "dir" => O[g].node # None
    BY <2>1, <2>3, Zenon DEF Placed
  <2>7. O[g].node # None => Len(D2[O[g].node]) > 0
    BY <1>2, <2>1 DEF Placed, Chains
  <2>8. /\ O[g].at \in Chains \X Nat /\ O[g].node \in Node \cup {None} /\ O[g].node # a
        /\ O[g].size > 0 => O[g].node # None
        /\ ~O[g].dirty => D[a][k].node = O[g].node
        /\ O[g].dirty => D[a][k].node = None /\ O[g].node # None
    BY <2>1, Zenon DEF Placed
  <2>9. /\ ~O[g].dirty => D2[a][k].node = O[g].node
        /\ O[g].dirty => D2[a][k].node = None /\ O[g].node # None
    BY <2>3, <2>8, Zenon
  <2> QED
    BY <2>4, <2>5, <2>6, <2>7, <2>8, <2>9, Zenon DEF Placed
<1> QED
  BY <1>1, <1>2, <1>3, CurrentKept

LEMMA RootGood ==
  ASSUME NEW D, NEW O, NEW h \in Object, NEW o \in ObjectSet, Good(D, O), O[h] = Closed,
         IsRoot(o), o.node = Root, o.at = <<>>, ~o.dirty, o.size = Len(D[Root])
  PROVE  Good(D, [O EXCEPT ![h] = o])
<1> DEFINE O2 == [O EXCEPT ![h] = o]
<1>1. D \in Disks /\ O \in Objects /\ \A g \in Object : Current(D, O, g)
  BY DEF Good
<1>2. O2 \in Objects /\ O2[h] = o /\ \A g \in Object : g # h => O2[g] = O[g]
  BY <1>1, SetIs
<1> HIDE DEF O2
<1>3. Current(D, O2, h)
  BY <1>2 DEF Current, IsRoot, IsDir
<1>4. ASSUME NEW g \in Object, g # h PROVE Current(D, O2, g)
  <2>1. ASSUME NEW x \in Object, x # g, O[g].dirty PROVE O2[x].node # O[g].node
    <3>1. Alone(D, O, g) /\ O[g].node \in Node
      BY <2>1, DirtyIs, Zenon
    <3>2. o.node # O[g].node
      BY <3>1, NodeAssumption, Zenon
    <3> QED
      BY <1>2, <2>1, <3>1, <3>2, Zenon DEF Alone
  <2> QED
    BY <1>2, <1>4, <2>1, OtherKept, Zenon
<1> QED
  BY <1>1, <1>2, <1>3, <1>4, Zenon DEF Good, O2

\* An object is left half open.
LEMMA HalfGood ==
  ASSUME NEW D, NEW O, NEW h \in Object, Good(D, O), O[h] = Closed
  PROVE  Good(D, [O EXCEPT ![h] = Half])
<1> DEFINE O2 == [O EXCEPT ![h] = Half]
<1>1. D \in Disks /\ O \in Objects /\ \A g \in Object : Current(D, O, g)
  BY DEF Good
<1>2. Half \in ObjectSet /\ Half.type = "half" /\ Half.node = None
  BY DEF Half, Closed, ObjectSet
<1>3. O2 \in Objects /\ O2[h] = Half /\ \A g \in Object : g # h => O2[g] = O[g]
  BY <1>1, <1>2, SetIs
<1> HIDE DEF O2
<1>4. Current(D, O2, h)
  <2>1. O2[h].type = "half"
    BY <1>2, <1>3, Zenon
  <2> QED
    BY <1>3, <2>1 DEF Current, IsRoot, IsDir
<1>5. ASSUME NEW g \in Object, g # h PROVE Current(D, O2, g)
  <2>1. ASSUME NEW x \in Object, x # g, O[g].dirty PROVE O2[x].node # O[g].node
    <3>1. Alone(D, O, g) /\ O[g].node \in Node
      BY <2>1, DirtyIs, Zenon
    <3>2. Half.node # O[g].node
      BY <1>2, <3>1, NodeAssumption, Zenon
    <3> QED
      BY <1>3, <2>1, <3>1, <3>2, Zenon DEF Alone
  <2> QED
    BY <1>3, <1>5, <2>1, OtherKept, Zenon
<1> QED
  BY <1>1, <1>3, <1>4, <1>5, Zenon DEF Good, O2

\* The object of a file becomes one of a directory, or the other way round.
LEMMA TypedGood ==
  ASSUME NEW D, NEW O, NEW h \in Object, NEW o \in ObjectSet, Good(D, O),
         O[h].type \in {"file", "dir"}, o.type \in {"file", "dir"},
         o.node = O[h].node, o.size = O[h].size, o.at = O[h].at, o.dirty = O[h].dirty,
         o.type = "dir" => o.size = 0 /\ D[o.at[1]][o.at[2]].what # "dir"
  PROVE  Good(D, [O EXCEPT ![h] = o])
<1> DEFINE O2 == [O EXCEPT ![h] = o]
<1>1. D \in Disks /\ O \in Objects /\ \A g \in Object : Current(D, O, g)
  BY DEF Good
<1>2. O2 \in Objects /\ O2[h] = o /\ \A g \in Object : g # h => O2[g] = O[g]
  BY <1>1, SetIs
<1> HIDE DEF O2
<1>3. Placed(D, O, h) /\ o.size \in Nat
  BY <1>1 DEF Current, ObjectSet
<1>4. \A g \in Object : O2[g].node = O[g].node
  BY <1>2, Zenon
<1>5. Alone(D, O, h) => Alone(D, O2, h)
  BY <1>4, Zenon DEF Alone
<1>6. Placed(D, O2, h)
  BY <1>2, <1>3, <1>5, Zenon DEF Placed
<1>7. Current(D, O2, h)
  BY <1>2, <1>3, <1>6 DEF Current, IsRoot, IsDir
<1>8. ASSUME NEW g \in Object, g # h PROVE Current(D, O2, g)
  <2>1. ASSUME NEW x \in Object, x # g, O[g].dirty PROVE O2[x].node # O[g].node
    <3>1. Alone(D, O, g)
      BY <2>1, DirtyIs, Zenon
    <3> QED
      BY <2>1, <3>1, <1>4, Zenon DEF Alone
  <2> QED
    BY <1>2, <1>8, <2>1, OtherKept, Zenon
<1> QED
  BY <1>1, <1>2, <1>7, <1>8, Zenon DEF Good, O2

\* sync(): what a dirty object has is written into its entry.
LEMMA ToldGood ==
  ASSUME NEW D, NEW O, NEW D2, NEW h \in Object, NEW o \in ObjectSet, NEW e \in SlotSet, Good(D, O),
         O[h].dirty, o.type = O[h].type, o.node = O[h].node, o.size = O[h].size,
         o.at = O[h].at, ~o.dirty,
         PutAs(D, D2, o.at[1], o.at[2], e),
         e.what = D[o.at[1]][o.at[2]].what, e.name = D[o.at[1]][o.at[2]].name, e.node = o.node,
         \A g \in Object : g # h /\ O[g].type # "closed" => O[g].at # o.at
  PROVE  Good(D2, [O EXCEPT ![h] = o])
<1> DEFINE O2 == [O EXCEPT ![h] = o]
           d == o.at[1]
           i == o.at[2]
<1>1. /\ D \in Disks /\ D2 \in Disks /\ O \in Objects /\ Whole(D) /\ Apart(D) /\ Linked(D)
      /\ \A g \in Object : Current(D, O, g)
  BY DEF Good, PutAs
<1>2. O2 \in Objects /\ O2[h] = o /\ \A g \in Object : g # h => O2[g] = O[g]
  BY <1>1, SetIs
<1> HIDE DEF O2
<1>3. /\ o.type \in {"file", "dir"} /\ Placed(D, O, h) /\ Alone(D, O, h) /\ o.node \in Node
      /\ O[h].node = o.node
  BY DirtyIs, Zenon
<1>4. /\ d \in Chains /\ i \in 1 .. Len(D[d]) /\ IsUsed(D[d][i]) /\ o.at = <<d, i>>
      /\ o.node # d /\ Len(D[o.node]) > 0 /\ D[d][i].node = None /\ o.node # None
      /\ o.node \in Chains
  <2>1. /\ O[h].at[1] \in Chains /\ O[h].at[2] \in 1 .. Len(D[O[h].at[1]])
        /\ IsUsed(D[O[h].at[1]][O[h].at[2]]) /\ O[h].at = <<O[h].at[1], O[h].at[2]>>
    BY <1>3, PlacedIs, Zenon
  <2>2. /\ O[h].node # O[h].at[1] /\ O[h].node # None /\ Len(D[O[h].node]) > 0
        /\ D[O[h].at[1]][O[h].at[2]].node = None
    BY <1>3, Zenon DEF Placed
  <2>3. o.at = O[h].at
    OBVIOUS
  <2>4. o.node \in Chains
    BY <1>3, NodeAssumption DEF Chains
  <2> HIDE DEF d, i
  <2> QED
    BY <1>3, <2>1, <2>2, <2>3, <2>4, Zenon DEF d, i
<1>5. /\ \A x \in Chains : Len(D2[x]) = Len(D[x])
      /\ \A x \in Chains : \A k \in 1 .. Len(D[x]) : x # d \/ k # i => D2[x][k] = D[x][k]
      /\ D2[d][i] = e /\ IsUsed(e)
  BY <1>4 DEF PutAs, IsUsed
<1>6. Steady(D, D2)
  <2>1. D[d][i].what \notin {Dot, DotDot} /\ e.what # Dot
    BY <1>4 DEF IsUsed, Dot, DotDot
  <2> QED
    BY <1>1, <2>1, SteadyPut
<1> HIDE DEF d, i
<1>7. Whole(D2)
  <2> SUFFICES ASSUME NEW x \in Chains, NEW k \in 1 .. Len(D2[x]), IsUsed(D2[x][k])
               PROVE  /\ k \in 1 .. Len(D[x]) /\ IsUsed(D[x][k]) /\ D2[x][k].name = D[x][k].name
                      /\ \A j \in 1 .. k : D2[x][j].what = "free" => D[x][j].what = "free"
    BY <1>1, WholeKept, Zenon
  <2>1. k \in 1 .. Len(D[x]) /\ IsUsed(D[x][k]) /\ D2[x][k].name = D[x][k].name
    BY <1>4, <1>5 DEF d, i
  <2>2. ASSUME NEW j \in 1 .. k, D2[x][j].what = "free" PROVE D[x][j].what = "free"
    <3>1. j \in 1 .. Len(D[x])
      BY <1>1, <2>1, CellIs
    <3>2. x # d \/ j # i
      BY <1>5, <2>2 DEF IsUsed
    <3> QED
      BY <1>5, <2>2, <3>1, <3>2, Zenon
  <2> QED
    BY <2>1, <2>2, Zenon
<1>8. Apart(D2)
  <2> SUFFICES ASSUME NEW x \in Chains, NEW y \in Chains,
                      NEW k \in 1 .. Len(D2[x]), NEW j \in 1 .. Len(D2[y]),
                      IsUsed(D2[x][k]), IsUsed(D2[y][j]), D2[x][k].node = D2[y][j].node,
                      D2[x][k].node # None
               PROVE  x = y /\ k = j
    BY DEF Apart
  <2>1. k \in 1 .. Len(D[x]) /\ j \in 1 .. Len(D[y])
    BY <1>5
  <2>2. \A z \in Chains : \A l \in 1 .. Len(D[z]) : IsUsed(D[z][l]) => D[z][l].node # o.node
    BY <1>3, Zenon DEF Alone
  <2>3. CASE (x # d \/ k # i) /\ (y # d \/ j # i)
    <3>1. /\ IsUsed(D[x][k]) /\ IsUsed(D[y][j]) /\ D[x][k].node = D[y][j].node
          /\ D[x][k].node # None
      BY <1>5, <2>1, <2>3
    <3> QED
      BY <1>1, <2>1, <3>1, Zenon DEF Apart
  <2>4. CASE x = d /\ k = i
    <3>1. D2[x][k].node = o.node
      BY <1>5, <2>4, Zenon
    <3>2. CASE y = d /\ j = i
      BY <2>4, <3>2, Zenon
    <3>3. CASE y # d \/ j # i
      <4>1. D2[y][j] = D[y][j]
        BY <1>5, <2>1, <3>3, Zenon
      <4> QED
        BY <2>1, <2>2, <3>1, <4>1, Zenon
    <3> QED
      BY <3>2, <3>3, Zenon
  <2>5. CASE y = d /\ j = i
    <3>1. D2[y][j].node = o.node
      BY <1>5, <2>5, Zenon
    <3>2. CASE x = d /\ k = i
      BY <2>5, <3>2, Zenon
    <3>3. CASE x # d \/ k # i
      <4>1. D2[x][k] = D[x][k]
        BY <1>5, <2>1, <3>3, Zenon
      <4> QED
        BY <2>1, <2>2, <3>1, <4>1, Zenon
    <3> QED
      BY <3>2, <3>3, Zenon
  <2> QED
    BY <2>3, <2>4, <2>5
<1>9. Linked(D2)
  <2> SUFFICES ASSUME NEW x \in Chains, NEW k \in 1 .. Len(D2[x]), IsUsed(D2[x][k])
               PROVE  /\ D2[x][k].node \in Node \cup {None}
                      /\ D2[x][k].size > 0 => D2[x][k].node # None
                      /\ D2[x][k].node # None =>
                           \/ /\ k \in 1 .. Len(D[x]) /\ IsUsed(D[x][k])
                              /\ D2[x][k].node = D[x][k].node
                              /\ D2[x][k].what = "dir" => D[x][k].what = "dir"
                           \/ /\ D2[x][k].node # x /\ Len(D2[D2[x][k].node]) > 0
                              /\ D2[x][k].what = "dir" => Named(D2, D2[x][k].node, x)
    BY <1>1, <1>6, LinkedKept, Zenon
  <2>1. k \in 1 .. Len(D[x])
    BY <1>5
  <2>2. CASE x = d /\ k = i
    <3>1. D2[o.node][1].what # Dot
      BY <1>3, <1>4, <1>6, Zenon DEF Alone, Steady
    <3>2. Named(D2, o.node, x)
      BY <3>1, Zenon DEF Named
    <3>3. D2[x][k] = e /\ e.node = o.node /\ o.node # x /\ Len(D2[o.node]) > 0
      BY <1>4, <1>5, <2>2 DEF d, i
    <3> QED
      BY <1>3, <1>4, <3>2, <3>3, Zenon
  <2>3. CASE x # d \/ k # i
    <3>1. D2[x][k] = D[x][k] /\ IsUsed(D[x][k])
      BY <1>5, <2>1, <2>3, Zenon
    <3>2. Entry(D, x, k)
      BY <2>1, <3>1, Zenon DEF Entry
    <3>3. /\ D[x][k].node \in Node \cup {None}
          /\ D[x][k].size > 0 => D[x][k].node # None
      BY <3>2, EntryIs, Zenon
    <3> QED
      BY <2>1, <3>1, <3>3, Zenon
  <2> QED
    BY <2>2, <2>3, Zenon
<1>10. Current(D2, O2, h)
  <2>1. Entry(D2, o.at[1], o.at[2])
    BY <1>4, <1>5 DEF Entry, d, i
  <2>2. Len(D2[o.node]) = Len(D[o.node])
    BY <1>4, <1>5, Zenon
  <2>3. Placed(D2, O2, h)
    <3>1. /\ o.at \in Chains \X Nat /\ o.node \in Node \cup {None} /\ o.node # o.at[1]
          /\ o.node # None /\ D2[o.at[1]][o.at[2]].node = o.node /\ Len(D2[o.node]) > 0
      BY <1>3, <1>4, <1>5, <2>2 DEF Placed, d, i
    <3> QED
      BY <1>2, <2>1, <3>1, Zenon DEF Placed
  <2>4. Current(D, O, h)
    BY <1>1
  <2>5. IsDir(o) /\ o.size > 0 => o.size = Len(D2[o.node])
    BY <2>2, <2>4, Zenon DEF Current, IsDir
  <2> QED
    BY <1>2, <1>3, <2>3, <2>5 DEF Current, IsRoot
<1>11. ASSUME NEW g \in Object, g # h PROVE Current(D2, O2, g)
  <2>1. O2[g] = O[g]
    BY <1>2, <1>11, Zenon
  <2>2. ASSUME NEW x \in Object, x # g, O[g].dirty PROVE O2[x].node # O[g].node
    <3>1. O2[x].node = O[x].node
      BY <1>2, <1>3, Zenon
    <3> QED
      <4>1. Alone(D, O, g)
        BY <2>2, DirtyIs, Zenon
      <4> QED
        BY <2>2, <3>1, <4>1, Zenon DEF Alone
  <2>3. O[g].dirty => e.node # O[g].node
    BY <1>11, <1>3, Zenon DEF Alone
  <2>4. O[g].type \in {"file", "dir"} => O[g].at # <<d, i>>
    BY <1>4, <1>11
  <2>5. PutAs(D, D2, d, i, e)
    BY Zenon DEF d, i
  <2> QED
    BY <1>6, <2>1, <2>2, <2>3, <2>4, <2>5, OtherPut, Zenon
<1> QED
  BY <1>1, <1>2, <1>7, <1>8, <1>9, <1>10, <1>11, Zenon DEF Good, O2

\* A slot that was in use is marked, or refers to what it did or to nothing.
LEMMA PutKept ==
  ASSUME NEW D, NEW O, NEW D2, NEW d, NEW i, NEW e, Good(D, O), PutAs(D, D2, d, i, e),
         Entry(D, d, i), e.what \notin {"free", Dot},
         IsUsed(e) =>
           /\ e.name = D[d][i].name /\ e.node \in {D[d][i].node, None}
           /\ e.size > 0 => e.node # None
           /\ e.what = "dir" /\ e.node # None =>
                D[d][i].what = "dir" \/ D[e.node][1].what # Dot
  PROVE  D2 \in Disks /\ Whole(D2) /\ Apart(D2) /\ Linked(D2) /\ Steady(D, D2)
<1>1. /\ D \in Disks /\ D2 \in Disks /\ Whole(D) /\ Apart(D) /\ Linked(D)
      /\ d \in Chains /\ i \in 1 .. Len(D[d]) /\ IsUsed(D[d][i])
  BY DEF Good, PutAs, Entry
<1>2. /\ \A x \in Chains : Len(D2[x]) = Len(D[x])
      /\ \A x \in Chains : \A k \in 1 .. Len(D[x]) : x # d \/ k # i => D2[x][k] = D[x][k]
      /\ D2[d][i] = e
  BY DEF PutAs
<1>3. Steady(D, D2)
  <2>1. D[d][i].what \notin {Dot, DotDot}
    BY <1>1 DEF IsUsed, Dot, DotDot
  <2> QED
    BY <1>1, <2>1, SteadyPut
<1>4. ASSUME NEW x \in Chains, NEW k \in 1 .. Len(D2[x]), IsUsed(D2[x][k])
      PROVE  /\ k \in 1 .. Len(D[x]) /\ IsUsed(D[x][k]) /\ D2[x][k].name = D[x][k].name
             /\ D2[x][k].node \in {D[x][k].node, None}
  <2>1. k \in 1 .. Len(D[x])
    BY <1>2
  <2>2. CASE x = d /\ k = i
    BY <1>1, <1>2, <1>4, <2>1, <2>2, Zenon
  <2>3. CASE x # d \/ k # i
    BY <1>2, <1>4, <2>1, <2>3, Zenon
  <2> QED
    BY <2>2, <2>3, Zenon
<1>5. Whole(D2)
  <2> SUFFICES ASSUME NEW x \in Chains, NEW k \in 1 .. Len(D2[x]), IsUsed(D2[x][k])
               PROVE  /\ k \in 1 .. Len(D[x]) /\ IsUsed(D[x][k]) /\ D2[x][k].name = D[x][k].name
                      /\ \A j \in 1 .. k : D2[x][j].what = "free" => D[x][j].what = "free"
    BY <1>1, WholeKept, Zenon
  <2>1. k \in 1 .. Len(D[x]) /\ IsUsed(D[x][k]) /\ D2[x][k].name = D[x][k].name
    BY <1>4, Zenon
  <2>2. ASSUME NEW j \in 1 .. k, D2[x][j].what = "free" PROVE D[x][j].what = "free"
    <3>1. j \in 1 .. Len(D[x])
      BY <1>1, <2>1, CellIs
    <3>2. x # d \/ j # i
      BY <1>2, <2>2
    <3> QED
      BY <1>2, <2>2, <3>1, <3>2, Zenon
  <2> QED
    BY <2>1, <2>2, Zenon
<1>6. Apart(D2)
  <2>1. \A x \in Chains : \A k \in 1 .. Len(D2[x]) : IsUsed(D2[x][k]) /\ D2[x][k].node # None =>
          k \in 1 .. Len(D[x]) /\ IsUsed(D[x][k]) /\ D2[x][k].node = D[x][k].node
    <3> SUFFICES ASSUME NEW x \in Chains, NEW k \in 1 .. Len(D2[x]), IsUsed(D2[x][k]),
                        D2[x][k].node # None
                 PROVE  k \in 1 .. Len(D[x]) /\ IsUsed(D[x][k]) /\ D2[x][k].node = D[x][k].node
      BY Zenon
    <3>1. /\ k \in 1 .. Len(D[x]) /\ IsUsed(D[x][k])
          /\ D2[x][k].node = D[x][k].node \/ D2[x][k].node = None
      BY <1>4, Zenon
    <3> QED
      BY <3>1, Zenon
  <2> QED
    BY <1>1, <2>1, ApartKept, Zenon
<1>7. Linked(D2)
  <2> SUFFICES ASSUME NEW x \in Chains, NEW k \in 1 .. Len(D2[x]), IsUsed(D2[x][k])
               PROVE  /\ D2[x][k].node \in Node \cup {None}
                      /\ D2[x][k].size > 0 => D2[x][k].node # None
                      /\ D2[x][k].node # None =>
                           \/ /\ k \in 1 .. Len(D[x]) /\ IsUsed(D[x][k])
                              /\ D2[x][k].node = D[x][k].node
                              /\ D2[x][k].what = "dir" => D[x][k].what = "dir"
                           \/ /\ D2[x][k].node # x /\ Len(D2[D2[x][k].node]) > 0
                              /\ D2[x][k].what = "dir" => Named(D2, D2[x][k].node, x)
    BY <1>1, <1>3, LinkedKept, Zenon
  <2>1. k \in 1 .. Len(D[x]) /\ IsUsed(D[x][k]) /\ D2[x][k].node \in {D[x][k].node, None}
    BY <1>4, Zenon
  <2>2. /\ D[x][k].node \in Node \cup {None} /\ D[x][k].node # x
        /\ D[x][k].node # None => Len(D[D[x][k].node]) > 0
        /\ D[x][k].size > 0 => D[x][k].node # None
    <3>1. Entry(D, x, k)
      BY <2>1, Zenon DEF Entry
    <3> QED
      BY <3>1, EntryIs
  <2>3. CASE x = d /\ k = i
    <3>1. D2[x][k] = e
      BY <1>2, <2>3, Zenon
    <3>4. e.size > 0 => e.node # None
      BY <3>1, Zenon
    <3>2. CASE e.node = None
      BY <3>1, <3>2, <3>4, <2>3, Zenon
    <3>3. CASE e.node # None
      <4>1. e.node = D[x][k].node /\ e.node \in Chains
        BY <2>1, <2>2, <3>1, <3>3 DEF Chains
      <4>2. Len(D2[e.node]) > 0
        BY <1>2, <2>2, <3>3, <4>1, Zenon
      <4>3. ASSUME e.what = "dir", D[d][i].what # "dir" PROVE Named(D2, e.node, x)
        <5>1. D[e.node][1].what # Dot
          BY <3>1, <3>3, <4>3, Zenon
        <5>2. D2[e.node][1].what # Dot
          BY <1>3, <2>2, <3>3, <4>1, <5>1, Zenon DEF Steady
        <5> QED
          BY <5>2, Zenon DEF Named
      <4> QED
        BY <2>1, <2>2, <2>3, <3>1, <3>3, <3>4, <4>1, <4>2, <4>3, Zenon
    <3> QED
      BY <3>2, <3>3, Zenon
  <2>4. CASE x # d \/ k # i
    BY <1>2, <2>1, <2>2, <2>4, Zenon
  <2> QED
    BY <2>3, <2>4, Zenon
<1> QED
  BY <1>1, <1>3, <1>5, <1>6, <1>7, Zenon

\* makeDir(): the entry of a file that has clusters becomes one of a directory.
LEMMA MarkedGood ==
  ASSUME NEW D, NEW O, NEW D2, NEW h \in Object, NEW e, Good(D, O),
         O[h].type = "dir", ~O[h].dirty, O[h].node # None, D[O[h].node][1].what # Dot,
         PutAs(D, D2, O[h].at[1], O[h].at[2], e),
         e.what = "dir", e.name = D[O[h].at[1]][O[h].at[2]].name,
         e.node = D[O[h].at[1]][O[h].at[2]].node
  PROVE  Good(D2, O)
<1> DEFINE d == O[h].at[1]
           i == O[h].at[2]
<1>1. D \in Disks /\ O \in Objects /\ \A g \in Object : Current(D, O, g)
  BY DEF Good
<1>2. Placed(D, O, h)
  BY <1>1 DEF Current
<1>3. Entry(D, d, i) /\ D[d][i].node = O[h].node
  BY <1>2, Zenon DEF Placed
<1>4. e.what \notin {"free", Dot} /\ IsUsed(e)
  BY DEF Dot, IsUsed
<1>5. PutAs(D, D2, d, i, e) /\ e.name = D[d][i].name /\ e.node = D[d][i].node
  OBVIOUS
<1> HIDE DEF d, i
<1>6. D2 \in Disks /\ Whole(D2) /\ Apart(D2) /\ Linked(D2) /\ Steady(D, D2)
  BY <1>3, <1>4, <1>5, PutKept, Zenon
<1>7. ASSUME NEW g \in Object PROVE Current(D2, O, g)
  <2>1. ASSUME NEW x \in Object, x # g, O[g].dirty PROVE O[x].node # O[g].node
    <3>1. Alone(D, O, g)
      BY <2>1, DirtyIs, Zenon
    <3> QED
      BY <2>1, <3>1, Zenon DEF Alone
  <2>2. ASSUME O[g].type \in {"file", "dir"}, O[g].at = <<d, i>> PROVE O[g].node # None
    <3>1. Placed(D, O, g) /\ O[g].at[1] = d /\ O[g].at[2] = i
      BY <1>1, <2>2 DEF Current
    <3> QED
      BY <1>3, <3>1, Zenon DEF Placed
  <2>3. IsUsed(D[d][i])
    BY <1>3, Zenon DEF Entry
  <2> QED
    BY <1>4, <1>5, <1>6, <2>1, <2>2, <2>3, OtherPut, Zenon
<1> QED
  BY <1>1, <1>6, <1>7, Zenon DEF Good

\* remove(): the slot is marked as deleted.
LEMMA MarkGood ==
  ASSUME NEW D, NEW O, NEW D2, NEW h \in Object, Good(D, O),
         O[h].type \in {"file", "dir"}, PutAs(D, D2, O[h].at[1], O[h].at[2], Deleted),
         \A g \in Object : g # h /\ O[g].type # "closed" => O[g].at # O[h].at
  PROVE  Good(D2, [O EXCEPT ![h] = Closed])
<1> DEFINE O2 == [O EXCEPT ![h] = Closed]
           d == O[h].at[1]
           i == O[h].at[2]
<1>1. D \in Disks /\ O \in Objects /\ \A g \in Object : Current(D, O, g)
  BY DEF Good
<1>2. Placed(D, O, h) /\ Entry(D, d, i) /\ O[h].at = <<d, i>>
  <2>1. Placed(D, O, h)
    BY <1>1, Zenon DEF Current
  <2> QED
    BY <2>1, PlacedIs, Zenon
<1>3. Deleted.what \notin {"free", Dot} /\ ~IsUsed(Deleted)
  BY DEF Dot, IsUsed, Deleted, Blank, Slot
<1>4. PutAs(D, D2, d, i, Deleted)
  OBVIOUS
<1>5. Closed \in ObjectSet /\ Closed.type = "closed" /\ Closed.node = None
  BY DEF Closed, ObjectSet
<1>6. O2 \in Objects /\ O2[h] = Closed /\ \A g \in Object : g # h => O2[g] = O[g]
  BY <1>1, <1>5, SetIs
<1> HIDE DEF d, i, O2
<1>7. D2 \in Disks /\ Whole(D2) /\ Apart(D2) /\ Linked(D2) /\ Steady(D, D2)
  BY <1>2, <1>3, <1>4, PutKept, Zenon
<1>8. Current(D2, O2, h)
  BY <1>5, <1>6 DEF Current, IsDir, IsRoot
<1>9. ASSUME NEW g \in Object, g # h PROVE Current(D2, O2, g)
  <2>1. ASSUME NEW x \in Object, x # g, O[g].dirty PROVE O2[x].node # O[g].node
    <3>1. Alone(D, O, g) /\ O[g].node \in Node
      BY <2>1, DirtyIs, Zenon
    <3>2. O2[x].node \in {None, O[x].node}
      BY <1>5, <1>6
    <3> QED
      BY <2>1, <3>1, <3>2, NodeAssumption DEF Alone
  <2>2. O[g].type \in {"file", "dir"} => O[g].at # <<d, i>>
    BY <1>2, <1>9
  <2>3. O2[g] = O[g]
    BY <1>6, <1>9, Zenon
  <2> QED
    BY <1>3, <1>4, <1>7, <2>1, <2>2, <2>3, OtherPut, Zenon
<1> QED
  BY <1>6, <1>7, <1>8, <1>9, Zenon DEF Good, O2

\* truncate(0): an entry and its object refer to nothing.
LEMMA EmptiedGood ==
  ASSUME NEW D, NEW O, NEW D2, NEW h \in Object, NEW o \in ObjectSet, NEW e, Good(D, O),
         O[h].type = "file", o.type = "file", o.at = O[h].at, o.node = None, o.size = 0, ~o.dirty,
         PutAs(D, D2, o.at[1], o.at[2], e),
         e.what = D[o.at[1]][o.at[2]].what, e.name = D[o.at[1]][o.at[2]].name,
         e.node = None, e.size = 0,
         \A g \in Object : g # h /\ O[g].type # "closed" => O[g].at # o.at
  PROVE  Good(D2, [O EXCEPT ![h] = o])
<1> DEFINE O2 == [O EXCEPT ![h] = o]
           d == o.at[1]
           i == o.at[2]
<1>1. D \in Disks /\ O \in Objects /\ \A g \in Object : Current(D, O, g)
  BY DEF Good
<1>2. Placed(D, O, h) /\ Entry(D, d, i) /\ o.at = <<d, i>> /\ d \in Chains
  <2>1. Placed(D, O, h)
    BY <1>1 DEF Current
  <2>2. /\ O[h].at = <<O[h].at[1], O[h].at[2]>> /\ O[h].at[1] \in Chains
        /\ Entry(D, O[h].at[1], O[h].at[2])
    BY ONLY <2>1, PlacedIs
  <2>3. o.at = O[h].at
    OBVIOUS
  <2>4. o.at = <<o.at[1], o.at[2]>> /\ o.at[1] \in Chains /\ Entry(D, o.at[1], o.at[2])
    BY <2>2, <2>3
  <2> QED
    BY <2>1, <2>4, Zenon
<1>3. PutAs(D, D2, d, i, e) /\ e.what = D[d][i].what /\ e.name = D[d][i].name
  OBVIOUS
<1>4. O2 \in Objects /\ O2[h] = o /\ \A g \in Object : g # h => O2[g] = O[g]
  BY <1>1, SetIs
<1> HIDE DEF d, i, O2
<1>5. e.what \notin {"free", Dot} /\ IsUsed(e) /\ ~(e.size > 0)
  BY <1>2, <1>3 DEF Dot, Entry, IsUsed
<1>6. D2 \in Disks /\ Whole(D2) /\ Apart(D2) /\ Linked(D2) /\ Steady(D, D2)
  BY <1>2, <1>3, <1>5, PutKept, Zenon
<1>7. Current(D2, O2, h)
  <2>1. Entry(D2, d, i) /\ D2[d][i] = e
    BY <1>2, <1>3, <1>5 DEF Entry, PutAs
  <2>2. o.at[1] = d /\ o.at[2] = i /\ o.at \in Chains \X Nat /\ None # d
    BY <1>2, NodeAssumption DEF Placed, Chains, d, i
  <2>3. Placed(D2, O2, h)
    BY <1>4, <2>1, <2>2 DEF Placed
  <2> QED
    BY <1>4, <2>3 DEF Current, IsDir, IsRoot
<1>8. ASSUME NEW g \in Object, g # h PROVE Current(D2, O2, g)
  <2>1. ASSUME NEW x \in Object, x # g, O[g].dirty PROVE O2[x].node # O[g].node
    <3>1. Alone(D, O, g) /\ O[g].node \in Node
      BY <2>1, DirtyIs, Zenon
    <3>2. O2[x].node \in {None, O[x].node}
      BY <1>4
    <3> QED
      BY <2>1, <3>1, <3>2, NodeAssumption DEF Alone
  <2>2. O[g].type \in {"file", "dir"} => O[g].at # <<d, i>>
    BY <1>2, <1>8
  <2>3. O2[g] = O[g]
    BY <1>4, <1>8, Zenon
  <2>4. O[g].dirty => e.node # O[g].node
    BY DirtyIs, NodeAssumption, Zenon
  <2> QED
    BY <1>3, <1>6, <2>1, <2>2, <2>3, <2>4, OtherPut, Zenon
<1> QED
  BY <1>4, <1>6, <1>7, <1>8, Zenon DEF Good, O2

\* A chain that nothing refers to is freed.
LEMMA ErasedGood ==
  ASSUME NEW D, NEW O, NEW n \in Node, Good(D, O),
         \A g \in Object : O[g].node # n /\ (O[g].type # "closed" /\ O[g].at # <<>> => O[g].at[1] # n),
         \A x \in Chains : \A k \in 1 .. Len(D[x]) : IsUsed(D[x][k]) => D[x][k].node # n
  PROVE  Good([D EXCEPT ![n] = <<>>], O)
<1> DEFINE D2 == [D EXCEPT ![n] = <<>>]
<1>1. /\ D \in Disks /\ O \in Objects /\ Whole(D) /\ Apart(D) /\ Linked(D) /\ n \in Chains
      /\ \A g \in Object : Current(D, O, g)
  BY DEF Good, Chains
<1>2. /\ D2 \in [Chains -> Seq(SlotSet)] /\ Len(D2[n]) = 0
      /\ \A x \in Chains : x # n => D2[x] = D[x]
  <2>1. D \in [Chains -> Seq(SlotSet)] /\ <<>> \in Seq(SlotSet) /\ Len(<<>>) = 0
    BY <1>1 DEF Disks
  <2> QED
    BY <1>1, <2>1, Zenon
<1> HIDE DEF D2
<1>3. D2 \in Disks
  BY <1>1, <1>2 DEF Disks
<1>4. ASSUME NEW x \in Chains, NEW k \in 1 .. Len(D2[x])
      PROVE  x # n /\ D2[x] = D[x] /\ k \in 1 .. Len(D[x])
  BY <1>2
<1>5. Whole(D2)
  BY <1>1, <1>3, <1>4, WholeKept, Zenon
<1>6. Apart(D2)
  BY <1>1, <1>3, <1>4, ApartKept, Zenon
<1>7. Linked(D2)
  <2> SUFFICES ASSUME NEW x \in Chains, NEW k \in 1 .. Len(D2[x]), IsUsed(D2[x][k])
               PROVE  /\ D2[x][k].node # x
                      /\ D2[x][k].node # None => Len(D2[D2[x][k].node]) > 0
                      /\ D2[x][k].size > 0 => D2[x][k].node # None
                      /\ D2[x][k].what = "dir" /\ D2[x][k].node # None => Named(D2, D2[x][k].node, x)
    BY Zenon DEF Linked
  <2>1. D2[x] = D[x] /\ k \in 1 .. Len(D[x]) /\ IsUsed(D[x][k]) /\ D[x][k].node # n
    BY <1>4, Zenon
  <2> DEFINE m == D[x][k].node
  <2>2. Entry(D, x, k)
    BY <2>1, Zenon DEF Entry
  <2>3. /\ m \in Node \cup {None} /\ m # x /\ (m # None => Len(D[m]) > 0)
        /\ D[x][k].size > 0 => m # None
        /\ D[x][k].what = "dir" /\ m # None => Named(D, m, x)
    BY <2>2, EntryIs
  <2>4. m # None => m \in Chains /\ D2[m] = D[m]
    BY <1>2, <2>1, <2>3 DEF Chains
  <2>5. ASSUME D[x][k].what = "dir", m # None PROVE Named(D2, m, x)
    BY <2>3, <2>4, <2>5, Zenon DEF Named
  <2> QED
    BY <2>1, <2>3, <2>4, <2>5, Zenon
<1>8. ASSUME NEW g \in Object PROVE Current(D2, O, g)
  <2>1. ASSUME O[g].type \in {"file", "dir"} PROVE Placed(D2, O, g)
    <3>1. Placed(D, O, g)
      BY <1>1, <2>1, Zenon DEF Current
    <3> DEFINE m == O[g].node
    <3>2. m # n /\ m \in Node \cup {None}
      BY <3>1, Zenon DEF Placed
    <3>3. m # None => D2[m] = D[m]
      BY <1>2, <3>2 DEF Chains
    <3>4. O[g].at[1] \in Chains /\ O[g].at[1] # n /\ O[g].at # <<>>
      <4>1. O[g].at[1] \in Chains /\ O[g].at # <<>> /\ Entry(D, O[g].at[1], O[g].at[2])
        BY <3>1, PlacedIs, Zenon
      <4> QED
        BY <2>1, <4>1 DEF Entry
    <3>5. D2[O[g].at[1]] = D[O[g].at[1]]
      BY <1>2, <3>4, Zenon
    <3>6. Entry(D2, O[g].at[1], O[g].at[2])
      BY <3>1, <3>5, Zenon DEF Placed, Entry
    <3>7. ASSUME O[g].dirty PROVE Alone(D2, O, g)
      <4>1. Alone(D, O, g) /\ m # None
        BY <3>1, <3>7, Zenon DEF Placed
      <4> QED
        <5>1. D2[m][1].what # Dot
          BY <3>3, <4>1, Zenon DEF Alone
        <5>2. \A x \in Object : x # g => O[x].node # m
          BY <4>1, Zenon DEF Alone
        <5>3. \A x \in Chains : \A k \in 1 .. Len(D2[x]) : IsUsed(D2[x][k]) => D2[x][k].node # m
          BY <1>4, <4>1, Zenon DEF Alone
        <5> QED
          BY <5>1, <5>2, <5>3, Zenon DEF Alone
    <3> QED
      BY <3>1, <3>3, <3>5, <3>6, <3>7, Zenon DEF Placed
  <2>2. O[g].node \in Chains => D2[O[g].node] = D[O[g].node]
    BY <1>2, Zenon
  <2>3. Current(D, O, g)
    BY <1>1
  <2> QED
    BY <1>1, <2>1, <2>2, <2>3, CurrentKept
<1> QED
  BY <1>1, <1>3, <1>5, <1>6, <1>7, <1>8, Zenon DEF Good, D2

\* A chain is given its first cluster, and an object the chain.
LEMMA FirstGood ==
  ASSUME NEW D, NEW O, NEW h \in Object, NEW o \in ObjectSet, NEW n \in Node, NEW c \in Seq(SlotSet),
         Good(D, O), O[h].type \in {"file", "dir"}, O[h].node = None,
         o.type = O[h].type, o.at = O[h].at, o.node = n, o.dirty, o.size \in {0, Len(c)},
         Len(c) >= 2, \A k \in 1 .. Len(c) : ~IsUsed(c[k]) /\ c[k].what # Dot,
         D[n] = <<>>, \A g \in Object : O[g].node # n
  PROVE  Good([D EXCEPT ![n] = c], [O EXCEPT ![h] = o])
<1> DEFINE D2 == [D EXCEPT ![n] = c]
           O2 == [O EXCEPT ![h] = o]
<1>1. /\ D \in Disks /\ O \in Objects /\ Whole(D) /\ Apart(D) /\ Linked(D) /\ n \in Chains
      /\ \A g \in Object : Current(D, O, g)
  BY DEF Good, Chains
<1>2. O2 \in Objects /\ O2[h] = o /\ \A g \in Object : g # h => O2[g] = O[g]
  BY <1>1, SetIs
<1>3. /\ D2 \in [Chains -> Seq(SlotSet)] /\ D2[n] = c
      /\ \A x \in Chains : x # n => D2[x] = D[x]
  <2>1. D \in [Chains -> Seq(SlotSet)]
    BY <1>1 DEF Disks
  <2> QED
    BY <1>1, <2>1, Zenon
<1> HIDE DEF D2, O2
<1>4. D2 \in Disks /\ Len(D[n]) = 0
  BY <1>1, <1>3, CellIs DEF Disks
<1>5. ASSUME NEW x \in Chains, NEW k \in 1 .. Len(D2[x]), IsUsed(D2[x][k])
      PROVE  x # n /\ D2[x] = D[x] /\ k \in 1 .. Len(D[x])
  <2>1. x # n
    BY <1>3, <1>5, Zenon
  <2> QED
    BY <1>3, <2>1, Zenon
<1>6. Whole(D2)
  <2>1. ASSUME NEW x \in Chains, NEW k \in 1 .. Len(D2[x]), IsUsed(D2[x][k])
        PROVE  /\ k \in 1 .. Len(D[x]) /\ IsUsed(D[x][k]) /\ D2[x][k].name = D[x][k].name
               /\ \A j \in 1 .. k : D2[x][j].what = "free" => D[x][j].what = "free"
    BY <1>5, <2>1, Zenon
  <2> QED
    BY <1>1, <1>4, <2>1, WholeKept, Zenon
<1>7. Apart(D2)
  <2>1. ASSUME NEW x \in Chains, NEW k \in 1 .. Len(D2[x]), IsUsed(D2[x][k]), D2[x][k].node # None
        PROVE  k \in 1 .. Len(D[x]) /\ IsUsed(D[x][k]) /\ D2[x][k].node = D[x][k].node
    BY <1>5, <2>1, Zenon
  <2>2. D \in Disks /\ D2 \in Disks /\ Apart(D)
    BY <1>1, <1>4
  <2> QED
    BY ONLY <2>1, <2>2, ApartKept
<1>8. Steady(D, D2)
  <2> SUFFICES ASSUME NEW m \in Chains, Len(D[m]) > 0 PROVE D2[m] = D[m]
    BY Zenon DEF Steady
  <2> QED
    BY <1>3, <1>4
<1>9. Linked(D2)
  <2> SUFFICES ASSUME NEW x \in Chains, NEW k \in 1 .. Len(D2[x]), IsUsed(D2[x][k])
               PROVE  /\ D2[x][k].node \in Node \cup {None}
                      /\ D2[x][k].size > 0 => D2[x][k].node # None
                      /\ D2[x][k].node # None =>
                           \/ /\ k \in 1 .. Len(D[x]) /\ IsUsed(D[x][k])
                              /\ D2[x][k].node = D[x][k].node
                              /\ D2[x][k].what = "dir" => D[x][k].what = "dir"
                           \/ /\ D2[x][k].node # x /\ Len(D2[D2[x][k].node]) > 0
                              /\ D2[x][k].what = "dir" => Named(D2, D2[x][k].node, x)
    BY <1>1, <1>4, <1>8, LinkedKept, Zenon
  <2>1. D2[x] = D[x] /\ k \in 1 .. Len(D[x]) /\ IsUsed(D[x][k])
    BY <1>5, Zenon
  <2>2. Entry(D, x, k)
    BY <2>1, Zenon DEF Entry
  <2>3. /\ D[x][k].node \in Node \cup {None}
        /\ D[x][k].size > 0 => D[x][k].node # None
    BY <2>2, EntryIs
  <2> QED
    BY <2>1, <2>3, Zenon
<1>10. \A x \in Chains : \A k \in 1 .. Len(D2[x]) : IsUsed(D2[x][k]) => D2[x][k].node # n
  <2> SUFFICES ASSUME NEW x \in Chains, NEW k \in 1 .. Len(D2[x]), IsUsed(D2[x][k])
               PROVE  D2[x][k].node # n
    OBVIOUS
  <2>1. D2[x] = D[x] /\ k \in 1 .. Len(D[x])
    BY <1>5, Zenon
  <2>2. Entry(D, x, k)
    BY <2>1, Zenon DEF Entry
  <2>3. D[x][k].node # None => Len(D[D[x][k].node]) > 0
    BY <2>2, EntryIs
  <2>4. n # None
    BY NodeAssumption
  <2> QED
    BY <1>4, <2>1, <2>3, <2>4
<1>11. ASSUME NEW g \in Object, O[g].type \in {"file", "dir"}
       PROVE  /\ Placed(D, O, g) /\ O[g].at[1] # n /\ D2[O[g].at[1]] = D[O[g].at[1]]
              /\ Entry(D2, O[g].at[1], O[g].at[2])
  <2>1. Placed(D, O, g)
    BY <1>1, <1>11, Zenon DEF Current
  <2>2. O[g].at[1] \in Chains /\ Len(D[O[g].at[1]]) # 0
    <3>1. O[g].at[1] \in Chains /\ O[g].at[2] \in 1 .. Len(D[O[g].at[1]])
      BY <2>1, PlacedIs, Zenon
    <3>2. Len(D[O[g].at[1]]) \in Nat
      BY <1>1, <3>1, CellIs, Zenon
    <3> QED
      BY <3>1, <3>2
  <2>3. O[g].at[1] # n
    BY <2>2, <1>4, Zenon
  <2>4. D2[O[g].at[1]] = D[O[g].at[1]]
    BY <2>2, <2>3, <1>3, Zenon
  <2> QED
    BY <2>1, <2>3, <2>4, Zenon DEF Placed, Entry
<1>12. Current(D2, O2, h)
  <2>1. Alone(D2, O2, h)
    <3>1. D2[n][1].what # Dot
      BY <1>3
    <3>2. \A g \in Object : g # h => O2[g].node # n
      BY <1>2, Zenon
    <3> QED
      BY <1>2, <1>10, <3>1, <3>2, Zenon DEF Alone
  <2>2. /\ Placed(D, O, h) /\ o.at[1] # n /\ D2[o.at[1]] = D[o.at[1]]
        /\ Entry(D2, o.at[1], o.at[2])
    BY <1>11
  <2>3. D[o.at[1]][o.at[2]].node = None
    BY <2>2, Zenon DEF Placed
  <2>4. n # None /\ n \in Node \cup {None} /\ Len(D2[n]) > 0
    BY <1>3, NodeAssumption
  <2>5. Placed(D2, O2, h)
    BY <1>2, <2>1, <2>2, <2>3, <2>4, Zenon DEF Placed
  <2>6. IsDir(o) /\ o.size > 0 => o.size = Len(D2[o.node])
    BY <1>3
  <2> QED
    BY <1>2, <2>5, <2>6 DEF Current, IsRoot
<1>13. ASSUME NEW g \in Object, g # h PROVE Current(D2, O2, g)
  <2>1. O2[g] = O[g] /\ Current(D, O, g) /\ O[g].node # n
    BY <1>1, <1>2, <1>13
  <2>2. ASSUME O[g].type \in {"file", "dir"} PROVE Placed(D2, O2, g)
    <3>1. /\ Placed(D, O, g) /\ D2[O[g].at[1]] = D[O[g].at[1]]
          /\ Entry(D2, O[g].at[1], O[g].at[2])
      BY <1>11, <2>2
    <3>2. ASSUME Alone(D, O, g), O[g].node \in Node, Len(D[O[g].node]) > 0
          PROVE  Alone(D2, O2, g)
      <4>1. ASSUME NEW x \in Object, x # g
            PROVE  O2[x].node = O[x].node \/ O2[x].node # O[g].node
        <5>1. CASE x = h
          BY <1>2, <2>1, <5>1
        <5>2. CASE x # h
          BY <1>2, <5>2
        <5> QED
          BY <5>1, <5>2
      <4>2. ASSUME NEW x \in Chains, NEW k \in 1 .. Len(D2[x]), IsUsed(D2[x][k])
            PROVE  k \in 1 .. Len(D[x]) /\ IsUsed(D[x][k]) /\ D2[x][k].node = D[x][k].node
        BY <1>5, <4>2, Zenon
      <4>3. O2[g].node = O[g].node
        BY <2>1
      <4> QED
        <5>1. D \in Disks /\ D2 \in Disks
          BY <1>1, <1>4
        <5>2. Alone(D, O, g) /\ O[g].node \in Node /\ Len(D[O[g].node]) > 0
          BY <3>2
        <5> QED
          BY <1>8, <4>1, <4>2, <4>3, <5>1, <5>2, AloneKept
    <3>3. O[g].node \in Chains => D2[O[g].node] = D[O[g].node]
      BY <1>3, <2>1, Zenon
    <3>4. O[g].node # None => O[g].node \in Node /\ O[g].node \in Chains
      BY <3>1 DEF Placed, Chains
    <3> QED
      BY <2>1, <3>1, <3>2, <3>3, <3>4, Zenon DEF Placed
  <2>3. O[g].node \in Chains => D2[O[g].node] = D[O[g].node]
    BY <1>3, <2>1, Zenon
  <2> QED
    BY <1>1, <2>1, <2>2, <2>3, CurrentKept
<1> QED
  BY <1>2, <1>4, <1>6, <1>7, <1>9, <1>12, <1>13, Zenon DEF Good, D2, O2

\* A cluster of free slots is added to a directory.
LEMMA LongerGood ==
  ASSUME NEW D, NEW O, NEW h \in Object, NEW o \in ObjectSet, NEW m \in Chains, NEW c \in Seq(SlotSet),
         Good(D, O), IsDir(O[h]), O[h].node = m, O[h].size > 0,
         o.type = O[h].type, o.at = O[h].at, o.node = m, o.dirty = O[h].dirty, o.size = Len(c),
         Len(c) >= Len(D[m]), \A k \in 1 .. Len(D[m]) : c[k] = D[m][k],
         \A k \in 1 .. Len(c) : k > Len(D[m]) => ~IsUsed(c[k]),
         \A g \in Object : g # h /\ O[g].type # "closed" => O[g].node # m
  PROVE  Good([D EXCEPT ![m] = c], [O EXCEPT ![h] = o])
<1> DEFINE D2 == [D EXCEPT ![m] = c]
           O2 == [O EXCEPT ![h] = o]
<1>1. /\ D \in Disks /\ O \in Objects /\ Whole(D) /\ Apart(D) /\ Linked(D)
      /\ \A g \in Object : Current(D, O, g)
  BY DEF Good
<1>2. O2 \in Objects /\ O2[h] = o /\ \A g \in Object : g # h => O2[g] = O[g]
  BY <1>1, SetIs
<1>3. /\ D2 \in [Chains -> Seq(SlotSet)] /\ D2[m] = c
      /\ \A x \in Chains : x # m => D2[x] = D[x]
  <2>1. D \in [Chains -> Seq(SlotSet)]
    BY <1>1 DEF Disks
  <2> QED
    BY <2>1, Zenon
<1> HIDE DEF D2, O2
<1>4. /\ Len(D[m]) \in Nat /\ Len(D[m]) >= 2
  <2>1. O[h].size = Len(D[m])
    BY <1>1 DEF Current
  <2> QED
    BY <1>1, <2>1, CellIs
<1>5. D2 \in Disks
  <2> SUFFICES ASSUME NEW x \in Chains PROVE Len(D2[x]) = 0 \/ Len(D2[x]) >= 2
    BY <1>3, Zenon DEF Disks
  <2>1. CASE x = m
    BY <1>3, <1>4, <2>1
  <2>2. CASE x # m
    BY <1>1, <1>3, <2>2, CellIs
  <2> QED
    BY <2>1, <2>2
<1>6. ASSUME NEW x \in Chains, NEW k \in 1 .. Len(D[x])
      PROVE  k \in 1 .. Len(D2[x]) /\ D2[x][k] = D[x][k]
  <2>1. CASE x = m
    BY <1>3, <1>4, <2>1
  <2>2. CASE x # m
    BY <1>3, <2>2
  <2> QED
    BY <2>1, <2>2
<1>7. ASSUME NEW x \in Chains, NEW k \in 1 .. Len(D2[x]), IsUsed(D2[x][k])
      PROVE  k \in 1 .. Len(D[x]) /\ D2[x][k] = D[x][k] /\ IsUsed(D[x][k]) /\ Len(D[x]) \in Nat
  <2>1. CASE x = m
    <3>1. k \in 1 .. Len(D[m])
      BY <1>3, <1>4, <1>7, <2>1
    <3> QED
      BY <1>4, <1>6, <1>7, <2>1, <3>1
  <2>2. CASE x # m
    BY <1>1, <1>3, <1>7, <2>2, CellIs
  <2> QED
    BY <2>1, <2>2
<1>8. Whole(D2)
  <2>1. ASSUME NEW x \in Chains, NEW k \in 1 .. Len(D2[x]), IsUsed(D2[x][k])
        PROVE  /\ k \in 1 .. Len(D[x]) /\ IsUsed(D[x][k]) /\ D2[x][k].name = D[x][k].name
               /\ \A j \in 1 .. k : D2[x][j].what = "free" => D[x][j].what = "free"
    <3>1. /\ k \in 1 .. Len(D[x]) /\ D2[x][k] = D[x][k] /\ IsUsed(D[x][k]) /\ Len(D[x]) \in Nat
      BY <1>7, <2>1
    <3>2. ASSUME NEW j \in 1 .. k PROVE D2[x][j] = D[x][j]
      <4>1. j \in 1 .. Len(D[x])
        BY <3>1
      <4> QED
        BY <4>1, <1>6
    <3> QED
      BY <3>1, <3>2, Zenon
  <2> QED
    BY <1>1, <1>5, <2>1, WholeKept, Zenon
<1>9. Apart(D2)
  <2>1. ASSUME NEW x \in Chains, NEW k \in 1 .. Len(D2[x]), IsUsed(D2[x][k]), D2[x][k].node # None
        PROVE  k \in 1 .. Len(D[x]) /\ IsUsed(D[x][k]) /\ D2[x][k].node = D[x][k].node
    BY <1>7, <2>1, Zenon
  <2>2. D \in Disks /\ D2 \in Disks /\ Apart(D)
    BY <1>1, <1>5
  <2> QED
    BY ONLY <2>1, <2>2, ApartKept
<1>10. Steady(D, D2)
  <2> SUFFICES ASSUME NEW x \in Chains, Len(D[x]) > 0
               PROVE  Len(D2[x]) > 0 /\ D2[x][1] = D[x][1] /\ D2[x][2] = D[x][2]
    BY Zenon DEF Steady
  <2>1. Len(D[x]) >= 2 /\ Len(D[x]) \in Nat
    BY <1>1, CellIs
  <2>2. 1 \in 1 .. Len(D[x]) /\ 2 \in 1 .. Len(D[x])
    BY <2>1
  <2>3. D2[x][1] = D[x][1] /\ D2[x][2] = D[x][2]
    BY <2>2, <1>6
  <2>4. Len(D2[x]) > 0
    BY <1>3, <1>4, <2>1
  <2> QED
    BY <2>3, <2>4
<1>11. Linked(D2)
  <2> SUFFICES ASSUME NEW x \in Chains, NEW k \in 1 .. Len(D2[x]), IsUsed(D2[x][k])
               PROVE  /\ D2[x][k].node \in Node \cup {None}
                      /\ D2[x][k].size > 0 => D2[x][k].node # None
                      /\ D2[x][k].node # None =>
                           \/ /\ k \in 1 .. Len(D[x]) /\ IsUsed(D[x][k])
                              /\ D2[x][k].node = D[x][k].node
                              /\ D2[x][k].what = "dir" => D[x][k].what = "dir"
                           \/ /\ D2[x][k].node # x /\ Len(D2[D2[x][k].node]) > 0
                              /\ D2[x][k].what = "dir" => Named(D2, D2[x][k].node, x)
    BY <1>1, <1>5, <1>10, LinkedKept, Zenon
  <2>1. D2[x][k] = D[x][k] /\ k \in 1 .. Len(D[x]) /\ IsUsed(D[x][k])
    BY <1>7, Zenon
  <2>2. Entry(D, x, k)
    BY <2>1, Zenon DEF Entry
  <2>3. /\ D[x][k].node \in Node \cup {None}
        /\ D[x][k].size > 0 => D[x][k].node # None
    BY <2>2, EntryIs
  <2> QED
    BY <2>1, <2>3, Zenon
<1>12. \A g \in Object : O2[g].node = O[g].node /\ O2[g].at = O[g].at /\ O2[g].type = O[g].type
                         /\ O2[g].dirty = O[g].dirty
  BY <1>2, Zenon
<1>13. ASSUME NEW g \in Object, O[g].type \in {"file", "dir"}
       PROVE  /\ Placed(D, O, g) /\ D2[O[g].at[1]][O[g].at[2]] = D[O[g].at[1]][O[g].at[2]]
              /\ Entry(D2, O[g].at[1], O[g].at[2])
              /\ O[g].node # None => Len(D2[O[g].node]) > 0
              /\ O[g].dirty => Alone(D2, O2, g)
  <2>1. Placed(D, O, g)
    BY <1>1, <1>13, Zenon DEF Current
  <2>2. /\ O[g].at[1] \in Chains /\ O[g].at[2] \in 1 .. Len(D[O[g].at[1]])
        /\ IsUsed(D[O[g].at[1]][O[g].at[2]])
    BY <2>1, Zenon DEF Placed, Entry
  <2>3. /\ O[g].at[2] \in 1 .. Len(D2[O[g].at[1]])
        /\ D2[O[g].at[1]][O[g].at[2]] = D[O[g].at[1]][O[g].at[2]]
    BY <2>2, <1>6
  <2>4. O[g].node # None => O[g].node \in Chains /\ Len(D[O[g].node]) > 0
    BY <2>1 DEF Placed, Chains
  <2>5. O[g].node # None => Len(D2[O[g].node]) > 0
    BY <1>10, <2>4, Zenon DEF Steady
  <2>6. ASSUME O[g].dirty PROVE Alone(D2, O2, g)
    <3>1. Alone(D, O, g) /\ O[g].node \in Node /\ Len(D[O[g].node]) > 0
      BY <2>1, <2>6, Zenon DEF Placed
    <3>2. ASSUME NEW x \in Object, x # g
          PROVE  O2[x].node = O[x].node \/ O2[x].node # O[g].node
      BY <1>12, Zenon
    <3>3. ASSUME NEW x \in Chains, NEW k \in 1 .. Len(D2[x]), IsUsed(D2[x][k])
          PROVE  k \in 1 .. Len(D[x]) /\ IsUsed(D[x][k]) /\ D2[x][k].node = D[x][k].node
      BY <1>7, <3>3, Zenon
    <3>4. O2[g].node = O[g].node
      BY <1>12
    <3>5. D \in Disks /\ D2 \in Disks
      BY <1>1, <1>5
    <3> QED
      BY <1>10, <3>1, <3>2, <3>3, <3>4, <3>5, AloneKept
  <2> QED
    BY <2>1, <2>2, <2>3, <2>5, <2>6, Zenon DEF Entry
<1>14. ASSUME NEW g \in Object, O[g].type \in {"file", "dir"} PROVE Placed(D2, O2, g)
  <2>1. /\ Placed(D, O, g) /\ D2[O[g].at[1]][O[g].at[2]] = D[O[g].at[1]][O[g].at[2]]
        /\ Entry(D2, O[g].at[1], O[g].at[2])
        /\ O[g].node # None => Len(D2[O[g].node]) > 0
        /\ O[g].dirty => Alone(D2, O2, g)
    BY <1>13, <1>14
  <2>2. O2[g].size > 0 => O[g].node # None
    <3>1. CASE g = h
      BY <3>1, NodeAssumption DEF Chains
    <3>2. CASE g # h
      BY <1>2, <2>1, <3>2, Zenon DEF Placed
    <3> QED
      BY <3>1, <3>2
  <2>3. O2[g].node = O[g].node /\ O2[g].at = O[g].at /\ O2[g].type = O[g].type
        /\ O2[g].dirty = O[g].dirty
    BY <1>12
  <2>4. /\ O[g].at \in Chains \X Nat /\ O[g].node \in Node \cup {None} /\ O[g].node # O[g].at[1]
        /\ ~O[g].dirty => D[O[g].at[1]][O[g].at[2]].node = O[g].node
        /\ O[g].dirty => D[O[g].at[1]][O[g].at[2]].node = None /\ O[g].node # None
        /\ O[g].type = "dir" /\ D[O[g].at[1]][O[g].at[2]].what = "dir" => O[g].node # None
    BY <2>1, Zenon DEF Placed
  <2> QED
    BY <2>1, <2>2, <2>3, <2>4, Zenon DEF Placed
<1>15. ASSUME NEW g \in Object PROVE Current(D2, O2, g)
  <2>1. CASE g = h
    <3>1. Current(D, O, h)
      BY <1>1
    <3>2. O2[h] = o /\ o.size = Len(D2[o.node])
      BY <1>2, <1>3
    <3>3. o.type # "closed" /\ o.type # "half"
      BY DEF IsDir
    <3>4. IsRoot(o) => o.node = Root /\ o.at = <<>> /\ ~o.dirty
      BY <3>1, Zenon DEF Current, IsRoot
    <3>5. o.type \in {"file", "dir"} => Placed(D2, O2, h)
      BY <1>14
    <3> QED
      BY <2>1, <3>2, <3>3, <3>4, <3>5, Zenon DEF Current
  <2>2. CASE g # h
    <3>1. O2[g] = O[g] /\ Current(D, O, g)
      BY <1>1, <1>2, <2>2
    <3>2. IsDir(O[g]) /\ O[g].node \in Chains => D2[O[g].node] = D[O[g].node]
      <4>1. IsDir(O[g]) => O[g].type # "closed"
        BY DEF IsDir
      <4> QED
        BY <1>3, <2>2, <4>1, Zenon
    <3> QED
      BY <1>1, <1>14, <3>1, <3>2, CurrentKept
  <2> QED
    BY <2>1, <2>2
<1> QED
  BY <1>2, <1>5, <1>8, <1>9, <1>11, <1>15, Zenon DEF Good, D2, O2

\* makeDir(): a directory's first slots are given '.' and '..'.
LEMMA DotsGood ==
  ASSUME NEW D, NEW O, NEW D2 \in Disks, NEW h \in Object, NEW n, NEW d, NEW i, Good(D, O),
         Entry(D, d, i), D[d][i].what = "dir", D[d][i].node = n, n \in Node,
         D[n][1].what = "free",
         \A x \in Chains : Len(D2[x]) = Len(D[x]),
         \A x \in Chains : \A k \in 1 .. Len(D[x]) : x # n \/ k \notin {1, 2} => D2[x][k] = D[x][k],
         D2[n][1] = Slot(Dot, Bad, n, 0),
         D2[n][2] = Slot(DotDot, Bad, IF d = Root THEN None ELSE d, 0)
  PROVE  Good(D2, O)
<1>1. /\ D \in Disks /\ O \in Objects /\ Whole(D) /\ Apart(D) /\ Linked(D) /\ n \in Chains
      /\ \A g \in Object : Current(D, O, g)
  BY DEF Good, Chains
<1>2. /\ D2[n][1].what = Dot /\ D2[n][1].node = n
      /\ D2[n][2].what = DotDot /\ D2[n][2].node = IF d = Root THEN None ELSE d
      /\ ~IsUsed(D2[n][1]) /\ ~IsUsed(D2[n][2])
  BY DEF Slot, IsUsed, Dot, DotDot
<1>3. Len(D[n]) \in Nat /\ Len(D[n]) >= 2
  <2>1. n # None
    BY NodeAssumption
  <2>2. Len(D[n]) > 0
    BY <2>1, EntryIs
  <2> QED
    BY <1>1, <2>2, CellIs
<1>4. ASSUME NEW k \in 1 .. Len(D[n]) PROVE ~IsUsed(D[n][k])
  <2>1. 1 \in 1 .. k
    BY <1>3
  <2> QED
    BY <1>1, <2>1, Zenon DEF Whole
<1>5. ASSUME NEW x \in Chains, NEW k \in 1 .. Len(D2[x]), IsUsed(D2[x][k])
      PROVE  x # n /\ k \in 1 .. Len(D[x]) /\ IsUsed(D[x][k]) /\ D2[x][k] = D[x][k]
  <2>1. k \in 1 .. Len(D[x])
    OBVIOUS
  <2>2. x # n
    <3>1. CASE k \in {1, 2}
      BY <1>2, <1>5, <3>1
    <3>2. CASE k \notin {1, 2}
      BY <1>4, <1>5, <2>1, <3>2, Zenon
    <3> QED
      BY <3>1, <3>2
  <2> QED
    BY <1>5, <2>1, <2>2, Zenon
<1>6. ASSUME NEW x \in Chains, x # n, NEW k \in 1 .. Len(D[x]) PROVE D2[x][k] = D[x][k]
  BY <1>6, Zenon
<1>7. Whole(D2)
  <2>1. ASSUME NEW x \in Chains, NEW k \in 1 .. Len(D2[x]), IsUsed(D2[x][k])
        PROVE  /\ k \in 1 .. Len(D[x]) /\ IsUsed(D[x][k]) /\ D2[x][k].name = D[x][k].name
               /\ \A j \in 1 .. k : D2[x][j].what = "free" => D[x][j].what = "free"
    <3>1. x # n /\ k \in 1 .. Len(D[x]) /\ IsUsed(D[x][k]) /\ D2[x][k] = D[x][k]
      BY <1>5, <2>1
    <3>2. ASSUME NEW j \in 1 .. k PROVE D2[x][j] = D[x][j]
      <4>1. j \in 1 .. Len(D[x])
        BY <1>1, <3>1, CellIs
      <4> QED
        BY <3>1, <4>1, <1>6, Zenon
    <3> QED
      BY <3>1, <3>2, Zenon
  <2> QED
    BY <1>1, <2>1, WholeKept, Zenon
<1>8. Apart(D2)
  <2>1. ASSUME NEW x \in Chains, NEW k \in 1 .. Len(D2[x]), IsUsed(D2[x][k]), D2[x][k].node # None
        PROVE  k \in 1 .. Len(D[x]) /\ IsUsed(D[x][k]) /\ D2[x][k].node = D[x][k].node
    BY <1>5, <2>1, Zenon
  <2>2. D \in Disks /\ D2 \in Disks /\ Apart(D)
    BY <1>1
  <2> QED
    BY ONLY <2>1, <2>2, ApartKept
<1>9. ASSUME NEW m \in Chains, m # n, Len(D[m]) > 0
      PROVE  Len(D2[m]) > 0 /\ D2[m][1] = D[m][1] /\ D2[m][2] = D[m][2]
  <2>1. Len(D[m]) >= 2 /\ Len(D[m]) \in Nat
    BY <1>1, <1>9, CellIs
  <2>2. 1 \in 1 .. Len(D[m]) /\ 2 \in 1 .. Len(D[m])
    BY <2>1
  <2> QED
    BY <1>6, <1>9, <2>2, Zenon
<1>10. Linked(D2)
  <2> SUFFICES ASSUME NEW x \in Chains, NEW k \in 1 .. Len(D2[x]), IsUsed(D2[x][k])
               PROVE  /\ D2[x][k].node # x
                      /\ D2[x][k].node # None => Len(D2[D2[x][k].node]) > 0
                      /\ D2[x][k].size > 0 => D2[x][k].node # None
                      /\ D2[x][k].what = "dir" /\ D2[x][k].node # None => Named(D2, D2[x][k].node, x)
    BY Zenon DEF Linked
  <2>1. k \in 1 .. Len(D[x]) /\ IsUsed(D[x][k]) /\ D2[x][k] = D[x][k]
    BY <1>5, Zenon
  <2> DEFINE m == D[x][k].node
  <2>2. Entry(D, x, k)
    BY <2>1, Zenon DEF Entry
  <2>3. /\ m \in Node \cup {None} /\ m # x /\ (m # None => Len(D[m]) > 0)
        /\ D[x][k].size > 0 => m # None
        /\ D[x][k].what = "dir" /\ m # None => Named(D, m, x)
    BY <2>2, EntryIs
  <2>4. m # None => m \in Chains /\ Len(D2[m]) > 0
    <3>1. m # None => m \in Chains
      BY <2>3 DEF Chains
    <3> QED
      BY <2>3, <3>1
  <2>5. ASSUME D[x][k].what = "dir", m # None PROVE Named(D2, m, x)
    <3>1. CASE m = n
      <4>1. x = d /\ k = i
        <5>1. IsUsed(D[x][k]) /\ IsUsed(D[d][i]) /\ D[x][k].node = D[d][i].node /\ D[x][k].node # None
          BY <2>1, <2>5, <3>1 DEF Entry
        <5>2. d \in Chains /\ i \in 1 .. Len(D[d])
          BY DEF Entry
        <5> QED
          BY <1>1, <2>1, <5>1, <5>2 DEF Apart
      <4> QED
        BY <1>2, <3>1, <4>1, Zenon DEF Named
    <3>2. CASE m # n
      <4>1. D2[m][1] = D[m][1] /\ D2[m][2] = D[m][2]
        BY <1>9, <2>3, <2>4, <2>5, <3>2, Zenon
      <4> QED
        BY <2>3, <2>5, <4>1, Zenon DEF Named
    <3> QED
      BY <3>1, <3>2
  <2> QED
    BY <2>1, <2>3, <2>4, <2>5, Zenon
<1>11. ASSUME NEW g \in Object PROVE Current(D2, O, g)
  <2>1. ASSUME O[g].type \in {"file", "dir"} PROVE Placed(D2, O, g)
    <3>1. Placed(D, O, g)
      BY <1>1, <2>1, Zenon DEF Current
    <3> DEFINE x == O[g].at[1]
               k == O[g].at[2]
    <3>2. x \in Chains /\ k \in 1 .. Len(D[x]) /\ IsUsed(D[x][k])
      BY <3>1, Zenon DEF Placed, Entry
    <3>3. x # n
      BY <1>4, <3>2, Zenon
    <3>4. D2[x][k] = D[x][k] /\ Entry(D2, x, k)
      BY <1>6, <3>2, <3>3, Zenon DEF Entry
    <3>5. O[g].node # None => Len(D2[O[g].node]) > 0
      BY <3>1 DEF Placed, Chains
    <3>6. ASSUME O[g].dirty PROVE Alone(D2, O, g)
      <4>1. Alone(D, O, g) /\ O[g].node \in Chains /\ Len(D[O[g].node]) > 0
        BY <3>1, <3>6 DEF Placed, Chains
      <4>2. O[g].node # n
        BY <4>1 DEF Alone, Entry
      <4>3. D2[O[g].node][1] = D[O[g].node][1]
        BY <1>9, <4>1, <4>2, Zenon
      <4> QED
        <5>1. \A y \in Chains : \A j \in 1 .. Len(D2[y]) : IsUsed(D2[y][j]) => D2[y][j].node # O[g].node
          <6> SUFFICES ASSUME NEW y \in Chains, NEW j \in 1 .. Len(D2[y]), IsUsed(D2[y][j])
                       PROVE  D2[y][j].node # O[g].node
            OBVIOUS
          <6>1. j \in 1 .. Len(D[y]) /\ IsUsed(D[y][j]) /\ D2[y][j] = D[y][j]
            BY <1>5
          <6> QED
            BY <4>1, <6>1 DEF Alone
        <5> QED
          BY <4>1, <4>3, <5>1, Zenon DEF Alone
    <3> HIDE DEF x, k
    <3>7. /\ O[g].at \in Chains \X Nat /\ O[g].node \in Node \cup {None} /\ O[g].node # x
          /\ O[g].size > 0 => O[g].node # None
          /\ ~O[g].dirty => D[x][k].node = O[g].node
          /\ O[g].dirty => D[x][k].node = None /\ O[g].node # None
          /\ O[g].type = "dir" /\ D[x][k].what = "dir" => O[g].node # None
      BY <3>1, Zenon DEF Placed, x, k
    <3> QED
      BY <3>4, <3>5, <3>6, <3>7, Zenon DEF Placed, x, k
  <2> QED
    BY <1>1, <2>1, CurrentKept
<1> QED
  BY <1>1, <1>7, <1>8, <1>10, <1>11, Zenon DEF Good

-----------------------------------------------------------------------------
\* A state whose volume is followed is good; each result of a call has such a state.
State(s) == s = [disk |-> s.disk, obj |-> s.obj, faults |-> s.faults, lost |-> s.lost]
Fine(s) == State(s) /\ s.lost \in BOOLEAN /\ (~s.lost => Good(s.disk, s.obj))
Result(r) == r = [s |-> r.s, ok |-> r.ok] /\ r.ok \in BOOLEAN
AllFine(R) == \A r \in R : Result(r) /\ Fine(r.s)

LEMMA YesFine == ASSUME NEW s, Fine(s) PROVE AllFine(Yes(s))
<1> DEFINE r == [s |-> s, ok |-> TRUE]
<1>1. r.s = s /\ r.ok = TRUE
  OBVIOUS
<1>2. r = [s |-> r.s, ok |-> r.ok]
  BY <1>1
<1>3. Result(r) /\ Fine(r.s)
  BY <1>1, <1>2 DEF Result
<1> QED
  BY <1>3, Zenon DEF AllFine, Yes

LEMMA NoFine == ASSUME NEW s, Fine(s) PROVE AllFine(No(s))
<1> DEFINE r == [s |-> s, ok |-> FALSE]
<1>1. r.s = s /\ r.ok = FALSE
  OBVIOUS
<1>2. r = [s |-> r.s, ok |-> r.ok]
  BY <1>1
<1>3. Result(r) /\ Fine(r.s)
  BY <1>1, <1>2 DEF Result
<1> QED
  BY <1>3, Zenon DEF AllFine, No

LEMMA FaultFine == ASSUME NEW s, Fine(s) PROVE AllFine(Fault(s)) /\ \A r \in Fault(s) : ~r.ok
<1> DEFINE t == [s EXCEPT !.faults = @ + 1]
<1>1. State(t) /\ t.disk = s.disk /\ t.obj = s.obj /\ t.lost = s.lost
  BY DEF State, Fine
<1> HIDE DEF t
<1>2. Fine(t)
  BY <1>1, Zenon DEF Fine
<1>3. AllFine(No(t)) /\ \A r \in No(t) : ~r.ok
  BY <1>2, NoFine DEF No
<1>4. Fault(s) = No(t) \/ Fault(s) = {}
  BY DEF Fault, t
<1> QED
  BY <1>3, <1>4, Zenon DEF AllFine

\* A state made of another.
LEMMA FineBy ==
  ASSUME NEW s, NEW t, Fine(s), State(t), NEW P, t.lost = (s.lost \/ P),
         ~s.lost /\ ~P => Good(t.disk, t.obj)
  PROVE  Fine(t)
<1>1. s.lost \in BOOLEAN
  BY DEF Fine
<1>2. CASE s.lost \/ P
  <2>1. t.lost = TRUE
    BY <1>2
  <2> QED
    BY <2>1, Zenon DEF Fine
<1>3. CASE ~(s.lost \/ P)
  <2>1. t.lost = FALSE
    BY <1>3
  <2> QED
    BY <1>3, <2>1, Zenon DEF Fine
<1> QED
  BY <1>2, <1>3, Zenon

LEMMA NoSharers ==
  ASSUME NEW s, NEW h \in Object, Sharers(s, h) = {},
         NEW g \in Object, g # h, s.obj[g].type # "closed"
  PROVE  /\ s.obj[h].at # <<>> => s.obj[g].at # s.obj[h].at
         /\ s.obj[h].node # None => s.obj[g].node # s.obj[h].node
  BY DEF Sharers, IsOpen

\* What put() makes of a state
LEMMA PutStateIs ==
  ASSUME NEW s, State(s), NEW at, NEW e
  PROVE  /\ State(Put(s, at, e)) /\ Put(s, at, e).obj = s.obj /\ Put(s, at, e).lost = s.lost
         /\ Put(s, at, e).disk = [s.disk EXCEPT ![at[1]][at[2]] = e]
  BY DEF State, Put

\* What sync() makes of a state
Told(s, h) ==
  [Put(s, s.obj[h].at, [At(s, s.obj[h].at) EXCEPT !.node = s.obj[h].node,
     !.size = IF IsDir(s.obj[h]) THEN @ ELSE s.obj[h].size])
   EXCEPT !.obj[h].dirty = FALSE, !.lost = @ \/ Sharers(s, h) # {}]

LEMMA ToldFine ==
  ASSUME NEW s, NEW h \in Object, Fine(s), s.obj[h].dirty
  PROVE  Fine(Told(s, h))
<1> DEFINE o == s.obj[h]
           t == Told(s, h)
           e == [At(s, o.at) EXCEPT !.node = o.node, !.size = IF IsDir(o) THEN @ ELSE o.size]
           o2 == [o EXCEPT !.dirty = FALSE]
           P == Sharers(s, h) # {}
<1>1. /\ State(t) /\ t.disk = [s.disk EXCEPT ![o.at[1]][o.at[2]] = e]
      /\ t.obj = [s.obj EXCEPT ![h] = o2] /\ t.lost = (s.lost \/ P)
  <2> DEFINE u == Put(s, o.at, e)
  <2>1. State(s) /\ State(u) /\ u.obj = s.obj /\ u.lost = s.lost
        /\ u.disk = [s.disk EXCEPT ![o.at[1]][o.at[2]] = e]
    BY DEF State, Fine, Put
  <2>2. t = [u EXCEPT !.obj[h].dirty = FALSE, !.lost = @ \/ P]
    BY DEF Told
  <2> HIDE DEF u, t, P
  <2>3. t.lost = (s.lost \/ P)
    BY <2>1, <2>2 DEF State
  <2>4. State(t) /\ t.disk = u.disk /\ t.obj = [u.obj EXCEPT ![h].dirty = FALSE]
    BY <2>1, <2>2 DEF State
  <2>5. [u.obj EXCEPT ![h].dirty = FALSE] = [s.obj EXCEPT ![h] = o2]
    BY <2>1
  <2> QED
    BY <2>1, <2>3, <2>4, <2>5
<1>2. ASSUME ~s.lost, ~P PROVE Good(t.disk, t.obj)
  <2>1. Good(s.disk, s.obj)
    BY <1>2, Zenon DEF Fine
  <2>2. s.disk \in Disks /\ s.obj \in Objects
    BY <2>1, Zenon DEF Good
  <2>3. /\ o.type \in {"file", "dir"} /\ Placed(s.disk, s.obj, h) /\ o.node \in Node
    BY <2>1, DirtyIs, Zenon
  <2>4. /\ o.at \in Chains \X Nat /\ o.at[1] \in Chains /\ o.at[2] \in 1 .. Len(s.disk[o.at[1]])
        /\ o.at = <<o.at[1], o.at[2]>>
    <3>1. o.at \in Chains \X Nat /\ Entry(s.disk, o.at[1], o.at[2])
      BY <2>3, Zenon DEF Placed
    <3> QED
      BY <2>3, <3>1, PlacedIs
  <2>5. At(s, o.at) \in SlotSet /\ At(s, o.at) = s.disk[o.at[1]][o.at[2]]
    BY <2>2, <2>4, CellIs DEF At
  <2>6. o \in ObjectSet /\ o.size \in Nat
    BY <2>2, ObjectIs
  <2>7. /\ e \in SlotSet /\ e.what = At(s, o.at).what /\ e.name = At(s, o.at).name
        /\ e.node = o.node
    BY <2>3, <2>5, <2>6 DEF SlotSet
  <2>8. /\ o2 \in ObjectSet /\ o2.type = o.type /\ o2.node = o.node /\ o2.size = o.size
        /\ o2.at = o.at /\ ~o2.dirty
    BY <2>6 DEF ObjectSet
  <2>9. ASSUME NEW g \in Object, g # h, s.obj[g].type # "closed" PROVE s.obj[g].at # o.at
    <3>1. o.at # <<>>
      BY <2>4
    <3>2. Sharers(s, h) = {}
      BY <1>2, Zenon
    <3> QED
      BY <2>9, <3>1, <3>2, NoSharers, Zenon
  <2> HIDE DEF e, o2, o, t
  <2>10. PutAs(s.disk, t.disk, o.at[1], o.at[2], e)
    BY <1>1, <2>2, <2>4, <2>7, PutIs
  <2>11. /\ o2.type = s.obj[h].type /\ o2.node = s.obj[h].node /\ o2.size = s.obj[h].size
         /\ o2.at = s.obj[h].at /\ e.node = o2.node
    BY <2>7, <2>8, Zenon DEF o
  <2>12. /\ e.what = s.disk[o2.at[1]][o2.at[2]].what /\ e.name = s.disk[o2.at[1]][o2.at[2]].name
         /\ PutAs(s.disk, t.disk, o2.at[1], o2.at[2], e)
    BY <2>5, <2>7, <2>8, <2>10, Zenon
  <2>13. \A g \in Object : g # h /\ s.obj[g].type # "closed" => s.obj[g].at # o2.at
    BY <2>8, <2>9, Zenon
  <2>14. e \in SlotSet /\ o2 \in ObjectSet /\ ~o2.dirty
    BY <2>7, <2>8, Zenon
  <2>15. Good(t.disk, [s.obj EXCEPT ![h] = o2])
    BY <2>1, <2>11, <2>12, <2>13, <2>14, ToldGood, Zenon
  <2> QED
    BY <1>1, <2>15, Zenon
<1> HIDE DEF t, P
<1>3. Fine(t)
  BY <1>1, <1>2, FineBy, Zenon
<1> QED
  BY <1>3 DEF t

LEMMA LostIs ==
  ASSUME NEW s, State(s), NEW b
  PROVE  LET t == [s EXCEPT !.lost = b] IN
         State(t) /\ t.lost = b /\ t.disk = s.disk /\ t.obj = s.obj /\ t.faults = s.faults
  BY DEF State

LEMMA LostFine == ASSUME NEW s, State(s), s.lost = TRUE PROVE Fine(s)
  BY Zenon DEF Fine

\* The volume is no longer followed.
Strayed(s) == [s EXCEPT !.lost = TRUE]

LEMMA StrayedFine ==
  ASSUME NEW s, State(s)
  PROVE  Fine(Strayed(s)) /\ State(Strayed(s)) /\ Strayed(s).lost = TRUE
<1>1. State(Strayed(s)) /\ Strayed(s).lost = TRUE
  BY LostIs, Zenon DEF Strayed
<1> QED
  BY <1>1, LostFine, Zenon

LEMMA SyncIs ==
  ASSUME NEW s, NEW h \in Object
  PROVE  /\ ~IsOpen(s.obj[h]) => Sync(s, h) = No(s)
         /\ IsOpen(s.obj[h]) /\ s.obj[h].dirty =>
              Sync(s, h) = Fault(s) \cup (Fault(Told(s, h)) \cup Yes(Told(s, h)))
         /\ IsOpen(s.obj[h]) /\ ~s.obj[h].dirty /\ s.obj[h].type # "half" =>
              Sync(s, h) = Fault(s) \cup Yes(s)
         /\ IsOpen(s.obj[h]) /\ ~s.obj[h].dirty /\ s.obj[h].type = "half" =>
              Sync(s, h) = (Fault(s) \cup Yes(s)) \cup Yes(Strayed(s))
  BY DEF Sync, Access, Told, Strayed

LEMMA BothFine == ASSUME NEW R, NEW S, AllFine(R), AllFine(S) PROVE AllFine(R \cup S)
  BY Zenon DEF AllFine

\* sync()
LEMMA SyncFine ==
  ASSUME NEW s, NEW h \in Object, Fine(s)
  PROVE  AllFine(Sync(s, h))
<1>1. AllFine(No(s)) /\ AllFine(Yes(s)) /\ AllFine(Fault(s))
  BY NoFine, YesFine, FaultFine, Zenon
<1>2. ASSUME s.obj[h].dirty PROVE AllFine(Fault(Told(s, h)) \cup Yes(Told(s, h)))
  <2>1. Fine(Told(s, h))
    BY <1>2, ToldFine, Zenon
  <2>2. AllFine(Fault(Told(s, h))) /\ AllFine(Yes(Told(s, h)))
    BY <2>1, FaultFine, YesFine, Zenon
  <2> QED
    BY <2>2, BothFine, Zenon
<1>3. CASE ~IsOpen(s.obj[h])
  BY <1>1, <1>3, SyncIs, Zenon
<1>4. CASE IsOpen(s.obj[h]) /\ s.obj[h].dirty
  <2>1. AllFine(Fault(s) \cup (Fault(Told(s, h)) \cup Yes(Told(s, h))))
    BY <1>1, <1>2, <1>4, BothFine, Zenon
  <2> QED
    BY <1>4, <2>1, SyncIs, Zenon
<1>5. AllFine(Fault(s) \cup Yes(s))
  BY <1>1, BothFine, Zenon
<1>6. CASE IsOpen(s.obj[h]) /\ ~s.obj[h].dirty /\ s.obj[h].type # "half"
  BY <1>5, <1>6, SyncIs, Zenon
<1>7. CASE IsOpen(s.obj[h]) /\ ~s.obj[h].dirty /\ s.obj[h].type = "half"
  <2>1. AllFine(Yes(Strayed(s)))
    BY StrayedFine, YesFine, Zenon DEF Fine
  <2>2. AllFine((Fault(s) \cup Yes(s)) \cup Yes(Strayed(s)))
    BY <1>5, <2>1, BothFine, Zenon
  <2> QED
    BY <1>7, <2>2, SyncIs, Zenon
<1> QED
  BY <1>3, <1>4, <1>6, <1>7, Zenon

\* What closing an object makes of a state
Shut(s, h) == [s EXCEPT !.obj[h] = Closed]

LEMMA ShutFine ==
  ASSUME NEW s, NEW h \in Object, Fine(s)
  PROVE  Fine(Shut(s, h))
<1> DEFINE t == Shut(s, h)
<1>1. State(t) /\ t.disk = s.disk /\ t.obj = [s.obj EXCEPT ![h] = Closed] /\ t.lost = s.lost
  BY DEF State, Fine, Shut
<1> HIDE DEF t
<1>2. ~t.lost => Good(t.disk, t.obj)
  <2>1. ~s.lost => Good(s.disk, [s.obj EXCEPT ![h] = Closed])
    BY ShutGood, Zenon DEF Fine
  <2> QED
    BY <1>1, <2>1, Zenon
<1>3. Fine(t)
  BY <1>1, <1>2, Zenon DEF Fine
<1> QED
  BY <1>3 DEF t

\* close()
LEMMA CloseFine ==
  ASSUME NEW s, NEW h \in Object, Fine(s)
  PROVE  AllFine(Close(s, h))
<1> SUFFICES ASSUME NEW r \in Close(s, h) PROVE Result(r) /\ Fine(r.s)
  BY Zenon DEF AllFine
<1>1. PICK q \in Sync(s, h) : r \in (IF q.ok THEN Yes(Shut(q.s, h)) ELSE {q})
  BY DEF Close, And, Shut
<1>2. Result(q) /\ Fine(q.s)
  BY SyncFine, Zenon DEF AllFine
<1>3. AllFine(Yes(Shut(q.s, h)))
  BY <1>2, ShutFine, YesFine, Zenon
<1> QED
  BY <1>1, <1>2, <1>3, Zenon DEF AllFine

LEMMA ForgetFine ==
  ASSUME NEW R, NEW h \in Object, AllFine(R)
  PROVE  AllFine(Forget(R, h))
<1> SUFFICES ASSUME NEW r \in R
             PROVE  LET q == [r EXCEPT !.s.obj[h] = Closed] IN Result(q) /\ Fine(q.s)
  BY DEF AllFine, Forget
<1> DEFINE q == [r EXCEPT !.s.obj[h] = Closed]
<1>1. Result(r) /\ Fine(r.s)
  BY Zenon DEF AllFine
<1>2. q = [r EXCEPT !.s = Shut(r.s, h)]
  BY DEF Shut
<1>3. q.s = Shut(r.s, h) /\ q.ok = r.ok /\ q = [s |-> q.s, ok |-> q.ok]
  BY <1>1, <1>2 DEF Result
<1>4. Fine(q.s)
  <2>1. Fine(Shut(r.s, h))
    BY <1>1, ShutFine, Zenon
  <2> QED
    BY <1>3, <2>1, Zenon
<1> QED
  BY <1>1, <1>3, <1>4 DEF Result

\* What truncate(0) makes of a state, before and after the entry says so
Freed(s, h) ==
  [s EXCEPT !.disk[s.obj[h].node] = <<>>, !.lost = @ \/ Sharers(s, h) \cup Inside(s, h) # {},
            !.obj[h].node = None, !.obj[h].size = 0, !.obj[h].dirty = TRUE]

LEMMA FreedGood ==
  ASSUME NEW D, NEW O, NEW h \in Object, NEW o \in ObjectSet, NEW e \in SlotSet, Good(D, O),
         O[h].type = "file", O[h].size > 0,
         o.type = "file", o.at = O[h].at, o.node = None, o.size = 0, ~o.dirty,
         e.what = D[o.at[1]][o.at[2]].what, e.name = D[o.at[1]][o.at[2]].name,
         e.node = None, e.size = 0,
         \A g \in Object : g # h /\ O[g].type # "closed" =>
           /\ O[g].at # o.at /\ O[g].node # O[h].node
           /\ O[g].at # <<>> => O[g].at[1] # O[h].node
  PROVE  /\ Good([[D EXCEPT ![O[h].node] = <<>>] EXCEPT ![o.at[1]][o.at[2]] = e],
                 [O EXCEPT ![h] = o])
         /\ [D EXCEPT ![O[h].node] = <<>>][o.at[1]] = D[o.at[1]]
<1> DEFINE n == O[h].node
           d == o.at[1]
           i == o.at[2]
           D1 == [D EXCEPT ![d][i] = e]
           O2 == [O EXCEPT ![h] = o]
<1>1. D \in Disks /\ O \in Objects /\ \A g \in Object : Current(D, O, g)
  BY DEF Good
<1>2. /\ Placed(D, O, h) /\ n \in Node /\ n # d /\ d \in Chains /\ i \in 1 .. Len(D[d])
      /\ n \in Chains
  <2>1. Placed(D, O, h)
    BY <1>1 DEF Current
  <2> QED
    BY <2>1 DEF Placed, Entry, Chains
<1>3. PutAs(D, D1, d, i, e)
  BY <1>1, <1>2, PutIs
<1>4. O2 \in Objects /\ O2[h] = o /\ \A g \in Object : g # h => O2[g] = O[g]
  BY <1>1, SetIs
<1> HIDE DEF D1, O2
<1>5. Good(D1, O2)
  <2>1. \A g \in Object : g # h /\ O[g].type # "closed" => O[g].at # o.at
    BY Zenon
  <2> QED
    BY <1>3, <2>1, EmptiedGood, Zenon DEF O2
<1>6. ASSUME NEW g \in Object
      PROVE  O2[g].node # n /\ (O2[g].type # "closed" /\ O2[g].at # <<>> => O2[g].at[1] # n)
  <2>1. CASE g = h
    BY <1>2, <1>4, <2>1, NodeAssumption
  <2>2. CASE g # h
    <3>1. O[g].type = "closed" => O[g].node = None
      <4>1. O[g].type = "closed" => O[g] = Closed
        BY <1>1, Zenon DEF Current
      <4> QED
        BY <4>1 DEF Closed
    <3> QED
      BY <1>2, <1>4, <2>2, <3>1, NodeAssumption
  <2> QED
    BY <2>1, <2>2
<1>7. ASSUME NEW x \in Chains, NEW k \in 1 .. Len(D1[x]), IsUsed(D1[x][k]) PROVE D1[x][k].node # n
  <2>1. k \in 1 .. Len(D[x])
    BY <1>3 DEF PutAs
  <2>2. CASE x = d /\ k = i
    BY <1>2, <1>3, <2>2, NodeAssumption DEF PutAs
  <2>3. CASE x # d \/ k # i
    <3>1. D1[x][k] = D[x][k]
      BY <1>3, <2>1, <2>3, Zenon DEF PutAs
    <3>2. CASE O[h].dirty
      BY <1>2, <1>7, <2>1, <3>1, <3>2, Zenon DEF Placed, Alone
    <3>3. CASE ~O[h].dirty
      <4>1. D[d][i].node = n /\ IsUsed(D[d][i]) /\ n # None
        BY <1>2, <3>3, NodeAssumption DEF Placed, Entry
      <4>2. Apart(D)
        BY DEF Good
      <4> QED
        <5> SUFFICES ASSUME D1[x][k].node = n PROVE FALSE
          OBVIOUS
        <5>1. IsUsed(D[x][k]) /\ D[x][k].node = n
          BY <1>7, <3>1, Zenon
        <5>2. d \in Chains /\ i \in 1 .. Len(D[d])
          BY <1>2, Zenon DEF Entry
        <5>3. D[x][k].node = D[d][i].node /\ D[x][k].node # None
          BY <4>1, <5>1, Zenon
        <5>4. x = d /\ k = i
          BY <1>7, <2>1, <4>1, <4>2, <5>1, <5>2, <5>3, ApartIs, Zenon
        <5> QED
          BY <2>3, <5>4, Zenon
    <3> QED
      BY <3>2, <3>3
  <2> QED
    BY <2>2, <2>3
<1>8. Good([D1 EXCEPT ![n] = <<>>], O2)
  <2>1. n \in Node
    BY <1>2
  <2> HIDE DEF n
  <2> QED
    BY ONLY <2>1, <1>5, <1>6, <1>7, ErasedGood
<1>9. [D1 EXCEPT ![n] = <<>>] = [[D EXCEPT ![n] = <<>>] EXCEPT ![d][i] = e]
  <2>1. D \in [Chains -> Seq(SlotSet)]
    BY <1>1 DEF Disks
  <2> QED
    BY <1>2, <2>1 DEF D1
<1>10. [D EXCEPT ![n] = <<>>][d] = D[d]
  <2>1. D \in [Chains -> Seq(SlotSet)]
    BY <1>1 DEF Disks
  <2> QED
    BY <1>2, <2>1
<1> QED
  BY <1>8, <1>9, <1>10, Zenon DEF O2

LEMMA ObjIs ==
  ASSUME NEW s, State(s), NEW b
  PROVE  LET t == [s EXCEPT !.obj = b] IN
         State(t) /\ t.obj = b /\ t.disk = s.disk /\ t.lost = s.lost /\ t.faults = s.faults
  BY DEF State

LEMMA DiskIs ==
  ASSUME NEW s, State(s), NEW b
  PROVE  LET t == [s EXCEPT !.disk = b] IN
         State(t) /\ t.disk = b /\ t.obj = s.obj /\ t.lost = s.lost /\ t.faults = s.faults
  BY DEF State

LEMMA SyncLost ==
  ASSUME NEW s, NEW h \in Object, State(s), s.lost = TRUE
  PROVE  \A r \in Sync(s, h) : Result(r) /\ State(r.s) /\ r.s.lost = TRUE
<1> DEFINE AllLost(R) == \A r \in R : Result(r) /\ State(r.s) /\ r.s.lost = TRUE
<1>1. ASSUME NEW t, State(t), t.lost = TRUE
      PROVE  AllLost(No(t)) /\ AllLost(Yes(t)) /\ AllLost(Fault(t))
  <2>1. Fine(t)
    BY <1>1, LostFine, Zenon
  <2>2. /\ \A r \in No(t) : Result(r) /\ r.s = t
        /\ \A r \in Yes(t) : Result(r) /\ r.s = t
    <3>1. AllFine(No(t)) /\ AllFine(Yes(t))
      BY <2>1, NoFine, YesFine, Zenon
    <3> QED
      BY <3>1 DEF AllFine, No, Yes
  <2>3. \A r \in Fault(t) : Result(r) /\ State(r.s)
    BY <2>1, FaultFine, Zenon DEF AllFine, Fine
  <2>4. ASSUME NEW r \in Fault(t) PROVE r.s.lost = TRUE
    <3> DEFINE u == [t EXCEPT !.faults = @ + 1]
    <3>1. r = [s |-> u, ok |-> FALSE]
      BY <2>4 DEF Fault, No
    <3>2. u.lost = TRUE
      BY <1>1 DEF State
    <3> HIDE DEF u
    <3> QED
      BY <3>1, <3>2
  <2> QED
    BY <1>1, <2>2, <2>3, <2>4, Zenon
<1> DEFINE t == Told(s, h)
<1>2. State(t) /\ t.lost = TRUE
  <2> DEFINE u == Put(s, s.obj[h].at, [At(s, s.obj[h].at) EXCEPT !.node = s.obj[h].node,
                    !.size = IF IsDir(s.obj[h]) THEN @ ELSE s.obj[h].size])
             P == Sharers(s, h) # {}
  <2>1. State(u) /\ u.lost = s.lost
    BY DEF State, Put
  <2>2. t = [u EXCEPT !.obj[h].dirty = FALSE, !.lost = @ \/ P]
    BY DEF Told
  <2> HIDE DEF u, t, P
  <2>3. t.lost = (s.lost \/ P)
    BY <2>1, <2>2 DEF State
  <2>4. State(t)
    BY <2>1, <2>2 DEF State
  <2> QED
    BY <2>3, <2>4
<1>3. AllLost(No(s)) /\ AllLost(Yes(s)) /\ AllLost(Fault(s)) /\ AllLost(Yes(t)) /\ AllLost(Fault(t))
  BY <1>1, <1>2, Zenon
<1> HIDE DEF t
<1>4. \/ Sync(s, h) = No(s)
      \/ Sync(s, h) = Fault(s) \cup (Fault(t) \cup Yes(t))
      \/ Sync(s, h) = Fault(s) \cup Yes(s)
      \/ Sync(s, h) = (Fault(s) \cup Yes(s)) \cup Yes(Strayed(s))
  BY SyncIs, Zenon DEF t
<1>5. AllLost(Yes(Strayed(s)))
  BY <1>1, StrayedFine, Zenon
<1> QED
  BY <1>3, <1>4, <1>5, Zenon

\* truncate(0)
LEMMA TruncateFine ==
  ASSUME NEW s, NEW h \in Object, Fine(s)
  PROVE  /\ AllFine(TruncateAll(s, h))
         /\ \A r \in TruncateAll(s, h) : r.ok /\ ~r.s.lost => r.s.obj[h].type = "file"
<1> DEFINE o == s.obj[h]
           f == Freed(s, h)
           l == [s EXCEPT !.lost = TRUE]
           F(r) == [r EXCEPT !.s.lost = @ \/ ~r.ok]
<1>1. CASE o.type # "file" \/ ~o.write
  <2>1. TruncateAll(s, h) = No(s)
    BY <1>1 DEF TruncateAll
  <2>2. \A r \in No(s) : ~r.ok
    BY DEF No
  <2> QED
    BY <2>1, <2>2, NoFine, Zenon
<1>2. CASE o.type = "file" /\ o.write /\ o.size = 0
  <2>1. TruncateAll(s, h) = Yes(s)
    BY <1>2 DEF TruncateAll
  <2>2. \A r \in Yes(s) : r.s.obj[h].type = "file"
    BY <1>2 DEF Yes
  <2> QED
    BY <2>1, <2>2, YesFine, Zenon
<1>3. CASE o.type = "file" /\ o.write /\ o.size # 0
  <2>1. TruncateAll(s, h) = Fault(s) \cup Fault(l) \cup {F(r) : r \in Sync(f, h)}
    BY <1>3 DEF TruncateAll, Freed
  <2>2. Fine(l)
    <3>1. State(l) /\ l.lost = TRUE
      <4>1. State(s)
        BY Zenon DEF Fine
      <4> QED
        BY <4>1, LostIs, Zenon
    <3> QED
      BY <3>1, LostFine, Zenon
  <2>3. /\ AllFine(Fault(s)) /\ AllFine(Fault(l))
        /\ \A r \in Fault(s) \cup Fault(l) : ~r.ok
    BY <2>2, FaultFine, Zenon
  <2> DEFINE P == Sharers(s, h) \cup Inside(s, h) # {}
  <2>4. State(f) /\ f.lost = (s.lost \/ P)
    <3> DEFINE g == [s EXCEPT !.disk[o.node] = <<>>]
               v == [[[g EXCEPT !.lost = @ \/ P] EXCEPT !.obj[h].node = None] EXCEPT !.obj[h].size = 0]
    <3>1. State(g) /\ g.lost = s.lost
      BY DEF State, Fine
    <3>2. f = [v EXCEPT !.obj[h].dirty = TRUE]
      BY DEF Freed
    <3> HIDE DEF f, g, P
    <3>3. v = [[[g EXCEPT !.lost = g.lost \/ P] EXCEPT !.obj[h].node = None] EXCEPT !.obj[h].size = 0]
      OBVIOUS
    <3> DEFINE w == [g EXCEPT !.lost = g.lost \/ P]
    <3>4. State(w) /\ w.lost = (g.lost \/ P)
      BY <3>1, LostIs, Zenon
    <3>5. v = [[w EXCEPT !.obj[h].node = None] EXCEPT !.obj[h].size = 0]
      BY <3>3
    <3> HIDE DEF w, v
    <3>6. State(v) /\ v.lost = w.lost
      BY <3>4, <3>5 DEF State
    <3> QED
      BY <3>1, <3>2, <3>4, <3>6 DEF State
  <2>5. ASSUME NEW r \in Sync(f, h)
        PROVE  /\ Result(F(r)) /\ Fine(F(r).s)
               /\ F(r).ok /\ ~F(r).s.lost => F(r).s.obj[h].type = "file"
    <3>1. ASSUME Result(r), State(r.s), r.s.lost \in BOOLEAN
          PROVE  /\ Result(F(r)) /\ State(F(r).s) /\ F(r).ok = r.ok /\ F(r).s.lost = (r.s.lost \/ ~r.ok)
                 /\ F(r).s.obj = r.s.obj /\ F(r).s.disk = r.s.disk
      <4>1. r.ok \in BOOLEAN /\ r = [s |-> r.s, ok |-> r.ok]
        BY <3>1 DEF Result
      <4> DEFINE u == [r.s EXCEPT !.lost = @ \/ ~r.ok]
      <4>2. State(u) /\ u.lost = (r.s.lost \/ ~r.ok) /\ u.obj = r.s.obj /\ u.disk = r.s.disk
        BY <3>1 DEF State
      <4>3. F(r) = [r EXCEPT !.s = u]
        OBVIOUS
      <4> HIDE DEF u, F
      <4>4. F(r).s = u /\ F(r).ok = r.ok /\ F(r) = [s |-> F(r).s, ok |-> F(r).ok]
        BY <4>1, <4>3
      <4> QED
        BY <4>1, <4>2, <4>4 DEF Result
    <3>2. CASE f.lost = TRUE
      <4>1. Result(r) /\ State(r.s) /\ r.s.lost = TRUE
        BY <2>4, <3>2, SyncLost, Zenon
      <4>2. F(r).s.lost = TRUE /\ Result(F(r)) /\ State(F(r).s)
        BY <4>1, <3>1
      <4> HIDE DEF F
      <4> QED
        BY <4>2, LostFine, Zenon
    <3>3. CASE f.lost = FALSE
      <4>1. ~s.lost /\ ~P
        BY <2>4, <3>3
      <4>2. Good(s.disk, s.obj)
        BY <4>1, Zenon DEF Fine
      <4> DEFINE o1 == [o EXCEPT !.node = None, !.size = 0, !.dirty = TRUE]
                 o2 == [o EXCEPT !.node = None, !.size = 0, !.dirty = FALSE]
                 t == Told(f, h)
                 D1 == [s.disk EXCEPT ![o.node] = <<>>]
      <4>3. s.obj \in Objects /\ s.disk \in Disks /\ o \in ObjectSet /\ o.size \in Nat
        BY <4>2, ObjectIs DEF Good
      <4>4. f.obj = [s.obj EXCEPT ![h] = o1] /\ f.disk = D1
        BY <4>3 DEF Freed, Fine, State, Objects
      <4>5. f.obj[h] = o1 /\ o1.dirty /\ o1.type = "file" /\ IsOpen(f.obj[h])
            /\ o1.node = None /\ o1.size = 0 /\ o1.at = o.at
        BY <4>3, <4>4, <1>3 DEF IsOpen, Objects, ObjectSet
      <4>6. Sync(f, h) = Fault(f) \cup (Fault(t) \cup Yes(t))
        BY <4>5, SyncIs, Zenon
      <4> DEFINE e == [At(f, o.at) EXCEPT !.node = None, !.size = 0]
                 Q == Sharers(f, h) # {}
      <4>7. /\ State(t) /\ t.disk = [D1 EXCEPT ![o.at[1]][o.at[2]] = e]
            /\ t.obj = [s.obj EXCEPT ![h] = o2] /\ t.lost = (f.lost \/ Q)
        <5> DEFINE u == Put(f, o.at, e)
        <5>1. State(u) /\ u.disk = [D1 EXCEPT ![o.at[1]][o.at[2]] = e] /\ u.obj = f.obj
              /\ u.lost = f.lost
          <6>1. State(f)
            BY <2>4, Zenon DEF Fine
          <6> HIDE DEF f, e, D1
          <6> QED
            BY <4>4, <6>1, PutStateIs
        <5>2. t = [u EXCEPT !.obj[h].dirty = FALSE, !.lost = @ \/ Q]
          BY <4>5 DEF Told, IsDir
        <5> HIDE DEF u, t, Q, f, D1, e
        <5> DEFINE w == [u EXCEPT !.obj[h].dirty = FALSE]
        <5>5. State(w) /\ w.disk = u.disk /\ w.obj = [u.obj EXCEPT ![h].dirty = FALSE]
              /\ w.lost = u.lost
          <6>1. w = [u EXCEPT !.obj = [u.obj EXCEPT ![h].dirty = FALSE]]
            OBVIOUS
          <6> DEFINE q == [u.obj EXCEPT ![h].dirty = FALSE]
                     y == [u EXCEPT !.obj = q]
          <6>2. State(u)
            BY <5>1
          <6> HIDE DEF w, q
          <6>3. State(y) /\ y.obj = q /\ y.disk = u.disk /\ y.lost = u.lost
            BY <6>2, ObjIs, Zenon
          <6>4. w = y
            BY <6>1 DEF q
          <6> HIDE DEF y
          <6> QED
            BY <6>3, <6>4, Zenon DEF q
        <5>6. t = [w EXCEPT !.lost = w.lost \/ Q]
          BY <5>2
        <5> HIDE DEF w
        <5>3. State(t) /\ t.disk = u.disk /\ t.obj = [u.obj EXCEPT ![h].dirty = FALSE]
              /\ t.lost = (u.lost \/ Q)
          <6>1. State(t) /\ t.lost = (w.lost \/ Q) /\ t.disk = w.disk /\ t.obj = w.obj
            BY <5>5, <5>6, LostIs, Zenon
          <6> QED
            BY <5>5, <6>1, Zenon
        <5>4. [u.obj EXCEPT ![h].dirty = FALSE] = [s.obj EXCEPT ![h] = o2]
          <6>1. o1 \in ObjectSet /\ o2 = [o1 EXCEPT !.dirty = FALSE]
            BY <4>3, NodeAssumption DEF ObjectSet
          <6> HIDE DEF o1, o2, o, F, P
          <6>2. u.obj = [s.obj EXCEPT ![h] = o1] /\ u.obj[h] = o1
            <7>1. u.obj = [s.obj EXCEPT ![h] = o1] /\ s.obj \in Objects
              BY <4>3, <4>4, <5>1, Zenon
            <7>2. [s.obj EXCEPT ![h] = o1][h] = o1
              BY <6>1, <7>1, SetIs
            <7> QED
              BY <7>1, <7>2, Zenon
          <6>3. [u.obj EXCEPT ![h].dirty = FALSE] = [u.obj EXCEPT ![h] = o2]
            BY <6>1, <6>2
          <6>4. [[s.obj EXCEPT ![h] = o1] EXCEPT ![h] = o2] = [s.obj EXCEPT ![h] = o2]
            BY <4>3 DEF Objects
          <6> QED
            BY <6>2, <6>3, <6>4, Zenon
        <5> QED
          BY <5>1, <5>3, <5>4
      <4>8. Placed(s.disk, s.obj, h) /\ o.at \in Chains \X Nat /\ o.at # <<>>
            /\ o.at[1] \in Chains /\ o.at[2] \in 1 .. Len(s.disk[o.at[1]]) /\ o.node # None
        <5>1. Placed(s.disk, s.obj, h)
          BY <1>3, <4>2, Zenon DEF Good, Current
        <5>2. /\ o.at \in Chains \X Nat /\ Entry(s.disk, o.at[1], o.at[2])
              /\ o.size > 0 => o.node # None
          BY <5>1, Zenon DEF Placed
        <5>3. o.size > 0 /\ o.at # <<>>
          BY <1>3, <4>3, <5>2
        <5> HIDE DEF o, f, l, F, P, D1, o1, o2, t, e, Q
        <5> QED
          BY <5>1, <5>2, <5>3 DEF Entry
      <4>9. ASSUME NEW g \in Object, g # h, s.obj[g].type # "closed"
            PROVE  /\ s.obj[g].at # o.at /\ s.obj[g].node # o.node
                   /\ s.obj[g].at # <<>> => s.obj[g].at[1] # o.node
        <5>1. Sharers(s, h) = {} /\ Inside(s, h) = {}
          BY <4>1
        <5>2. s.obj[g].at # <<>> => s.obj[g].at[1] # o.node
          BY <4>9, <5>1 DEF Inside, IsOpen
        <5> QED
          BY <4>8, <4>9, <5>1, <5>2, NoSharers, Zenon
      <4>10. o2 \in ObjectSet /\ o2.type = "file" /\ o2.at = o.at /\ o2.node = None /\ o2.size = 0
             /\ ~o2.dirty
        BY <4>3, <1>3, NodeAssumption DEF ObjectSet
      <4>11. D1[o.at[1]] = s.disk[o.at[1]]
        BY <4>3, <4>8 DEF Disks, Placed
      <4>12. /\ e \in SlotSet /\ e.node = None /\ e.size = 0
             /\ e.what = s.disk[o.at[1]][o.at[2]].what /\ e.name = s.disk[o.at[1]][o.at[2]].name
        <5>1. At(f, o.at) = s.disk[o.at[1]][o.at[2]]
          BY <4>4, <4>11 DEF At
        <5>2. s.disk[o.at[1]][o.at[2]] \in SlotSet
          BY <4>3, <4>8, CellIs
        <5> QED
          BY <5>1, <5>2, NodeAssumption DEF SlotSet
      <4> HIDE DEF e, o2, o1, D1, t, F, f, P, Q
      <4>13. Good([[s.disk EXCEPT ![s.obj[h].node] = <<>>] EXCEPT ![o2.at[1]][o2.at[2]] = e],
                  [s.obj EXCEPT ![h] = o2])
        <5>1. s.obj[h].type = "file" /\ s.obj[h].size > 0
          BY <1>3, <4>3
        <5>2. o2.at = s.obj[h].at
          BY <4>10
        <5>3. /\ e.what = s.disk[o2.at[1]][o2.at[2]].what
              /\ e.name = s.disk[o2.at[1]][o2.at[2]].name
          BY <4>12, <5>2, Zenon
        <5>4. \A g \in Object : g # h /\ s.obj[g].type # "closed" =>
                /\ s.obj[g].at # o2.at /\ s.obj[g].node # s.obj[h].node
                /\ s.obj[g].at # <<>> => s.obj[g].at[1] # s.obj[h].node
          BY <4>9, <5>2, Zenon
        <5> QED
          BY <4>2, <4>10, <4>12, <5>1, <5>2, <5>3, <5>4, FreedGood, Zenon
      <4>14. Good(t.disk, t.obj)
        BY <4>7, <4>10, <4>13, Zenon DEF D1
      <4>15. t.lost \in BOOLEAN /\ t.obj[h].type = "file"
        BY <4>3, <4>7, <4>10, SetIs
      <4>16. Fine(t)
        BY <4>7, <4>14, <4>15, Zenon DEF Fine
      <4>17. CASE r \in Yes(t)
        <5>1. r.s = t /\ r.ok = TRUE /\ Result(r)
          <6>1. Result(r)
            BY <4>16, <4>17, YesFine, Zenon DEF AllFine
          <6> QED
            BY <4>17, <6>1 DEF Yes
        <5>2. /\ Result(F(r)) /\ State(F(r).s) /\ F(r).s.lost = t.lost
              /\ F(r).s.obj = t.obj /\ F(r).s.disk = t.disk
          BY <3>1, <4>7, <4>15, <5>1
        <5>3. Fine(F(r).s)
          BY <4>14, <4>15, <5>2, Zenon DEF Fine
        <5> QED
          BY <4>15, <5>2, <5>3, Zenon
      <4>18. CASE r \in Fault(f) \cup Fault(t)
        <5>0. Fine(t) /\ State(f) /\ f.lost = FALSE
          BY <2>4, <3>3, <4>16
        <5>1. Result(r) /\ State(r.s) /\ r.s.lost \in BOOLEAN /\ r.ok = FALSE
          <6>1. CASE r \in Fault(t)
            <7>1. Result(r) /\ Fine(r.s) /\ ~r.ok
              BY <5>0, <6>1, FaultFine, Zenon DEF AllFine
            <7> QED
              BY <7>1 DEF Fine, Result
          <6>2. CASE r \in Fault(f)
            <7> DEFINE v == [f EXCEPT !.faults = @ + 1]
            <7>1. r = [s |-> v, ok |-> FALSE]
              BY <6>2 DEF Fault, No
            <7>2. State(v) /\ v.lost = FALSE
              BY <5>0 DEF State
            <7> HIDE DEF v
            <7> QED
              BY <7>1, <7>2 DEF Result
          <6> QED
            BY <4>18, <6>1, <6>2
        <5>2. Result(F(r)) /\ State(F(r).s) /\ F(r).s.lost = TRUE
          BY <3>1, <5>1
        <5> QED
          BY <5>2, LostFine, Zenon
      <4> QED
        BY <4>6, <4>17, <4>18, Zenon
    <3> QED
      BY <2>4, <3>2, <3>3
  <2> HIDE DEF F, f, l
  <2> QED
    BY <2>1, <2>3, <2>5, Zenon DEF AllFine
<1> QED
  BY <1>1, <1>2, <1>3

-----------------------------------------------------------------------------
LEMMA ClusterIs ==
  ASSUME NEW e \in {FreeSlot, Blank("data")}
  PROVE  /\ Cluster(e) \in Seq(SlotSet) /\ Len(Cluster(e)) = Slots /\ Cluster(e) # <<>>
         /\ \A k \in 1 .. Slots : Cluster(e)[k] = e
         /\ ~IsUsed(e) /\ e.what \notin {Dot, DotDot} /\ e \in SlotSet
<1>1. e \in SlotSet /\ ~IsUsed(e) /\ e.what \notin {Dot, DotDot}
  BY DEF FreeSlot, Blank, Slot, SlotSet, IsUsed, Dot, DotDot
<1>2. Cluster(e) \in [1 .. Slots -> SlotSet]
  BY <1>1 DEF Cluster
<1>3. Slots \in Nat /\ Slots >= 2
  BY SlotsAssumption
<1>4. Cluster(e) \in Seq(SlotSet) /\ Len(Cluster(e)) = Slots
  BY <1>2, <1>3, SeqDef, LenProperties
<1>5. Cluster(e) # <<>>
  BY <1>3, <1>4
<1> QED
  BY <1>1, <1>4, <1>5 DEF Cluster

\* What addDirCluster() makes of a state: the first cluster, another one
First(s, g, n, e) ==
  [s EXCEPT !.disk[n] = Cluster(e), !.obj[g].node = n, !.obj[g].dirty = TRUE]
Longer(s, g, e) ==
  [s EXCEPT !.disk[s.obj[g].node] = SubSeq(@, 1, s.obj[g].size) \o Cluster(e)]

\* An update under a name of its own, for the lemmas that conclude with one
Laid(f, x, y) == [f EXCEPT ![x] = y]
Noted(o, n) == [o EXCEPT !.node = n, !.dirty = TRUE]

LEMMA FirstIs ==
  ASSUME NEW s, NEW g \in Object, NEW n, NEW e, State(s)
  PROVE  /\ State(First(s, g, n, e)) /\ First(s, g, n, e).lost = s.lost
         /\ First(s, g, n, e).faults = s.faults
         /\ First(s, g, n, e).disk = Laid(s.disk, n, Cluster(e))
         /\ First(s, g, n, e).obj = Laid(s.obj, g, Noted(s.obj[g], n))
<1> DEFINE d == [s.disk EXCEPT ![n] = Cluster(e)]
           x == [s.obj EXCEPT ![g] = Noted(s.obj[g], n)]
           u == [s EXCEPT !.disk = d]
           t == [u EXCEPT !.obj = x]
<1>1. u.obj = s.obj
  BY DEF State
<1>2. First(s, g, n, e) = [u EXCEPT !.obj = [u.obj EXCEPT ![g].node = n, ![g].dirty = TRUE]]
  BY DEF First, State
<1>6. [s.obj EXCEPT ![g].node = n, ![g].dirty = TRUE] = x
  BY DEF Noted
<1>3. First(s, g, n, e) = t
  BY <1>1, <1>2, <1>6
<1> HIDE DEF d, x
<1>4. State(u) /\ u.disk = d /\ u.lost = s.lost /\ u.faults = s.faults
  BY DiskIs, Zenon
<1> HIDE DEF u
<1>5. State(t) /\ t.obj = x /\ t.disk = u.disk /\ t.lost = u.lost /\ t.faults = u.faults
  BY <1>4, ObjIs, Zenon
<1> HIDE DEF t
<1> QED
  BY <1>3, <1>4, <1>5 DEF d, x, Laid

LEMMA GrownIs ==
  ASSUME NEW s, NEW g \in Object, State(s)
  PROVE  LET t == Grown(s, g) IN
         /\ State(t) /\ t.lost = (s.lost \/ Sharers(s, g) # {}) /\ t.faults = s.faults
         /\ t.disk = s.disk /\ t.obj = [s.obj EXCEPT ![g].size = @ + Slots]
<1> DEFINE x == [s.obj EXCEPT ![g].size = @ + Slots]
           P == Sharers(s, g) # {}
           u == [s EXCEPT !.obj = x]
           t == [u EXCEPT !.lost = u.lost \/ P]
<1>1. Grown(s, g) = t
  BY DEF Grown, State
<1> HIDE DEF x, P
<1>2. State(u) /\ u.obj = x /\ u.lost = s.lost /\ u.disk = s.disk /\ u.faults = s.faults
  BY ObjIs, Zenon
<1> HIDE DEF u
<1>3. State(t) /\ t.obj = u.obj /\ t.disk = u.disk /\ t.lost = (u.lost \/ P) /\ t.faults = u.faults
  BY <1>2, LostIs, Zenon
<1> HIDE DEF t
<1> QED
  BY <1>1, <1>2, <1>3, Zenon DEF x, P

\* What a cluster that was added changes
Added(s, g, t) ==
  LET o == s.obj[g]
      n == t.obj[g].node
  IN /\ n \in Chains /\ n = (IF o.node = None THEN n ELSE o.node) /\ (o.node = None => n \in Node)
     /\ o.size \in Nat /\ Len(t.disk[n]) = o.size + Slots
     /\ \A k \in 1 .. o.size : t.disk[n][k] = s.disk[n][k]
     /\ \A k \in 1 .. Len(t.disk[n]) : k > o.size => t.disk[n][k] = FreeSlot
     /\ \A x \in Chains : x # n => t.disk[x] = s.disk[x]
     /\ t.obj[g] = [o EXCEPT !.node = n, !.size = @ + Slots,
                             !.dirty = IF o.node = None THEN TRUE ELSE @]
     /\ \A x \in Object : x # g => t.obj[x] = s.obj[x]

\* An object that is open, and was opened
Fit(o) == IsOpen(o) /\ o.type # "half"

LEMMA FirstFine ==
  ASSUME NEW s, NEW g \in Object, NEW n \in Unused(s), Fine(s), s.obj[g].node = None,
         ~s.lost => Fit(s.obj[g])
  PROVE  /\ Fine(First(s, g, n, Blank("data")))
         /\ Fine(Grown(First(s, g, n, FreeSlot), g))
         /\ LET t == Grown(First(s, g, n, FreeSlot), g) IN ~t.lost => ~s.lost /\ Added(s, g, t)
<1> DEFINE o == s.obj[g]
           o1 == Noted(o, n)
           o2 == [o EXCEPT !.node = n, !.dirty = TRUE, !.size = @ + Slots]
           d(e) == [s.disk EXCEPT ![n] = Cluster(e)]
           f(e) == First(s, g, n, e)
           t == Grown(f(FreeSlot), g)
           P == Sharers(f(FreeSlot), g) # {}
<1>1. State(s) /\ s.lost \in BOOLEAN
  BY Zenon DEF Fine
<1>2. \A e : State(f(e)) /\ f(e).lost = s.lost /\ f(e).disk = d(e)
             /\ f(e).obj = [s.obj EXCEPT ![g] = o1]
  <2>1. ASSUME NEW x
        PROVE  /\ State(First(s, g, n, x)) /\ First(s, g, n, x).lost = s.lost
               /\ First(s, g, n, x).disk = Laid(s.disk, n, Cluster(x))
               /\ First(s, g, n, x).obj = Laid(s.obj, g, Noted(s.obj[g], n))
    BY <1>1, FirstIs
  <2> QED
    BY <2>1 DEF Laid
<1>3. /\ State(t) /\ t.lost = (s.lost \/ P) /\ t.disk = d(FreeSlot)
      /\ t.obj = [f(FreeSlot).obj EXCEPT ![g].size = @ + Slots]
  <2> HIDE DEF f
  <2> QED
    BY <1>2, GrownIs
<1>4. n \in Node /\ n \in Chains /\ s.disk[n] = <<>> /\ \A x \in Object : s.obj[x].node # n
  BY DEF Unused, Chains
<1>5. ASSUME ~s.lost
      PROVE  /\ \A e \in {FreeSlot, Blank("data")} : Good(d(e), [s.obj EXCEPT ![g] = o1])
             /\ t.obj = [s.obj EXCEPT ![g] = o2] /\ Good(d(FreeSlot), t.obj)
             /\ Added(s, g, t)
  <2> HIDE DEF f, t, P
  <2>1. Good(s.disk, s.obj)
    BY <1>5, Zenon DEF Fine
  <2>2. s.disk \in Disks /\ s.obj \in Objects /\ Current(s.disk, s.obj, g)
    BY <2>1, Zenon DEF Good
  <2>3. o \in ObjectSet /\ o.size \in Nat
    BY <2>2, ObjectIs
  <2>4. o.type \in {"file", "dir"}
    <3>1. o.type # "closed" /\ o.type # "half"
      BY <1>5 DEF Fit, IsOpen
    <3> QED
      BY <2>2, <2>3, <3>1, NodeAssumption DEF Current, IsRoot, ObjectSet
  <2>5. o.size = 0
    <3>1. Placed(s.disk, s.obj, g)
      BY <2>2, <2>4, Zenon DEF Current
    <3>2. o.size > 0 => o.node # None
      BY <3>1, Zenon DEF Placed
    <3> QED
      BY <2>3, <3>2
  <2>6. /\ o1 \in ObjectSet /\ o1.type = o.type /\ o1.at = o.at /\ o1.node = n /\ o1.dirty
        /\ o1.size = 0
    BY <1>4, <2>3, <2>5 DEF ObjectSet, Noted
  <2>7. /\ o2 \in ObjectSet /\ o2.type = o.type /\ o2.at = o.at /\ o2.node = n /\ o2.dirty
        /\ o2.size = Slots
    <3>1. o.size + Slots = Slots /\ Slots \in Nat
      BY <2>5, SlotsAssumption
    <3>2. o2 = [o EXCEPT !.node = n, !.dirty = TRUE, !.size = Slots]
      BY <3>1
    <3> HIDE DEF o2
    <3> QED
      BY <1>4, <2>3, <3>1, <3>2 DEF ObjectSet
  <2>8. o2 = [o1 EXCEPT !.size = @ + Slots]
    BY <2>3 DEF ObjectSet, Noted
  <2>9. o2 = [o EXCEPT !.node = n, !.size = @ + Slots, !.dirty = IF o.node = None THEN TRUE ELSE @]
    BY <2>3 DEF ObjectSet
  <2>10. ASSUME NEW e \in {FreeSlot, Blank("data")}, NEW p \in {o1, o2}
         PROVE  Good(d(e), [s.obj EXCEPT ![g] = p])
    <3>1. /\ p \in ObjectSet /\ p.type = s.obj[g].type /\ p.at = s.obj[g].at /\ p.node = n /\ p.dirty
          /\ p.size \in {0, Slots}
      BY <2>6, <2>7
    <3> HIDE DEF o1, o2
    <3>2. /\ Cluster(e) \in Seq(SlotSet) /\ Len(Cluster(e)) = Slots /\ Len(Cluster(e)) >= 2
          /\ \A k \in 1 .. Len(Cluster(e)) : ~IsUsed(Cluster(e)[k]) /\ Cluster(e)[k].what # Dot
      BY ClusterIs, SlotsAssumption
    <3>3. p.size \in {0, Len(Cluster(e))} /\ s.obj[g].type \in {"file", "dir"}
      BY <2>4, <3>1, <3>2
    <3> QED
      BY <1>4, <2>1, <3>1, <3>2, <3>3, FirstGood, Zenon
  <2>11. t.obj = [s.obj EXCEPT ![g] = o2]
    <3> HIDE DEF o1, o2
    <3>1. [s.obj EXCEPT ![g] = o1][g] = o1 /\ [s.obj EXCEPT ![g] = o1] \in Objects
      BY <2>2, <2>6, SetIs
    <3>2. t.obj = [[s.obj EXCEPT ![g] = o1] EXCEPT ![g] = o2]
      BY <1>2, <1>3, <2>8, <3>1
    <3> QED
      BY <2>2, <3>2 DEF Objects
  <2>12. Added(s, g, t)
    <3>1. t.obj[g] = o2 /\ \A x \in Object : x # g => t.obj[x] = s.obj[x]
      <4>1. o2 \in ObjectSet
        BY <2>7
      <4> HIDE DEF o2
      <4> QED
        BY <2>2, <2>11, <4>1, SetIs
    <3>2. t.disk[n] = Cluster(FreeSlot) /\ \A x \in Chains : x # n => t.disk[x] = s.disk[x]
      BY <1>3, <1>4, <2>2 DEF Disks
    <3>3. Len(t.disk[n]) = 0 + Slots /\ \A k \in 1 .. Len(t.disk[n]) : t.disk[n][k] = FreeSlot
      BY <3>2, ClusterIs, SlotsAssumption
    <3>4. t.obj[g].node = n
      BY <2>7, <3>1
    <3> HIDE DEF o1, o2, d
    <3>5. \A k \in 1 .. o.size : t.disk[n][k] = s.disk[n][k]
      BY <2>5
    <3>6. t.obj[g] = [o EXCEPT !.node = n, !.size = @ + Slots,
                               !.dirty = IF o.node = None THEN TRUE ELSE @]
      BY <2>9, <3>1, Zenon
    <3> QED
      BY <1>4, <2>3, <2>5, <3>1, <3>2, <3>3, <3>4, <3>5, <3>6, Zenon DEF Added
  <2> QED
    BY <2>10, <2>11, <2>12
<1> HIDE DEF t, P, d, f, o1, o2
<1>6. Fine(t) /\ (~t.lost => ~s.lost /\ Added(s, g, t))
  <2>1. Fine(t)
    BY <1>3, <1>5, FineBy, Zenon
  <2> QED
    BY <1>3, <1>5, <2>1
<1>7. Fine(f(Blank("data")))
  <2>1. f(Blank("data")).lost = s.lost
    BY <1>2
  <2> QED
    BY <1>1, <1>2, <1>5, <2>1, Zenon DEF Fine
<1> QED
  BY <1>6, <1>7 DEF t, f

LEMMA LongerIs ==
  ASSUME NEW s, NEW g \in Object, NEW e, State(s)
  PROVE  /\ State(Longer(s, g, e)) /\ Longer(s, g, e).lost = s.lost
         /\ Longer(s, g, e).faults = s.faults /\ Longer(s, g, e).obj = s.obj
         /\ Longer(s, g, e).disk =
              Laid(s.disk, s.obj[g].node,
                   SubSeq(s.disk[s.obj[g].node], 1, s.obj[g].size) \o Cluster(e))
<1> DEFINE d == Laid(s.disk, s.obj[g].node,
                     SubSeq(s.disk[s.obj[g].node], 1, s.obj[g].size) \o Cluster(e))
           u == [s EXCEPT !.disk = d]
<1>1. Longer(s, g, e) = u
  BY DEF Longer, Laid
<1> HIDE DEF d
<1>2. State(u) /\ u.disk = d /\ u.lost = s.lost /\ u.faults = s.faults /\ u.obj = s.obj
  BY DiskIs, Zenon
<1> HIDE DEF u
<1> QED
  BY <1>1, <1>2 DEF d

LEMMA LongerFine ==
  ASSUME NEW s, NEW g \in Object, Fine(s), s.obj[g].node # None, s.obj[g].size # 0,
         ~s.lost => IsDir(s.obj[g])
  PROVE  /\ Fine([Longer(s, g, Blank("data")) EXCEPT !.lost = TRUE])
         /\ Fine(Grown(Longer(s, g, FreeSlot), g))
         /\ LET t == Grown(Longer(s, g, FreeSlot), g) IN ~t.lost => ~s.lost /\ Added(s, g, t)
<1> DEFINE o == s.obj[g]
           m == o.node
           o2 == [o EXCEPT !.size = @ + Slots]
           c == SubSeq(s.disk[m], 1, o.size) \o Cluster(FreeSlot)
           f(e) == Longer(s, g, e)
           t == Grown(f(FreeSlot), g)
           P == Sharers(f(FreeSlot), g) # {}
<1>1. State(s) /\ s.lost \in BOOLEAN
  BY Zenon DEF Fine
<1>2. ASSUME NEW x
      PROVE  /\ State(Longer(s, g, x)) /\ Longer(s, g, x).lost = s.lost
             /\ Longer(s, g, x).obj = s.obj
  BY <1>1, LongerIs
<1>3. f(FreeSlot).disk = [s.disk EXCEPT ![m] = c]
  <2>1. f(FreeSlot).disk = Laid(s.disk, m, c)
    BY <1>1, LongerIs
  <2> QED
    BY <2>1 DEF Laid
<1>4. Fine([f(Blank("data")) EXCEPT !.lost = TRUE])
  <2> DEFINE u == f(Blank("data"))
             v == [u EXCEPT !.lost = TRUE]
  <2>1. State(u)
    BY <1>2
  <2> HIDE DEF u
  <2>2. State(v) /\ v.lost = TRUE
    BY <2>1, LostIs, Zenon
  <2> HIDE DEF v
  <2>3. Fine(v)
    BY <2>2, LostFine, Zenon
  <2> QED
    BY <2>3 DEF v, u
<1>5. /\ State(t) /\ t.lost = (s.lost \/ P) /\ t.disk = [s.disk EXCEPT ![m] = c]
      /\ t.obj = [s.obj EXCEPT ![g].size = @ + Slots]
  <2>1. State(f(FreeSlot)) /\ f(FreeSlot).lost = s.lost /\ f(FreeSlot).obj = s.obj
    BY <1>2
  <2> HIDE DEF f, c, m
  <2> QED
    BY <1>3, <2>1, GrownIs
<1>6. [s.obj EXCEPT ![g].size = @ + Slots] = [s.obj EXCEPT ![g] = o2]
  OBVIOUS
<1>7. ASSUME ~s.lost, ~P
      PROVE  Good([s.disk EXCEPT ![m] = c], [s.obj EXCEPT ![g] = o2]) /\ Added(s, g, t)
  <2>1. Good(s.disk, s.obj)
    BY <1>7, Zenon DEF Fine
  <2>2. s.disk \in Disks /\ s.obj \in Objects /\ Current(s.disk, s.obj, g)
    BY <2>1, Zenon DEF Good
  <2>3. o \in ObjectSet /\ o.size \in Nat /\ o.size > 0
    BY <2>2, ObjectIs
  <2>4. IsDir(o) /\ o.size = Len(s.disk[m])
    BY <1>7, <2>2, <2>3 DEF Current
  <2>5. m \in Chains
    BY <2>2, ObjectIs DEF Chains
  <2>6. s.disk[m] \in Seq(SlotSet) /\ Len(s.disk[m]) = o.size
    BY <2>2, <2>4, <2>5, CellIs
  <2>7. /\ c \in Seq(SlotSet) /\ Len(c) = o.size + Slots
        /\ \A k \in 1 .. o.size : c[k] = s.disk[m][k]
        /\ \A k \in 1 .. Len(c) : k > o.size => c[k] = FreeSlot
    <3> DEFINE a == SubSeq(s.disk[m], 1, o.size)
               b == Cluster(FreeSlot)
    <3>1. a \in Seq(SlotSet) /\ Len(a) = o.size /\ \A k \in 1 .. o.size : a[k] = s.disk[m][k]
      <4> DEFINE q == s.disk[m]
                 z == o.size
      <4>1. q \in Seq(SlotSet) /\ Len(q) = z /\ z \in Nat /\ z > 0
        BY <2>3, <2>6
      <4> HIDE DEF q, z
      <4>2. /\ SubSeq(q, 1, z) \in Seq(SlotSet) /\ Len(SubSeq(q, 1, z)) = z
            /\ \A k \in 1 .. z : SubSeq(q, 1, z)[k] = q[k]
        BY <4>1
      <4> QED
        BY <4>2 DEF q, z
    <3>2. /\ b \in Seq(SlotSet) /\ Len(b) = Slots /\ Slots \in Nat
          /\ \A k \in 1 .. Slots : b[k] = FreeSlot
      BY ClusterIs, SlotsAssumption
    <3> HIDE DEF a, b
    <3>3. /\ a \o b \in Seq(SlotSet) /\ Len(a \o b) = o.size + Slots
          /\ \A k \in 1 .. o.size : (a \o b)[k] = a[k]
          /\ \A k \in 1 .. Len(a \o b) : k > o.size => (a \o b)[k] = b[k - o.size]
      <4> DEFINE z == o.size
      <4>1. /\ a \in Seq(SlotSet) /\ b \in Seq(SlotSet) /\ Len(a) = z /\ Len(b) = Slots
            /\ z \in Nat /\ Slots \in Nat
        BY <2>3, <3>1, <3>2
      <4> HIDE DEF z
      <4>2. /\ a \o b \in Seq(SlotSet) /\ Len(a \o b) = Len(a) + Len(b)
            /\ \A k \in 1 .. Len(a) + Len(b) :
                 (a \o b)[k] = IF k <= Len(a) THEN a[k] ELSE b[k - Len(a)]
        BY <4>1, ConcatProperties
      <4>3. /\ \A k \in 1 .. z : (a \o b)[k] = a[k]
            /\ \A k \in 1 .. Len(a \o b) : k > z => (a \o b)[k] = b[k - z]
        BY <4>1, <4>2
      <4> QED
        BY <4>1, <4>2, <4>3 DEF z
    <3>4. \A k \in 1 .. Len(a \o b) : k > o.size => k - o.size \in 1 .. Slots
      BY <2>3, <3>2, <3>3
    <3> QED
      BY <3>1, <3>2, <3>3, <3>4 DEF a, b
  <2> HIDE DEF c
  <2>8. /\ o2 \in ObjectSet /\ o2.type = o.type /\ o2.at = o.at /\ o2.node = m
        /\ o2.dirty = o.dirty /\ o2.size = o.size + Slots
    <3>1. o.size + Slots \in Nat
      BY <2>3, SlotsAssumption
    <3> QED
      BY <2>3, <3>1 DEF ObjectSet
  <2> HIDE DEF o2
  <2>9. ASSUME NEW x \in Object, x # g, s.obj[x].type # "closed" PROVE s.obj[x].node # m
    <3>1. Sharers(s, g) = {}
      BY <1>2, <1>7 DEF Sharers
    <3> QED
      BY <2>9, <3>1, NoSharers, Zenon
  <2>10. Good([s.disk EXCEPT ![m] = c], [s.obj EXCEPT ![g] = o2])
    <3>1. /\ Len(c) >= Len(s.disk[m]) /\ o2.size = Len(c)
          /\ \A k \in 1 .. Len(s.disk[m]) : c[k] = s.disk[m][k]
      BY <2>3, <2>6, <2>7, <2>8, SlotsAssumption
    <3>2. \A k \in 1 .. Len(c) : k > Len(s.disk[m]) => ~IsUsed(c[k])
      BY <2>6, <2>7, ClusterIs
    <3>3. /\ o2.type = s.obj[g].type /\ o2.at = s.obj[g].at /\ o2.node = m
          /\ o2.dirty = s.obj[g].dirty /\ IsDir(s.obj[g]) /\ s.obj[g].node = m /\ s.obj[g].size > 0
      BY <2>3, <2>4, <2>8
    <3> HIDE DEF m, o
    <3> QED
      BY <2>1, <2>5, <2>7, <2>8, <2>9, <3>1, <3>2, <3>3, LongerGood, Zenon
  <2>11. Added(s, g, t)
    <3>1. t.obj[g] = o2 /\ \A x \in Object : x # g => t.obj[x] = s.obj[x]
      BY <1>5, <1>6, <2>2, <2>8, SetIs
    <3>2. t.disk[m] = c /\ \A x \in Chains : x # m => t.disk[x] = s.disk[x]
      BY <1>5, <2>2, <2>5 DEF Disks
    <3>3. t.obj[g].node = m
      BY <2>8, <3>1
    <3>4. o2 = [o EXCEPT !.node = m, !.size = @ + Slots, !.dirty = IF o.node = None THEN TRUE ELSE @]
      BY <2>3 DEF ObjectSet, o2
    <3> HIDE DEF m, t
    <3>5. m = (IF o.node = None THEN m ELSE o.node) /\ (o.node = None => m \in Node)
      BY DEF m
    <3> QED
      BY <2>3, <2>5, <2>7, <3>1, <3>2, <3>3, <3>4, <3>5 DEF Added
  <2> QED
    BY <2>10, <2>11
<1> HIDE DEF t, P, f, o2, c, m
<1>8. Fine(t)
  BY <1>1, <1>5, <1>6, <1>7, FineBy, Zenon
<1>9. ~t.lost => ~s.lost /\ Added(s, g, t)
  BY <1>5, <1>7
<1> QED
  BY <1>4, <1>8, <1>9 DEF t, f

\* addDirCluster()
LEMMA AddFine ==
  ASSUME NEW s, NEW g \in Object, Fine(s),
         ~s.lost => Fit(s.obj[g]) /\ (IsDir(s.obj[g]) \/ s.obj[g].size = 0)
  PROVE  /\ AllFine(AddDirCluster(s, g))
         /\ \A r \in AddDirCluster(s, g) : r.ok /\ ~r.s.lost => ~s.lost /\ Added(s, g, r.s)
<1> DEFINE o == s.obj[g]
           Post(R) == \A r \in R : r.ok /\ ~r.s.lost => ~s.lost /\ Added(s, g, r.s)
           l == [s EXCEPT !.lost = TRUE]
           x(n) == First(s, g, n, Blank("data"))
           y(n) == Grown(First(s, g, n, FreeSlot), g)
           v == [Longer(s, g, Blank("data")) EXCEPT !.lost = TRUE]
           w == Grown(Longer(s, g, FreeSlot), g)
<1>1. ASSUME NEW t, Fine(t)
      PROVE  /\ AllFine(No(t)) /\ Post(No(t)) /\ AllFine(Fault(t)) /\ Post(Fault(t))
             /\ AllFine(Yes(t)) /\ ((~t.lost => ~s.lost /\ Added(s, g, t)) => Post(Yes(t)))
  <2>1. AllFine(No(t)) /\ AllFine(Fault(t)) /\ AllFine(Yes(t)) /\ \A r \in Fault(t) : ~r.ok
    BY <1>1, NoFine, FaultFine, YesFine, Zenon
  <2>2. \A r \in No(t) : ~r.ok
    BY DEF No
  <2>3. \A r \in Yes(t) : r.s = t
    BY DEF Yes
  <2> QED
    BY <2>1, <2>2, <2>3, Zenon
<1>2. State(s) /\ Fine(l)
  <2>1. State(s)
    BY Zenon DEF Fine
  <2>2. State(l) /\ l.lost = TRUE
    BY <2>1, LostIs, Zenon
  <2> HIDE DEF l
  <2> QED
    BY <2>1, <2>2, LostFine, Zenon
<1>3. AllFine(Fault(s)) /\ Post(Fault(s)) /\ AllFine(No(s)) /\ Post(No(s)) /\ AllFine(No(l)) /\ Post(No(l))
      /\ AllFine(Fault(l)) /\ Post(Fault(l))
  <2> HIDE DEF Post, l
  <2> QED
    BY <1>1, <1>2, Zenon
<1>4. CASE ~Room(s)
  <2>1. AddDirCluster(s, g) = No(s)
    BY <1>4 DEF AddDirCluster
  <2> QED
    BY <1>3, <2>1
<1>5. CASE Room(s) /\ o.size = 0 /\ o.node # None
  <2>1. AddDirCluster(s, g) = Fault(l) \cup No(l)
    BY <1>5 DEF AddDirCluster, Access
  <2> HIDE DEF l
  <2> QED
    BY <1>3, <2>1, BothFine, Zenon
<1>6. CASE Room(s) /\ o.node = None
  <2>1. AddDirCluster(s, g) = Fault(s) \cup UNION {Fault(x(n)) \cup Yes(y(n)) : n \in Unused(s)}
    <3>1. AddDirCluster(s, g) =
            Fault(s) \cup UNION {Fault(x(n)) \cup Yes(Grown([s EXCEPT !.disk[n] = Cluster(FreeSlot),
                                      !.obj[g].node = n, !.obj[g].dirty = TRUE], g)) : n \in Unused(s)}
      BY <1>6 DEF AddDirCluster, Access, First
    <3> HIDE DEF x
    <3> QED
      BY <3>1 DEF First
  <2>2. ASSUME NEW n \in Unused(s)
        PROVE  AllFine(Fault(x(n))) /\ Post(Fault(x(n))) /\ AllFine(Yes(y(n))) /\ Post(Yes(y(n)))
    <3>1. Fine(x(n)) /\ Fine(y(n)) /\ (~y(n).lost => ~s.lost /\ Added(s, g, y(n)))
      BY <1>6, FirstFine
    <3> HIDE DEF x, y, Post
    <3> QED
      BY <1>1, <3>1, Zenon
  <2> HIDE DEF x, y
  <2> SUFFICES ASSUME NEW r \in AddDirCluster(s, g)
               PROVE  Result(r) /\ Fine(r.s) /\ (r.ok /\ ~r.s.lost => ~s.lost /\ Added(s, g, r.s))
    BY Zenon DEF AllFine
  <2>3. CASE r \in Fault(s)
    BY <1>3, <2>3, Zenon DEF AllFine
  <2>4. CASE r \notin Fault(s)
    <3>1. PICK n \in Unused(s) : r \in Fault(x(n)) \cup Yes(y(n))
      BY <2>1, <2>4
    <3> QED
      BY <2>2, <3>1, Zenon DEF AllFine
  <2> QED
    BY <2>3, <2>4
<1>7. CASE Room(s) /\ o.size # 0 /\ o.node # None
  <2>1. AddDirCluster(s, g) = Fault(s) \cup (Fault(v) \cup Yes(w))
    BY <1>7 DEF AddDirCluster, Access, Longer
  <2>2. Fine(v) /\ Fine(w) /\ (~w.lost => ~s.lost /\ Added(s, g, w))
    BY <1>7, LongerFine
  <2> HIDE DEF v, w
  <2>3. AllFine(Fault(v)) /\ Post(Fault(v)) /\ AllFine(Yes(w)) /\ Post(Yes(w))
    <3> HIDE DEF Post
    <3> QED
      BY <1>1, <2>2, Zenon
  <2> QED
    BY <1>3, <2>1, <2>3, BothFine, Zenon
<1> QED
  BY <1>4, <1>5, <1>6, <1>7

-----------------------------------------------------------------------------
\* What openCachedEntry() makes of a state
CachedAs(s, at, flags) ==
  [type |-> At(s, at).what, node |-> At(s, at).node, at |-> at,
   size |-> IF At(s, at).what = "dir" THEN Len(s.disk[At(s, at).node]) ELSE At(s, at).size,
   write |-> "write" \in flags, dirty |-> FALSE]
Cached(s, h, at, flags) == [s EXCEPT !.obj[h] = CachedAs(s, at, flags)]

LEMMA CachedFine ==
  ASSUME NEW s, NEW h \in Object, NEW d, NEW i, NEW flags, Fine(s),
         ~s.lost => s.obj[h] = Closed /\ d \in Chains /\ i \in 1 .. Len(s.disk[d]),
         IsUsed(s.disk[d][i]), s.disk[d][i].what = "dir" => s.disk[d][i].node # None
  PROVE  LET t == Cached(s, h, <<d, i>>, flags) IN
         /\ Fine(t) /\ t.disk = s.disk /\ t.lost = s.lost
         /\ t.obj = [s.obj EXCEPT ![h] = CachedAs(s, <<d, i>>, flags)]
<1> DEFINE o == CachedAs(s, <<d, i>>, flags)
           e == s.disk[d][i]
           x == [s.obj EXCEPT ![h] = o]
           t == [s EXCEPT !.obj = x]
<1>1. Cached(s, h, <<d, i>>, flags) = t
  BY DEF Cached
<1>2. State(s) /\ s.lost \in BOOLEAN
  BY Zenon DEF Fine
<1>3. o = [type |-> e.what, node |-> e.node, at |-> <<d, i>>,
           size |-> IF e.what = "dir" THEN Len(s.disk[e.node]) ELSE e.size,
           write |-> "write" \in flags, dirty |-> FALSE]
  BY DEF CachedAs, At
<1> HIDE DEF o, x
<1>4. State(t) /\ t.obj = x /\ t.disk = s.disk /\ t.lost = s.lost
  BY <1>2, ObjIs, Zenon
<1> HIDE DEF t
<1>5. ASSUME ~s.lost PROVE Good(s.disk, x)
  <2>1. Good(s.disk, s.obj) /\ s.obj[h] = Closed
    BY <1>5, Zenon DEF Fine
  <2>2. Entry(s.disk, d, i) /\ d \in Chains /\ i \in Nat /\ s.disk \in Disks
    <3>1. d \in Chains /\ i \in 1 .. Len(s.disk[d]) /\ s.disk \in Disks
      BY <1>5, <2>1 DEF Good
    <3>2. Len(s.disk[d]) \in Nat
      BY <3>1, CellIs
    <3> QED
      BY <3>1, <3>2 DEF Entry
  <2>3. /\ e \in SlotSet /\ e.node \in Node \cup {None} /\ e.size \in Nat
        /\ e.node # None => Len(s.disk[e.node]) > 0
    BY <2>1, <2>2, EntryIs
  <2>4. e.what \in {"file", "dir"}
    BY DEF IsUsed
  <2> DEFINE z == IF e.what = "dir" THEN Len(s.disk[e.node]) ELSE e.size
  <2>5. z \in Nat
    <3>1. e.what = "dir" => e.node \in Chains
      BY <2>3 DEF Chains
    <3> QED
      BY <2>2, <2>3, <3>1, CellIs
  <2> HIDE DEF z
  <2>6. o \in ObjectSet
    <3>1. <<d, i>> \in {<<>>} \cup (Chains \X Nat)
      BY <2>2
    <3>2. o = [type |-> e.what, node |-> e.node, at |-> <<d, i>>, size |-> z,
               write |-> "write" \in flags, dirty |-> FALSE]
      BY <1>3 DEF z
    <3>3. ("write" \in flags) \in BOOLEAN
      OBVIOUS
    <3> HIDE DEF e
    <3> QED
      BY <2>3, <2>4, <2>5, <3>1, <3>2, <3>3 DEF ObjectSet
  <2>7. /\ o.type = s.disk[d][i].what /\ o.node = s.disk[d][i].node /\ o.at = <<d, i>> /\ ~o.dirty
        /\ o.type = "dir" => o.node # None
        /\ o.size = IF o.type = "dir" THEN Len(s.disk[o.node]) ELSE s.disk[d][i].size
    BY <1>3
  <2>8. o.node # Root
    BY <2>3, <2>7, NodeAssumption
  <2> QED
    BY <2>1, <2>2, <2>6, <2>7, <2>8, OpenedGood, Zenon DEF x
<1>6. Fine(t)
  BY <1>2, <1>4, <1>5, Zenon DEF Fine
<1> QED
  BY <1>1, <1>4, <1>6 DEF x, o

\* openCachedEntry()
LEMMA CachedEntryFine ==
  ASSUME NEW s, NEW h \in Object, NEW d, NEW i, NEW flags, Fine(s),
         ~s.lost => s.obj[h] = Closed /\ d \in Chains /\ i \in 1 .. Len(s.disk[d])
  PROVE  /\ AllFine(OpenCachedEntry(s, h, <<d, i>>, flags))
         /\ "trunc" \notin flags =>
              \A r \in OpenCachedEntry(s, h, <<d, i>>, flags) : r.ok /\ ~r.s.lost =>
                /\ ~s.lost /\ IsUsed(s.disk[d][i]) /\ r.s.disk = s.disk
                /\ r.s.obj = Laid(s.obj, h, CachedAs(s, <<d, i>>, flags))
<1> DEFINE e == s.disk[d][i]
           t == Cached(s, h, <<d, i>>, flags)
           l == [s EXCEPT !.lost = TRUE]
           C == OpenCachedEntry(s, h, <<d, i>>, flags)
           o == CachedAs(s, <<d, i>>, flags)
           Post(q) == ~s.lost /\ IsUsed(e) /\ q.disk = s.disk /\ q.obj = Laid(s.obj, h, o)
<1>1. At(s, <<d, i>>) = e
  BY DEF At
<1>2. CASE ~IsUsed(e) \/ (e.what = "dir" /\ flags \cap {"write", "trunc"} # {})
  <2>1. C = No(s)
    BY <1>1, <1>2 DEF OpenCachedEntry
  <2>2. \A r \in No(s) : ~r.ok
    BY DEF No
  <2> HIDE DEF C
  <2> QED
    BY <2>1, <2>2, NoFine, Zenon DEF C
<1>3. CASE IsUsed(e) /\ e.what = "dir" /\ ~(flags \cap {"write", "trunc"} # {}) /\ e.node = None
  <2>1. C = No(l)
    BY <1>1, <1>3 DEF OpenCachedEntry
  <2>2. \A r \in No(l) : ~r.ok
    BY DEF No
  <2>3. Fine(l)
    <3>1. State(s)
      BY Zenon DEF Fine
    <3>2. State(l) /\ l.lost = TRUE
      BY <3>1, LostIs, Zenon
    <3> HIDE DEF l
    <3> QED
      BY <3>2, LostFine, Zenon
  <2> HIDE DEF C, l
  <2> QED
    BY <2>1, <2>2, <2>3, NoFine, Zenon DEF C
<1>4. ASSUME IsUsed(e), e.what = "dir" => e.node # None
      PROVE  /\ Fine(t) /\ t.disk = s.disk /\ t.lost = s.lost
             /\ t.obj = Laid(s.obj, h, o)
  <2>1. /\ Fine(Cached(s, h, <<d, i>>, flags)) /\ Cached(s, h, <<d, i>>, flags).disk = s.disk
        /\ Cached(s, h, <<d, i>>, flags).lost = s.lost
        /\ Cached(s, h, <<d, i>>, flags).obj = Laid(s.obj, h, CachedAs(s, <<d, i>>, flags))
    BY <1>4, CachedFine DEF Laid
  <2> HIDE DEF t, o
  <2> QED
    BY <2>1, Zenon DEF t, o
<1>5. ASSUME IsUsed(e), e.what = "dir" => e.node # None, NEW r \in Yes(t)
      PROVE  Result(r) /\ Fine(r.s) /\ (r.ok /\ ~r.s.lost => Post(r.s))
  <2> HIDE DEF t, o
  <2>1. r.s = t
    BY <1>5 DEF Yes
  <2>2. AllFine(Yes(t))
    BY <1>4, <1>5, YesFine, Zenon
  <2> QED
    BY <1>4, <1>5, <2>1, <2>2, Zenon DEF AllFine
<1>6. CASE IsUsed(e) /\ e.what = "dir" /\ ~(flags \cap {"write", "trunc"} # {}) /\ e.node # None
  <2>1. C = Fault(s) \cup Yes(t)
    BY <1>1, <1>6 DEF OpenCachedEntry, Access, Cached, CachedAs
  <2>2. AllFine(Fault(s)) /\ \A r \in Fault(s) : ~r.ok
    BY FaultFine, Zenon
  <2> HIDE DEF C, t, o, Post
  <2>3. AllFine(C) /\ \A r \in C : r.ok /\ ~r.s.lost => Post(r.s)
    BY <1>5, <1>6, <2>1, <2>2, Zenon DEF AllFine
  <2> QED
    BY <2>3, Zenon DEF C, Post, o
<1>7. CASE IsUsed(e) /\ e.what # "dir" /\ "trunc" \in flags
  <2>1. C = TruncateAll(t, h)
    BY <1>1, <1>7 DEF OpenCachedEntry, Cached, CachedAs
  <2>2. Fine(t)
    BY <1>4, <1>7
  <2> HIDE DEF C, t
  <2>3. AllFine(C)
    BY <2>1, <2>2, TruncateFine, Zenon
  <2> QED
    BY <1>7, <2>3, Zenon DEF C
<1>8. CASE IsUsed(e) /\ e.what # "dir" /\ "trunc" \notin flags
  <2>1. C = Yes(t)
    BY <1>1, <1>8 DEF OpenCachedEntry, Cached, CachedAs
  <2> HIDE DEF C, t, o, Post
  <2>3. AllFine(C) /\ \A r \in C : r.ok /\ ~r.s.lost => Post(r.s)
    BY <1>5, <1>8, <2>1, Zenon DEF AllFine
  <2> QED
    BY <2>3, Zenon DEF C, Post, o
<1> QED
  BY <1>2, <1>3, <1>6, <1>7, <1>8

-----------------------------------------------------------------------------
\* A set of numbers has a least one.
LEMMA MinIs ==
  ASSUME NEW S \in SUBSET Nat, S # {}
  PROVE  Min(S) \in S /\ \A x \in S : Min(S) <= x
<1>1. PICK n \in S : TRUE
  OBVIOUS
<1> DEFINE All == 0 .. n
           T == {0 .. x : x \in S \cap All}
           R == StrictSubsetOrdering(All)
<1>2. IsWellFoundedOn(R, SUBSET All)
  <2>1. n \in Nat
    OBVIOUS
  <2>2. IsFiniteSet(All)
    BY <2>1, FS_Interval
  <2> HIDE DEF All
  <2> QED
    BY <2>2, FS_StrictSubsetOrderingWellFounded, FS_FiniteSubsetsOfFinite
<1>3. T \subseteq SUBSET All /\ T # {}
  <2>1. n \in S \cap All
    OBVIOUS
  <2> QED
    BY <2>1
<1> HIDE DEF R, T
<1>4. PICK u \in T : \A v \in T : ~ (<<v, u>> \in R)
  BY <1>2, <1>3, WFMin, Zenon
<1>5. PICK x \in S \cap All : u = 0 .. x
  BY <1>4 DEF T
<1>6. \A y \in S : x <= y
  <2> SUFFICES ASSUME NEW y \in S, y < x PROVE FALSE
    OBVIOUS
  <2>1. x \in Nat /\ y \in Nat /\ n \in Nat /\ x <= n
    OBVIOUS
  <2>2. 0 .. y \in T /\ 0 .. y \in SUBSET All /\ u \in SUBSET All
    BY <2>1, <1>5 DEF T
  <2>3. 0 .. y \subseteq u /\ x \in u /\ x \notin 0 .. y
    BY <1>5, <2>1
  <2>4. <<0 .. y, u>> \in R
    BY <2>2, <2>3 DEF R, StrictSubsetOrdering
  <2> QED
    BY <1>4, <2>2, <2>4
<1> QED
  BY <1>6 DEF Min

\* What the scan of open() says of the slots d of a directory, in its answer r.
Says(d, r, name) ==
  /\ r.found # 0 => r.found \in 1 .. Len(d)
  /\ r.found = 0 => \A j \in 1 .. Len(d) : IsUsed(d[j]) => d[j].name # name
  /\ r.empty # 0 => /\ r.empty \in 1 .. Len(d) /\ d[r.empty].what \in {"free", "deleted"}
                    /\ \A j \in 1 .. r.empty - 1 : d[j].what # "free"
  /\ r.empty = 0 => \A j \in 1 .. Len(d) : d[j].what # "free"

LEMMA ScanIs ==
  ASSUME NEW s, NEW g \in Object, NEW name, Good(s.disk, s.obj),
         IsDir(s.obj[g]), s.obj[g].size > 0
  PROVE  /\ s.obj[g].node \in Chains /\ s.obj[g].size = Len(s.disk[s.obj[g].node])
         /\ Says(s.disk[s.obj[g].node], Scan(s, g, name), name)
<1> DEFINE o == s.obj[g]
           d == s.disk[o.node]
           ends == Ends(s, g)
           last == IF ends = {} THEN o.size ELSE Min(ends)
           found == {i \in 1 .. last : IsUsed(d[i]) /\ d[i].name = name}
           empty == {i \in 1 .. last : d[i].what \in {"free", "deleted"}}
           r == Scan(s, g, name)
<1>1. s.disk \in Disks /\ s.obj \in Objects /\ Current(s.disk, s.obj, g) /\ Whole(s.disk)
  BY DEF Good
<1>2. o.node \in Chains /\ o.size = Len(d)
  <2>1. o.size = Len(d)
    BY <1>1 DEF Current
  <2>2. o \in ObjectSet
    BY <1>1, ObjectIs
  <2>3. o.type \in {"dir", "root16", "root32"}
    BY DEF IsDir
  <2>4. o.node \in Chains
    BY <1>1, <2>2, <2>3 DEF Current, Placed, IsRoot, Chains
  <2> QED
    BY <2>1, <2>4
<1>3. Len(d) \in Nat /\ Len(d) > 0
  BY <1>1, <1>2, CellIs
<1>4. r = [found |-> IF found = {} THEN 0 ELSE Min(found),
           empty |-> IF empty = {} THEN 0 ELSE Min(empty)]
  BY DEF Scan
<1>5. ends = {i \in 1 .. Len(d) : d[i].what = "free"}
  BY <1>2 DEF Ends
<1>6. /\ ends = {} => last = Len(d)
      /\ ends # {} => last \in ends /\ \A i \in ends : last <= i
  <2>1. ends \in SUBSET Nat
    BY <1>3, <1>5
  <2> HIDE DEF ends, d
  <2> QED
    BY <1>2, <2>1, MinIs
<1> HIDE DEF ends, last, d
<1>7. /\ last \in 1 .. Len(d)
      /\ \A j \in 1 .. last : j # last => d[j].what # "free"
      /\ \A j \in 1 .. Len(d) : j > last => ~IsUsed(d[j])
      /\ last = Len(d) \/ d[last].what = "free"
  <2>1. CASE ends = {}
    BY <1>3, <1>5, <1>6, <2>1
  <2>2. CASE ends # {}
    <3>1. last \in 1 .. Len(d) /\ d[last].what = "free"
      BY <1>5, <1>6, <2>2
    <3>2. \A j \in 1 .. last : j # last => d[j].what # "free"
      <4> SUFFICES ASSUME NEW j \in 1 .. last, j # last PROVE d[j].what # "free"
        OBVIOUS
      <4>1. j \in 1 .. Len(d) /\ ~(last <= j)
        BY <1>3, <3>1
      <4> QED
        BY <1>5, <1>6, <2>2, <4>1
    <3>3. \A j \in 1 .. Len(d) : j > last => ~IsUsed(d[j])
      <4> SUFFICES ASSUME NEW j \in 1 .. Len(d), j > last, IsUsed(d[j]) PROVE FALSE
        OBVIOUS
      <4>1. \A k \in 1 .. j : d[k].what # "free"
        BY <1>1, <1>2 DEF Whole, d
      <4> QED
        BY <1>3, <3>1, <4>1
    <3> QED
      BY <3>1, <3>2, <3>3
  <2> QED
    BY <2>1, <2>2
<1>8. found \in SUBSET Nat /\ empty \in SUBSET Nat
  BY <1>3, <1>7
<1>9. /\ found # {} => Min(found) \in found
      /\ empty # {} => Min(empty) \in empty /\ \A i \in empty : Min(empty) <= i
  <2> HIDE DEF found, empty
  <2> QED
    BY <1>8, MinIs
<1>10. /\ r.found # 0 => r.found \in found
       /\ r.found = 0 => found = {}
       /\ r.empty # 0 => r.empty \in empty /\ \A i \in empty : r.empty <= i
       /\ r.empty = 0 => empty = {}
  <2>1. 0 \notin found /\ 0 \notin empty
    OBVIOUS
  <2> HIDE DEF found, empty, r
  <2> QED
    BY <1>4, <1>9, <2>1
<1> HIDE DEF r
<1>11. r.found # 0 => r.found \in 1 .. Len(d)
  BY <1>3, <1>7, <1>10
<1>12. r.found = 0 => \A j \in 1 .. Len(d) : IsUsed(d[j]) => d[j].name # name
  BY <1>3, <1>7, <1>10
<1>13. ASSUME r.empty # 0
       PROVE  /\ r.empty \in 1 .. Len(d) /\ d[r.empty].what \in {"free", "deleted"}
              /\ \A j \in 1 .. r.empty - 1 : d[j].what # "free"
  <2>1. r.empty \in 1 .. last /\ d[r.empty].what \in {"free", "deleted"}
    BY <1>10, <1>13
  <2>2. \A j \in 1 .. r.empty - 1 : j \in 1 .. last /\ j # last
    BY <1>3, <1>7, <2>1
  <2> QED
    BY <1>3, <1>7, <2>1, <2>2
<1>14. r.empty = 0 => \A j \in 1 .. Len(d) : d[j].what # "free"
  <2> SUFFICES ASSUME r.empty = 0, NEW j \in 1 .. Len(d) PROVE d[j].what # "free"
    OBVIOUS
  <2>1. d[last].what # "free"
    BY <1>3, <1>7, <1>10
  <2>2. last = Len(d)
    BY <1>7, <2>1
  <2> QED
    BY <1>3, <1>7, <2>1, <2>2
<1> QED
  <2>1. Says(d, r, name)
    BY <1>11, <1>12, <1>13, <1>14, Zenon DEF Says
  <2> QED
    BY <1>2, <2>1, Zenon DEF r, d

-----------------------------------------------------------------------------
\* The state in which an entry is made
Made(t, at, name, stray) ==
  [Put(t, at, Slot("file", name, None, 0)) EXCEPT !.lost = @ \/ stray]
\* An object of such an entry, in a state whose volume is followed
Fresh(q, h, d, i) ==
  /\ q.obj[h].type = "file" /\ q.obj[h].at = <<d, i>> /\ q.obj[h].node = None
  /\ q.obj[h].size = 0 /\ ~q.obj[h].dirty
  /\ q.disk[d][i].what = "file"
\* A slot that may be taken
Takes(D, d, i, name) ==
  /\ d \in Chains /\ i \in 1 .. Len(D[d]) /\ D[d][i].what \in {"free", "deleted"}
  /\ \A j \in 1 .. i - 1 : D[d][j].what # "free"
  /\ \A j \in 1 .. Len(D[d]) : IsUsed(D[d][j]) => D[d][j].name # name

LEMMA MadeFine ==
  ASSUME NEW t, NEW d, NEW i, NEW name \in Name, NEW stray \in BOOLEAN, Fine(t),
         ~t.lost => Takes(t.disk, d, i, name)
  PROVE  /\ Fine(Made(t, <<d, i>>, name, stray))
         /\ Made(t, <<d, i>>, name, stray).obj = t.obj
         /\ Made(t, <<d, i>>, name, stray).lost = (t.lost \/ stray)
         /\ ~t.lost => PutAs(t.disk, Made(t, <<d, i>>, name, stray).disk, d, i,
                             Slot("file", name, None, 0))
<1> DEFINE e == Slot("file", name, None, 0)
           x == [t.disk EXCEPT ![d][i] = e]
           u == [t EXCEPT !.disk = x]
           m == [u EXCEPT !.lost = u.lost \/ stray]
<1>1. Made(t, <<d, i>>, name, stray) = m
  BY DEF Made, Put
<1>2. State(t) /\ t.lost \in BOOLEAN
  BY Zenon DEF Fine
<1> HIDE DEF x
<1>3. State(u) /\ u.disk = x /\ u.obj = t.obj /\ u.lost = t.lost
  BY <1>2, DiskIs, Zenon
<1> HIDE DEF u
<1>4. State(m) /\ m.disk = u.disk /\ m.obj = u.obj /\ m.lost = (u.lost \/ stray)
  BY <1>3, LostIs, Zenon
<1> HIDE DEF m
<1>5. ASSUME ~t.lost PROVE PutAs(t.disk, x, d, i, e) /\ Good(x, t.obj)
  <2>1. Good(t.disk, t.obj) /\ Takes(t.disk, d, i, name)
    BY <1>5, Zenon DEF Fine
  <2>2. t.disk \in Disks /\ d \in Chains /\ i \in 1 .. Len(t.disk[d])
    BY <2>1 DEF Good, Takes
  <2>3. e \in SlotSet
    BY NodeAssumption DEF Slot, SlotSet
  <2> HIDE DEF e
  <2>4. PutAs(t.disk, x, d, i, e)
    BY <2>2, <2>3, PutIs DEF x
  <2>5. /\ t.disk[d][i].what \in {"free", "deleted"}
        /\ \A j \in 1 .. i - 1 : t.disk[d][j].what # "free"
        /\ \A j \in 1 .. Len(t.disk[d]) : IsUsed(t.disk[d][j]) => t.disk[d][j].name # name
    BY <2>1, Zenon DEF Takes
  <2>6. Good(x, t.obj)
    <3>1. PutAs(t.disk, x, d, i, Slot("file", name, None, 0))
      BY <2>4, Zenon DEF e
    <3> QED
      BY ONLY <2>1, <2>5, <3>1, MadeGood
  <2> QED
    BY <2>4, <2>6
<1>6. Fine(m)
  BY <1>2, <1>3, <1>4, <1>5, FineBy, Zenon
<1> QED
  BY <1>1, <1>3, <1>4, <1>5, <1>6, Zenon

LEMMA CreateFine ==
  ASSUME NEW t, NEW h \in Object, NEW d, NEW i, NEW name \in Name, NEW flags, NEW stray \in BOOLEAN,
         Fine(t), ~t.lost => t.obj[h] = Closed /\ Takes(t.disk, d, i, name)
  PROVE  LET m == Made(t, <<d, i>>, name, stray)
             R == Fault(m) \cup OpenCachedEntry(m, h, <<d, i>>, flags)
         IN /\ AllFine(R)
            /\ "trunc" \notin flags =>
                 \A r \in R : r.ok /\ ~r.s.lost => ~t.lost /\ ~stray /\ Fresh(r.s, h, d, i)
<1> DEFINE m == Made(t, <<d, i>>, name, stray)
           e == Slot("file", name, None, 0)
           C == OpenCachedEntry(m, h, <<d, i>>, flags)
           c == CachedAs(m, <<d, i>>, flags)
<1>1. /\ Fine(m) /\ m.obj = t.obj /\ m.lost = (t.lost \/ stray)
      /\ ~t.lost => PutAs(t.disk, m.disk, d, i, e)
  <2>1. /\ Fine(Made(t, <<d, i>>, name, stray))
        /\ Made(t, <<d, i>>, name, stray).obj = t.obj
        /\ Made(t, <<d, i>>, name, stray).lost = (t.lost \/ stray)
        /\ ~t.lost => PutAs(t.disk, Made(t, <<d, i>>, name, stray).disk, d, i,
                            Slot("file", name, None, 0))
    BY MadeFine
  <2> QED
    BY <2>1, Zenon
<1>2. t.lost \in BOOLEAN
  BY Zenon DEF Fine
<1> HIDE DEF m, e, c
<1>3. ~m.lost => m.obj[h] = Closed /\ d \in Chains /\ i \in 1 .. Len(m.disk[d])
  BY <1>1, <1>2 DEF PutAs
<1>4. /\ AllFine(C)
      /\ "trunc" \notin flags => \A r \in C : r.ok /\ ~r.s.lost =>
           ~m.lost /\ r.s.disk = m.disk /\ r.s.obj = Laid(m.obj, h, c)
  <2>1. /\ AllFine(OpenCachedEntry(m, h, <<d, i>>, flags))
        /\ "trunc" \notin flags =>
             \A r \in OpenCachedEntry(m, h, <<d, i>>, flags) : r.ok /\ ~r.s.lost =>
               /\ ~m.lost /\ IsUsed(m.disk[d][i]) /\ r.s.disk = m.disk
               /\ r.s.obj = Laid(m.obj, h, CachedAs(m, <<d, i>>, flags))
    <3>1. Fine(m)
      BY <1>1
    <3> HIDE DEF C
    <3> QED
      BY <1>3, <3>1, CachedEntryFine, Zenon
  <2> QED
    BY <2>1, Zenon DEF c
<1>5. AllFine(Fault(m)) /\ \A r \in Fault(m) : ~r.ok
  BY <1>1, FaultFine, Zenon
<1> HIDE DEF C
<1>6. ASSUME NEW r \in C, "trunc" \notin flags, r.ok, ~r.s.lost
      PROVE  ~t.lost /\ ~stray /\ Fresh(r.s, h, d, i)
  <2>1. ~m.lost /\ r.s.disk = m.disk /\ r.s.obj = Laid(m.obj, h, c)
    BY <1>4, <1>6
  <2>2. ~t.lost /\ ~stray
    BY <1>1, <1>2, <2>1
  <2>3. m.disk[d][i] = e
    BY <1>1, <2>2 DEF PutAs
  <2>4. e.what = "file" /\ e.node = None /\ e.size = 0
    BY DEF e, Slot
  <2>5. c.type = "file" /\ c.node = None /\ c.size = 0 /\ c.at = <<d, i>> /\ ~c.dirty
    BY <2>3, <2>4 DEF c, CachedAs, At
  <2>6. t.obj \in Objects
    BY <2>2 DEF Fine, Good
  <2>7. r.s.obj[h] = c
    BY <1>1, <2>1, <2>6 DEF Objects, Laid
  <2> QED
    BY <2>1, <2>2, <2>3, <2>4, <2>5, <2>7 DEF Fresh
<1> QED
  BY <1>4, <1>5, <1>6, BothFine, Zenon DEF m, C

-----------------------------------------------------------------------------
\* open(), part by part: the scan, an entry that it found, one made in a slot it found,
\* one made behind a cluster that was added
Creates(t, h, at, name, flags, stray) ==
  Fault(Made(t, at, name, stray)) \cup OpenCachedEntry(Made(t, at, name, stray), h, at, flags)
Stray(s, g) == ~IsDir(s.obj[g]) \/ (s.obj[g].at # <<>> /\ At(s, s.obj[g].at).what # "dir")
Scanned(s, g, name) ==
  IF IsDir(s.obj[g]) /\ s.obj[g].size > 0 THEN Scan(s, g, name) ELSE [found |-> 0, empty |-> 0]

FoundIn(s, h, g, name, flags) ==
  OpenCachedEntry(s, h, <<s.obj[g].node, Scanned(s, g, name).found>>, flags)
MadeIn(s, h, g, name, flags) ==
  Creates(s, h, <<s.obj[g].node, Scanned(s, g, name).empty>>, name, flags, Stray(s, g))
MadeBehind(s, h, g, name, flags, r) ==
  IF r.ok THEN Creates(r.s, h, <<r.s.obj[g].node, s.obj[g].size + 1>>, name, flags, Stray(s, g))
  ELSE {r}
MadeAfter(s, h, g, name, flags) ==
  UNION {MadeBehind(s, h, g, name, flags, r) : r \in AddDirCluster(s, g)}

\* The ways in which open() can go, once it has not refused.
LEMMA OpenIs ==
  ASSUME NEW s, NEW h, NEW g, NEW name, NEW flags,
         ~IsOpen(s.obj[h]), Valid(name), IsDir(s.obj[g]) \/ ~(s.obj[g].size > 0)
  PROVE  \/ Open(s, h, g, name, flags) = Fault(s) \cup No(s)
         \/ /\ Open(s, h, g, name, flags) = Fault(s) \cup FoundIn(s, h, g, name, flags)
            /\ Scanned(s, g, name).found # 0 /\ ~({"creat", "excl"} \subseteq flags)
         \/ /\ Open(s, h, g, name, flags) = Fault(s) \cup (Fault(s) \cup MadeIn(s, h, g, name, flags))
            /\ Scanned(s, g, name).found = 0 /\ Scanned(s, g, name).empty # 0
         \/ /\ Open(s, h, g, name, flags) = Fault(s) \cup MadeAfter(s, h, g, name, flags)
            /\ Scanned(s, g, name).found = 0 /\ Scanned(s, g, name).empty = 0
<1> DEFINE o == s.obj[g]
           scan == Scanned(s, g, name)
           R == Open(s, h, g, name, flags)
           X == FoundIn(s, h, g, name, flags)
           Y == MadeIn(s, h, g, name, flags)
           Z == MadeAfter(s, h, g, name, flags)
           W == IF scan.found # 0
                THEN IF {"creat", "excl"} \subseteq flags THEN No(s) ELSE X
                ELSE IF ~({"creat", "write"} \subseteq flags) THEN No(s)
                ELSE IF scan.empty # 0 THEN Fault(s) \cup Y
                ELSE IF o.type = "root16" THEN No(s) ELSE Z
<1>1. R = IF IsOpen(s.obj[h]) \/ ~Valid(name) THEN No(s)
          ELSE IF ~IsDir(o) /\ o.size > 0 THEN No(s)
          ELSE Fault(s) \cup W
  BY Zenon DEF Open, Access, And, Creates, Made, Stray, Scanned, FoundIn, MadeIn, MadeAfter, MadeBehind
<1> HIDE DEF R, W, X, Y, Z
<1>2. R = Fault(s) \cup W
  BY <1>1
<1>3. \/ W = No(s)
      \/ W = X /\ scan.found # 0 /\ ~({"creat", "excl"} \subseteq flags)
      \/ W = Fault(s) \cup Y /\ scan.found = 0 /\ scan.empty # 0
      \/ W = Z /\ scan.found = 0 /\ scan.empty = 0
  <2> HIDE DEF scan, o
  <2> QED
    BY DEF W
<1> QED
  BY <1>2, <1>3, Zenon DEF R, X, Y, Z

\* What an object of a directory says, if its entry is one.
LEMMA NotStray ==
  ASSUME NEW s, NEW g \in Object, Good(s.disk, s.obj), ~Stray(s, g)
  PROVE  /\ IsDir(s.obj[g]) /\ s.obj[g].node \in Chains /\ s.obj[g].node # None
         /\ Up(s, g) = IF s.obj[g].node = Root THEN None ELSE s.obj[g].node
<1> DEFINE o == s.obj[g]
<1>1. s.disk \in Disks /\ s.obj \in Objects /\ Current(s.disk, s.obj, g)
  BY DEF Good
<1>2. o \in ObjectSet /\ IsDir(o) /\ (o.at # <<>> => At(s, o.at).what = "dir")
  BY <1>1, ObjectIs DEF Stray
<1>3. CASE IsRoot(o)
  <2>1. o.node = Root
    BY <1>1, <1>3, Zenon DEF Current
  <2> QED
    BY <1>2, <1>3, <2>1, NodeAssumption DEF Up, Chains
<1>4. CASE ~IsRoot(o)
  <2>1. o.type = "dir" /\ Placed(s.disk, s.obj, g)
    BY <1>1, <1>2, <1>4 DEF IsDir, IsRoot, Current
  <2>2. o.at \in Chains \X Nat
    BY <2>1, Zenon DEF Placed
  <2>3. o.at # <<>>
    BY <2>2
  <2>4. o.node \in Node /\ o.node # None
    BY <1>2, <2>1, <2>3, NodeAssumption DEF Placed, At
  <2> QED
    BY <1>2, <1>4, <2>4, NodeAssumption DEF Up, Chains
<1> QED
  BY <1>3, <1>4

\* What makeDir() has of open(): an object of a new entry in the directory
Begun(s, h, g, q) ==
  \E d \in Chains, i \in Nat :
    Fresh(q, h, d, i) /\ Up(s, g) = (IF d = Root THEN None ELSE d)

LEMMA CreatesFine ==
  ASSUME NEW s, NEW t, NEW h \in Object, NEW g \in Object, NEW d, NEW i, NEW name \in Name,
         NEW flags, Fine(s), Fine(t), ~t.lost => ~s.lost,
         ~t.lost => t.obj[h] = Closed /\ Takes(t.disk, d, i, name)
                      /\ (s.obj[g].node # None => d = s.obj[g].node)
  PROVE  LET R == Creates(t, h, <<d, i>>, name, flags, Stray(s, g)) IN
         /\ AllFine(R)
         /\ "trunc" \notin flags => \A r \in R : r.ok /\ ~r.s.lost => ~s.lost /\ Begun(s, h, g, r.s)
<1> DEFINE R == Creates(t, h, <<d, i>>, name, flags, Stray(s, g))
<1>1. Stray(s, g) \in BOOLEAN
  BY DEF Stray
<1>2. /\ AllFine(R)
      /\ "trunc" \notin flags =>
           \A r \in R : r.ok /\ ~r.s.lost => ~t.lost /\ ~Stray(s, g) /\ Fresh(r.s, h, d, i)
  <2> DEFINE m == Made(t, <<d, i>>, name, Stray(s, g))
             Q == Fault(m) \cup OpenCachedEntry(m, h, <<d, i>>, flags)
  <2>1. /\ AllFine(Q)
        /\ "trunc" \notin flags =>
             \A r \in Q : r.ok /\ ~r.s.lost => ~t.lost /\ ~Stray(s, g) /\ Fresh(r.s, h, d, i)
    <3>1. ~t.lost => t.obj[h] = Closed /\ Takes(t.disk, d, i, name)
      OBVIOUS
    <3> QED
      BY <1>1, <3>1, CreateFine, Zenon
  <2>2. R = Q
    BY DEF Creates
  <2> HIDE DEF Q, R
  <2> QED
    BY <2>1, <2>2, Zenon
<1>3. ASSUME NEW r \in R, "trunc" \notin flags, r.ok, ~r.s.lost
      PROVE  ~s.lost /\ Begun(s, h, g, r.s)
  <2>1. ~t.lost /\ ~Stray(s, g) /\ Fresh(r.s, h, d, i)
    BY <1>2, <1>3
  <2>2. ~s.lost /\ Good(s.disk, s.obj) /\ Good(t.disk, t.obj)
    BY <2>1 DEF Fine
  <2>3. d = s.obj[g].node /\ d \in Chains /\ Up(s, g) = IF d = Root THEN None ELSE d
    BY <2>1, <2>2, NotStray
  <2>4. i \in Nat
    <3>1. d \in Chains /\ i \in 1 .. Len(t.disk[d]) /\ t.disk \in Disks
      BY <2>1, <2>2 DEF Takes, Good
    <3> QED
      BY <3>1, CellIs
  <2> QED
    BY <2>1, <2>2, <2>3, <2>4 DEF Begun
<1> QED
  BY <1>2, <1>3

\* The same, as one formula
Ways(s, h, g, name, flags) ==
  \/ Open(s, h, g, name, flags) = Fault(s) \cup No(s)
  \/ /\ Open(s, h, g, name, flags) = Fault(s) \cup FoundIn(s, h, g, name, flags)
     /\ Scanned(s, g, name).found # 0 /\ ~({"creat", "excl"} \subseteq flags)
  \/ /\ Open(s, h, g, name, flags) = Fault(s) \cup (Fault(s) \cup MadeIn(s, h, g, name, flags))
     /\ Scanned(s, g, name).found = 0 /\ Scanned(s, g, name).empty # 0
  \/ /\ Open(s, h, g, name, flags) = Fault(s) \cup MadeAfter(s, h, g, name, flags)
     /\ Scanned(s, g, name).found = 0 /\ Scanned(s, g, name).empty = 0
LEMMA OpenWays ==
  ASSUME NEW s, NEW h, NEW g, NEW name, NEW flags,
         ~IsOpen(s.obj[h]), Valid(name), IsDir(s.obj[g]) \/ ~(s.obj[g].size > 0)
  PROVE  Ways(s, h, g, name, flags)
  BY OpenIs, Zenon DEF Ways

LEMMA ClosedIs ==
  ASSUME NEW s, NEW h \in Object, Good(s.disk, s.obj), ~IsOpen(s.obj[h])
  PROVE  s.obj[h] = Closed
  BY DEF Good, Current, IsOpen

\* open() found neither the name nor a slot to take.
Misses(s, h, g, name) ==
  /\ Good(s.disk, s.obj) /\ Fit(s.obj[g]) /\ ~IsOpen(s.obj[h]) /\ Valid(name)
  /\ Scanned(s, g, name).found = 0 /\ Scanned(s, g, name).empty = 0
  /\ IsDir(s.obj[g]) \/ ~(s.obj[g].size > 0)

\* Where a cluster that was added begins, the entry can be made.
LEMMA AddedTakes ==
  ASSUME NEW s, NEW t, NEW h \in Object, NEW g \in Object, NEW name, Misses(s, h, g, name),
         Added(s, g, t)
  PROVE  /\ t.obj[h] = Closed
         /\ Takes(t.disk, t.obj[g].node, s.obj[g].size + 1, name)
         /\ s.obj[g].node # None => t.obj[g].node = s.obj[g].node
<1>0. /\ Good(s.disk, s.obj) /\ Fit(s.obj[g]) /\ ~IsOpen(s.obj[h]) /\ Valid(name)
      /\ Scanned(s, g, name).found = 0 /\ Scanned(s, g, name).empty = 0
      /\ IsDir(s.obj[g]) \/ ~(s.obj[g].size > 0)
  BY Zenon DEF Misses
<1> DEFINE o == s.obj[g]
           d == t.obj[g].node
           i == o.size + 1
           D == t.disk[d]
<1>1. /\ d \in Chains /\ d = (IF o.node = None THEN d ELSE o.node)
      /\ o.size \in Nat /\ Len(D) = o.size + Slots
      /\ \A k \in 1 .. o.size : D[k] = s.disk[d][k]
      /\ \A k \in 1 .. Len(D) : k > o.size => D[k] = FreeSlot
      /\ \A x \in Object : x # g => t.obj[x] = s.obj[x]
  BY Zenon DEF Added
<1>2. t.obj[h] = Closed
  <2>1. h # g
    BY <1>0, Zenon DEF Fit
  <2> QED
    BY <1>0, <1>1, <2>1, ClosedIs
<1>3. FreeSlot.what = "free" /\ ~IsUsed(FreeSlot)
  BY DEF FreeSlot, Blank, Slot, IsUsed
<1> HIDE DEF D
<1>4. i \in 1 .. Len(D) /\ D[i].what = "free" /\ Slots \in Nat
  <2>1. Slots \in Nat /\ Slots >= 2 /\ o.size \in Nat /\ Len(D) = o.size + Slots
    BY <1>1, SlotsAssumption DEF D
  <2> HIDE DEF o
  <2>2. i \in 1 .. Len(D) /\ i > o.size
    BY <2>1
  <2>3. D[i] = FreeSlot
    BY <1>1, <2>2 DEF D, o
  <2> QED
    BY <1>3, <2>1, <2>2, <2>3
<1>5. ASSUME NEW j \in 1 .. o.size PROVE D[j].what # "free" /\ (IsUsed(D[j]) => D[j].name # name)
  <2>1. o.size > 0 /\ IsDir(o)
    BY <1>0, <1>1
  <2>2. Scan(s, g, name).found = 0 /\ Scan(s, g, name).empty = 0
    BY <1>0, <2>1 DEF Scanned
  <2>3. /\ o.node \in Chains /\ o.size = Len(s.disk[o.node])
        /\ \A k \in 1 .. Len(s.disk[o.node]) : IsUsed(s.disk[o.node][k]) => s.disk[o.node][k].name # name
        /\ \A k \in 1 .. Len(s.disk[o.node]) : s.disk[o.node][k].what # "free"
    <3> DEFINE r == Scan(s, g, name)
    <3>1. /\ o.node \in Chains /\ o.size = Len(s.disk[o.node])
          /\ r.found = 0 => \A k \in 1 .. Len(s.disk[o.node]) :
                              IsUsed(s.disk[o.node][k]) => s.disk[o.node][k].name # name
          /\ r.empty = 0 => \A k \in 1 .. Len(s.disk[o.node]) : s.disk[o.node][k].what # "free"
      <4>1. o.node \in Chains /\ o.size = Len(s.disk[o.node]) /\ Says(s.disk[o.node], r, name)
        BY <1>0, <2>1, ScanIs, Zenon
      <4> HIDE DEF o, r
      <4> QED
        BY <4>1, Zenon DEF Says
    <3>2. r.found = 0 /\ r.empty = 0
      BY <2>2
    <3> HIDE DEF r, o
    <3> QED
      BY <3>1, <3>2, Zenon
  <2>4. d = o.node
    BY <1>1, <2>3, NodeAssumption DEF Chains
  <2> QED
    BY <1>1, <2>3, <2>4
<1>6. \A j \in 1 .. i - 1 : D[j].what # "free"
  BY <1>1, <1>5
<1>7. \A j \in 1 .. Len(D) : IsUsed(D[j]) => D[j].name # name
  <2> SUFFICES ASSUME NEW j \in 1 .. Len(D), IsUsed(D[j]) PROVE D[j].name # name
    OBVIOUS
  <2>1. ~(j > o.size)
    BY <1>1, <1>3
  <2> QED
    BY <1>1, <1>5, <2>1
<1> HIDE DEF i, d, o
<1>8. Takes(t.disk, d, i, name)
  BY <1>1, <1>4, <1>6, <1>7 DEF Takes, D
<1> QED
  BY <1>1, <1>2, <1>8 DEF d, i, o

\* open()
LEMMA OpenFine ==
  ASSUME NEW s, NEW h \in Object, NEW g \in Object, NEW name \in Name \cup {Bad}, NEW flags,
         Fine(s), ~s.lost => Fit(s.obj[g])
  PROVE  /\ AllFine(Open(s, h, g, name, flags))
         /\ {"creat", "excl"} \subseteq flags /\ "trunc" \notin flags =>
              \A r \in Open(s, h, g, name, flags) : r.ok /\ ~r.s.lost => ~s.lost /\ Begun(s, h, g, r.s)
<1> DEFINE o == s.obj[g]
           scan == Scanned(s, g, name)
           R == Open(s, h, g, name, flags)
           stray == Stray(s, g)
           n == o.node
           Post(Q) == {"creat", "excl"} \subseteq flags /\ "trunc" \notin flags =>
                        \A r \in Q : r.ok /\ ~r.s.lost => ~s.lost /\ Begun(s, h, g, r.s)
<1>1. /\ AllFine(No(s)) /\ AllFine(Fault(s)) /\ Post(No(s)) /\ Post(Fault(s))
  <2>1. \A r \in No(s) : ~r.ok
    BY DEF No
  <2> QED
    BY <2>1, NoFine, FaultFine, Zenon
<1>2. CASE IsOpen(s.obj[h]) \/ ~Valid(name)
  <2>1. R = No(s)
    BY <1>2 DEF Open
  <2> HIDE DEF R
  <2> QED
    BY <1>1, <2>1, Zenon DEF R
<1>3. CASE ~(IsOpen(s.obj[h]) \/ ~Valid(name)) /\ ~IsDir(o) /\ o.size > 0
  <2>1. R = No(s)
    BY <1>3 DEF Open
  <2> HIDE DEF R
  <2> QED
    BY <1>1, <2>1, Zenon DEF R
<1>4. CASE ~IsOpen(s.obj[h]) /\ Valid(name) /\ (IsDir(o) \/ ~(o.size > 0))
  <2> DEFINE X == FoundIn(s, h, g, name, flags)
             Y == MadeIn(s, h, g, name, flags)
             A(r) == MadeBehind(s, h, g, name, flags, r)
             Z == MadeAfter(s, h, g, name, flags)
  <2>1. name \in Name
    BY <1>4 DEF Valid
  <2>2. \/ R = Fault(s) \cup No(s)
        \/ R = Fault(s) \cup X /\ scan.found # 0 /\ ~({"creat", "excl"} \subseteq flags)
        \/ R = Fault(s) \cup (Fault(s) \cup Y) /\ scan.found = 0 /\ scan.empty # 0
        \/ R = Fault(s) \cup Z /\ scan.found = 0 /\ scan.empty = 0
    <3>1. Ways(s, h, g, name, flags)
      BY <1>4, OpenWays
    <3> QED
      BY <3>1, Zenon DEF Ways
  <2>3. ~s.lost => Good(s.disk, s.obj) /\ s.obj[h] = Closed
    BY <1>4, ClosedIs DEF Fine
  <2>4. ASSUME ~s.lost, IsDir(o), o.size > 0
        PROVE  /\ scan = Scan(s, g, name) /\ n \in Chains
               /\ scan.found # 0 => scan.found \in 1 .. Len(s.disk[n])
               /\ scan.found = 0 /\ scan.empty # 0 => Takes(s.disk, n, scan.empty, name)
    <3>1. scan = Scan(s, g, name)
      BY <2>4 DEF Scanned
    <3> DEFINE r == Scan(s, g, name)
    <3>2. /\ n \in Chains
          /\ r.found # 0 => r.found \in 1 .. Len(s.disk[n])
          /\ r.found = 0 => \A j \in 1 .. Len(s.disk[n]) :
                              IsUsed(s.disk[n][j]) => s.disk[n][j].name # name
          /\ r.empty # 0 => /\ r.empty \in 1 .. Len(s.disk[n])
                            /\ s.disk[n][r.empty].what \in {"free", "deleted"}
                            /\ \A j \in 1 .. r.empty - 1 : s.disk[n][j].what # "free"
      <4>1. Good(s.disk, s.obj)
        BY <2>3, <2>4, Zenon
      <4> QED
        <5>1. n \in Chains /\ Says(s.disk[n], r, name)
          BY <2>4, <4>1, ScanIs, Zenon
        <5> HIDE DEF n, r
        <5> QED
          BY <5>1, Zenon DEF Says
    <3> HIDE DEF scan, n, r
    <3>3. scan = r
      BY <3>1 DEF r
    <3> QED
      BY <3>1, <3>2, <3>3, Zenon DEF Takes
  <2>5. ~(IsDir(o) /\ o.size > 0) => scan.found = 0 /\ scan.empty = 0
    BY DEF Scanned
  <2>6. ASSUME scan.found # 0 PROVE AllFine(X)
    <3>1. ~s.lost => s.obj[h] = Closed /\ n \in Chains /\ scan.found \in 1 .. Len(s.disk[n])
      BY <2>3, <2>4, <2>5, <2>6
    <3>2. X = OpenCachedEntry(s, h, <<n, scan.found>>, flags)
      BY DEF FoundIn
    <3> HIDE DEF scan, n, o, X
    <3> QED
      BY <3>1, <3>2, CachedEntryFine, Zenon
  <2>7. ASSUME scan.found = 0, scan.empty # 0 PROVE AllFine(Y) /\ Post(Y)
    <3>1. ~s.lost => s.obj[h] = Closed /\ Takes(s.disk, n, scan.empty, name)
                     /\ (s.obj[g].node # None => n = s.obj[g].node)
      BY <2>3, <2>4, <2>5, <2>7
    <3>3. Y = Creates(s, h, <<n, scan.empty>>, name, flags, Stray(s, g))
      BY DEF MadeIn
    <3> HIDE DEF scan, n, o, Y
    <3>2. /\ AllFine(Y)
          /\ "trunc" \notin flags => \A r \in Y : r.ok /\ ~r.s.lost => ~s.lost /\ Begun(s, h, g, r.s)
      BY <2>1, <3>1, <3>3, CreatesFine
    <3> QED
      BY <3>2, Zenon
  <2>8. ASSUME scan.found = 0, scan.empty = 0 PROVE AllFine(Z) /\ Post(Z)
    <3>1. /\ AllFine(AddDirCluster(s, g))
          /\ \A r \in AddDirCluster(s, g) : r.ok /\ ~r.s.lost => ~s.lost /\ Added(s, g, r.s)
      <4>1. ~s.lost => Fit(s.obj[g]) /\ (IsDir(s.obj[g]) \/ s.obj[g].size = 0)
        <5>1. ~s.lost => o.size \in Nat
          BY <2>3, ObjectIs DEF Good
        <5> QED
          BY <1>4, <5>1
      <4> QED
        BY <4>1, AddFine, Zenon
    <3>2. ASSUME NEW r \in AddDirCluster(s, g), r.ok PROVE AllFine(A(r)) /\ Post(A(r))
      <4> DEFINE t == r.s
                 d == t.obj[g].node
                 i == o.size + 1
                 C == Creates(t, h, <<d, i>>, name, flags, stray)
      <4>1. A(r) = C
        BY <3>2 DEF MadeBehind
      <4>2. Fine(t) /\ (~t.lost => ~s.lost /\ Added(s, g, t))
        BY <3>1, <3>2, Zenon DEF AllFine
      <4>3. ~t.lost => /\ t.obj[h] = Closed /\ Takes(t.disk, d, i, name)
                       /\ s.obj[g].node # None => d = s.obj[g].node
        <5> HIDE DEF d, i, t, A, C
        <5> SUFFICES ASSUME ~t.lost
                     PROVE  /\ t.obj[h] = Closed /\ Takes(t.disk, t.obj[g].node, s.obj[g].size + 1, name)
                            /\ s.obj[g].node # None => t.obj[g].node = s.obj[g].node
          BY Zenon DEF d, i
        <5>1. ~s.lost /\ Added(s, g, t)
          BY <4>2, Zenon
        <5>2. Good(s.disk, s.obj) /\ Fit(s.obj[g])
          BY <2>3, <5>1, Zenon
        <5>3. ~IsOpen(s.obj[h]) /\ Valid(name) /\ (IsDir(s.obj[g]) \/ ~(s.obj[g].size > 0))
          BY <1>4, Zenon
        <5>4. Scanned(s, g, name).found = 0 /\ Scanned(s, g, name).empty = 0
          BY <2>8, Zenon
        <5> HIDE DEF o, scan
        <5>5. Misses(s, h, g, name)
          BY <5>2, <5>3, <5>4, Zenon DEF Misses
        <5> QED
          BY <5>1, <5>5, AddedTakes, Zenon
      <4> HIDE DEF t, d, i, scan, A, o
      <4>4. /\ AllFine(C)
            /\ "trunc" \notin flags => \A q \in C : q.ok /\ ~q.s.lost => ~s.lost /\ Begun(s, h, g, q.s)
        BY <2>1, <4>2, <4>3, CreatesFine
      <4> HIDE DEF C
      <4> QED
        BY <4>1, <4>4, Zenon
    <3>3. ASSUME NEW r \in AddDirCluster(s, g), ~r.ok PROVE AllFine(A(r)) /\ Post(A(r))
      <4>1. A(r) = {r}
        BY <3>3 DEF MadeBehind
      <4>2. Result(r) /\ Fine(r.s)
        BY <3>1, <3>3, Zenon DEF AllFine
      <4>3. \A q \in {r} : ~q.ok
        BY <3>3
      <4> HIDE DEF A
      <4> QED
        BY <4>1, <4>2, <4>3 DEF AllFine
    <3>4. \A r \in AddDirCluster(s, g) : AllFine(A(r)) /\ Post(A(r))
      <4> HIDE DEF A, Post
      <4> QED
        BY <3>2, <3>3
    <3>5. Z = UNION {A(r) : r \in AddDirCluster(s, g)}
      BY DEF MadeAfter
    <3> HIDE DEF A, Z
    <3> QED
      BY <3>4, <3>5 DEF AllFine
  <2>9. CASE R = Fault(s) \cup No(s)
    <3> HIDE DEF R
    <3> QED
      BY <1>1, <2>9, BothFine, Zenon DEF R
  <2>10. CASE R = Fault(s) \cup X /\ scan.found # 0 /\ ~({"creat", "excl"} \subseteq flags)
    <3> HIDE DEF R, X, scan
    <3> QED
      BY <1>1, <2>6, <2>10, BothFine, Zenon DEF R
  <2>11. CASE R = Fault(s) \cup (Fault(s) \cup Y) /\ scan.found = 0 /\ scan.empty # 0
    <3> HIDE DEF R, Y, scan
    <3> QED
      BY <1>1, <2>7, <2>11, BothFine, Zenon DEF R
  <2>12. CASE R = Fault(s) \cup Z /\ scan.found = 0 /\ scan.empty = 0
    <3> HIDE DEF R, Z, scan
    <3> QED
      BY <1>1, <2>8, <2>12, BothFine, Zenon DEF R
  <2> HIDE DEF R, X, Y, Z, scan
  <2> QED
    BY <2>2, <2>9, <2>10, <2>11, <2>12 DEF R
<1> QED
  BY <1>2, <1>3, <1>4

-----------------------------------------------------------------------------
\* What an object of a directory with a size says
LEMMA DirIs ==
  ASSUME NEW D, NEW O, NEW h \in Object, Good(D, O), IsDir(O[h]), O[h].size > 0
  PROVE  O[h].node \in Chains /\ O[h].size = Len(D[O[h].node])
<1>1. O[h] \in ObjectSet /\ Current(D, O, h) /\ O[h].type \in {"dir", "root16", "root32"}
  BY ObjectIs DEF Good, IsDir
<1> QED
  BY <1>1 DEF Current, Placed, IsDir, IsRoot, Chains, ObjectSet

\* open() by index
LEMMA OpenAtFine ==
  ASSUME NEW s, NEW h \in Object, NEW g \in Object, NEW i \in Nat, NEW flags, Fine(s)
  PROVE  AllFine(OpenAt(s, h, g, i, flags))
<1> DEFINE o == s.obj[g]
           C == OpenCachedEntry(s, h, <<o.node, i + 1>>, flags)
           R == OpenAt(s, h, g, i, flags)
<1>1. CASE IsOpen(s.obj[h]) \/ {"creat", "excl"} \subseteq flags \/ ~IsDir(o) \/ i >= o.size
  <2>1. R = No(s)
    BY <1>1 DEF OpenAt
  <2> HIDE DEF R
  <2> QED
    BY <2>1, NoFine, Zenon DEF R
<1>2. CASE ~(IsOpen(s.obj[h]) \/ {"creat", "excl"} \subseteq flags \/ ~IsDir(o) \/ i >= o.size)
  <2>1. R = Fault(s) \cup C
    BY <1>2 DEF OpenAt, Access
  <2>2. ~s.lost => s.obj[h] = Closed /\ o.node \in Chains /\ i + 1 \in 1 .. Len(s.disk[o.node])
    <3> SUFFICES ASSUME ~s.lost
                 PROVE  s.obj[h] = Closed /\ o.node \in Chains /\ i + 1 \in 1 .. Len(s.disk[o.node])
      OBVIOUS
    <3>1. Good(s.disk, s.obj)
      BY Zenon DEF Fine
    <3>2. s.obj \in Objects
      BY <3>1 DEF Good
    <3>3. o.size \in Nat
      BY <3>2, ObjectIs
    <3>5. IsDir(s.obj[g]) /\ s.obj[g].size > 0
      BY <1>2, <3>3
    <3>4. o.node \in Chains /\ o.size = Len(s.disk[o.node])
      <4> HIDE DEF o
      <4>1. s.obj[g].node \in Chains /\ s.obj[g].size = Len(s.disk[s.obj[g].node])
        <5> DEFINE D == s.disk
                   O == s.obj
        <5>1. Good(D, O) /\ IsDir(O[g]) /\ O[g].size > 0
          BY <3>1, <3>5
        <5> HIDE DEF D, O
        <5>2. O[g].node \in Chains /\ O[g].size = Len(D[O[g].node])
          BY <5>1, DirIs
        <5> QED
          BY <5>2 DEF D, O
      <4> QED
        BY <4>1 DEF o
    <3> QED
      BY <1>2, <3>1, <3>3, <3>4, ClosedIs
  <2> HIDE DEF R, o
  <2>3. AllFine(C)
    BY <2>2, CachedEntryFine
  <2> HIDE DEF C
  <2>4. AllFine(Fault(s))
    BY FaultFine, Zenon
  <2>5. AllFine(R)
    BY <2>1, <2>3, <2>4, BothFine, Zenon
  <2> QED
    BY <2>5 DEF R
<1> QED
  BY <1>1, <1>2

\* What openRoot() makes of an object
Rooted(s, type) == [Closed EXCEPT !.type = type, !.node = Root, !.size = Len(s.disk[Root])]

\* openRoot()
LEMMA OpenRootFine ==
  ASSUME NEW s, NEW h \in Object, NEW type \in RootTypes, Fine(s)
  PROVE  AllFine(OpenRoot(s, h, type))
<1> DEFINE o == Rooted(s, type)
           x == [s.obj EXCEPT ![h] = o]
           t == [s EXCEPT !.obj = x]
           y == [s.obj EXCEPT ![h] = Half]
           u == [s EXCEPT !.obj = y]
           R == OpenRoot(s, h, type)
<1>1. CASE IsOpen(s.obj[h])
  <2>1. R = No(s)
    BY <1>1 DEF OpenRoot
  <2> HIDE DEF R
  <2> QED
    BY <2>1, NoFine, Zenon DEF R
<1>2. CASE ~IsOpen(s.obj[h])
  <2>1. R = Yes(t) \cup Fault(u) \/ R = Yes(t)
    BY <1>2 DEF OpenRoot, Rooted
  <2>2. State(s) /\ s.lost \in BOOLEAN
    BY Zenon DEF Fine
  <2>3. ASSUME ~s.lost PROVE Good(s.disk, x)
    <3>1. Good(s.disk, s.obj) /\ s.obj[h] = Closed
      BY <1>2, <2>3, ClosedIs DEF Fine
    <3>2. s.disk \in Disks /\ Root \in Chains
      BY <3>1 DEF Good, Chains
    <3>3. Len(s.disk[Root]) \in Nat
      BY <3>2, CellIs
    <3>4. type \in {"root16", "root32"}
      BY RootAssumption
    <3>5. Closed \in ObjectSet /\ Closed.at = <<>> /\ ~Closed.dirty
      BY DEF Closed, ObjectSet
    <3>6. /\ o \in ObjectSet /\ IsRoot(o) /\ o.node = Root /\ o.at = <<>> /\ ~o.dirty
          /\ o.size = Len(s.disk[Root])
      BY <3>3, <3>4, <3>5 DEF ObjectSet, IsRoot, Rooted
    <3> HIDE DEF o
    <3> QED
      BY <3>1, <3>6, RootGood
  <2>8. ASSUME ~s.lost PROVE Good(s.disk, y)
    <3>1. Good(s.disk, s.obj) /\ s.obj[h] = Closed
      BY <1>2, <2>8, ClosedIs DEF Fine
    <3> QED
      BY <3>1, HalfGood, Zenon
  <2> HIDE DEF x, y, R
  <2>4. State(t) /\ t.obj = x /\ t.disk = s.disk /\ t.lost = s.lost
    BY <2>2, ObjIs, Zenon
  <2>9. State(u) /\ u.obj = y /\ u.disk = s.disk /\ u.lost = s.lost
    BY <2>2, ObjIs, Zenon
  <2> HIDE DEF t, u
  <2>5. Fine(t) /\ Fine(u)
    BY <2>2, <2>3, <2>4, <2>8, <2>9, Zenon DEF Fine
  <2>6. AllFine(Fault(u)) /\ AllFine(Yes(t))
    BY <2>5, FaultFine, YesFine, Zenon
  <2>7. AllFine(R)
    BY <2>1, <2>6, BothFine, Zenon
  <2> QED
    BY <2>7 DEF R
<1> QED
  BY <1>1, <1>2

-----------------------------------------------------------------------------
\* What remove() makes of a state, when it marks the entry
LEMMA MarkFine ==
  ASSUME NEW s, NEW h \in Object, Fine(s), ~s.lost => s.obj[h].type \in {"file", "dir"}
  PROVE  Fine(Mark(s, h))
<1> DEFINE at == s.obj[h].at
           D2 == [s.disk EXCEPT ![at[1]][at[2]] = Deleted]
           x == [s.obj EXCEPT ![h] = Closed]
           P == Sharers(s, h) # {}
           u == [s EXCEPT !.disk = D2]
           v == [u EXCEPT !.obj = x]
           t == [v EXCEPT !.lost = v.lost \/ P]
<1>1. State(s) /\ s.lost \in BOOLEAN
  BY Zenon DEF Fine
<1>2. Mark(s, h) = t
  BY <1>1 DEF Mark, Put, State
<1>3. ASSUME ~s.lost, ~P PROVE Good(D2, x)
  <2>1. Good(s.disk, s.obj) /\ s.obj[h].type \in {"file", "dir"}
    BY <1>3 DEF Fine
  <2>2. Placed(s.disk, s.obj, h) /\ s.disk \in Disks
    BY <2>1 DEF Good, Current
  <2>3. /\ at \in Chains \X Nat /\ at[1] \in Chains /\ at[2] \in 1 .. Len(s.disk[at[1]])
        /\ at # <<>>
    <3>1. at \in Chains \X Nat /\ Entry(s.disk, at[1], at[2])
      BY <2>2, Zenon DEF Placed
    <3> QED
      BY <2>2, <3>1, PlacedIs
  <2>4. Deleted \in SlotSet
    BY DEF Deleted, Blank, Slot, SlotSet
  <2>5. PutAs(s.disk, D2, at[1], at[2], Deleted)
    BY <2>2, <2>3, <2>4, PutIs
  <2>6. \A g \in Object : g # h /\ s.obj[g].type # "closed" => s.obj[g].at # at
    <3>1. Sharers(s, h) = {}
      BY <1>3
    <3> QED
      BY <2>3, <3>1, NoSharers
  <2> HIDE DEF D2
  <2> QED
    BY <2>1, <2>5, <2>6, MarkGood
<1> HIDE DEF D2, x, P
<1>4. State(u) /\ u.disk = D2 /\ u.lost = s.lost
  BY <1>1, DiskIs, Zenon
<1> HIDE DEF u
<1>5. State(v) /\ v.obj = x /\ v.disk = D2 /\ v.lost = s.lost
  BY <1>4, ObjIs
<1> HIDE DEF v
<1>6. State(t) /\ t.obj = x /\ t.disk = D2 /\ t.lost = (s.lost \/ P)
  BY <1>5, LostIs
<1> HIDE DEF t
<1>7. Fine(t)
  BY <1>3, <1>6, FineBy, Zenon
<1> QED
  BY <1>2, <1>7, Zenon

\* remove()
LEMMA RemoveFine ==
  ASSUME NEW s, NEW h \in Object, Fine(s)
  PROVE  AllFine(Remove(s, h))
<1> SUFFICES ASSUME NEW r \in Remove(s, h) PROVE Result(r) /\ Fine(r.s)
  BY Zenon DEF AllFine
<1>1. PICK q \in TruncateAll(s, h) :
        r \in (IF q.ok THEN Fault(q.s) \cup (Fault(Mark(q.s, h)) \cup Yes(Mark(q.s, h))) ELSE {q})
  BY DEF Remove, And, Access
<1>2. Result(q) /\ Fine(q.s) /\ (q.ok /\ ~q.s.lost => q.s.obj[h].type = "file")
  BY TruncateFine, Zenon DEF AllFine
<1>3. CASE ~q.ok
  BY <1>1, <1>2, <1>3
<1>4. CASE q.ok
  <2>1. Fine(Mark(q.s, h))
    BY <1>2, <1>4, MarkFine
  <2>2. AllFine(Fault(q.s)) /\ AllFine(Fault(Mark(q.s, h))) /\ AllFine(Yes(Mark(q.s, h)))
    BY <1>2, <2>1, FaultFine, YesFine, Zenon
  <2> QED
    BY <1>1, <1>4, <2>2 DEF AllFine
<1> QED
  BY <1>3, <1>4

\* The local object of remove() by name
LEMMA ChildIs == Child \in Local /\ Child \in Object
  BY ObjectAssumption DEF Child, Object

\* remove() by name
LEMMA RemoveNameFine ==
  ASSUME NEW s, NEW h \in Object, NEW g \in Object, NEW name \in Name \cup {Bad}, Fine(s),
         ~s.lost => Fit(s.obj[g])
  PROVE  AllFine(RemoveName(s, h, g, name))
<1> DEFINE O == Open(s, h, g, name, {"write"})
           R == And(O, LAMBDA t : Remove(t, h))
<1>1. AllFine(O)
  BY OpenFine, Zenon
<1> HIDE DEF O
<1>2. AllFine(R)
  <2> SUFFICES ASSUME NEW r \in R PROVE Result(r) /\ Fine(r.s)
    BY Zenon DEF AllFine
  <2>1. PICK q \in O : r \in (IF q.ok THEN Remove(q.s, h) ELSE {q})
    BY DEF And
  <2>2. Result(q) /\ Fine(q.s)
    BY <1>1 DEF AllFine
  <2>3. AllFine(Remove(q.s, h))
    BY <2>2, RemoveFine, Zenon
  <2> QED
    BY <2>1, <2>2, <2>3 DEF AllFine
<1>3. RemoveName(s, h, g, name) = Forget(R, h)
  BY DEF RemoveName, O
<1> HIDE DEF R
<1> QED
  BY <1>2, <1>3, ForgetFine, Zenon

\* rmDir()
LEMMA RmDirFine ==
  ASSUME NEW s, NEW h \in Object, Fine(s)
  PROVE  AllFine(RmDir(s, h))
<1> DEFINE o == [s.obj[h] EXCEPT !.type = "file", !.write = TRUE]
           x == [s.obj EXCEPT ![h] = o]
           t == [s EXCEPT !.obj = x]
           R == RmDir(s, h)
<1>1. AllFine(No(s)) /\ AllFine(Fault(s)) /\ State(s) /\ s.lost \in BOOLEAN
  BY NoFine, FaultFine, Zenon DEF Fine
<1>2. CASE s.obj[h].type # "dir"
  <2>1. R = No(s)
    BY <1>2 DEF RmDir
  <2> HIDE DEF R
  <2> QED
    BY <1>1, <2>1, Zenon DEF R
<1>3. CASE s.obj[h].type = "dir" /\ InUse(s, h)
  <2>1. R = Fault(s) \cup No(s)
    BY <1>3 DEF RmDir
  <2> HIDE DEF R
  <2>2. AllFine(R)
    BY <1>1, <2>1, BothFine, Zenon
  <2> QED
    BY <2>2 DEF R
<1>4. CASE s.obj[h].type = "dir" /\ ~InUse(s, h)
  <2>1. [s EXCEPT !.obj[h].type = "file", !.obj[h].write = TRUE] = t
    BY <1>1 DEF State
  <2>2. R = Fault(s) \cup Remove(t, h)
    BY <1>4, <2>1 DEF RmDir
  <2>3. ASSUME ~s.lost PROVE Good(s.disk, x)
    <3>1. Good(s.disk, s.obj) /\ s.obj \in Objects
      BY <2>3 DEF Fine, Good
    <3>2. s.obj[h] \in ObjectSet
      BY <3>1, ObjectIs
    <3>3. /\ o \in ObjectSet /\ o.type = "file" /\ o.node = s.obj[h].node /\ o.size = s.obj[h].size
          /\ o.at = s.obj[h].at /\ o.dirty = s.obj[h].dirty
      BY <3>2 DEF ObjectSet
    <3> HIDE DEF o
    <3> QED
      BY <1>4, <3>1, <3>3, TypedGood
  <2> HIDE DEF x, R
  <2>4. State(t) /\ t.obj = x /\ t.disk = s.disk /\ t.lost = s.lost
    BY <1>1, ObjIs, Zenon
  <2> HIDE DEF t
  <2>5. Fine(t)
    BY <1>1, <2>3, <2>4, Zenon DEF Fine
  <2>6. AllFine(Remove(t, h))
    BY <2>5, RemoveFine, Zenon
  <2>7. AllFine(R)
    BY <1>1, <2>2, <2>6, BothFine, Zenon
  <2> QED
    BY <2>7 DEF R
<1> QED
  BY <1>2, <1>3, <1>4

-----------------------------------------------------------------------------
\* The states that makeDir() goes through: the object is one of a directory, it has a
\* cluster, its entry has it, and is one of a directory.
AsDir(t, h) == [t EXCEPT !.obj[h].type = "dir", !.obj[h].write = FALSE]
Marked(t, h) == Put(t, t.obj[h].at, [At(t, t.obj[h].at) EXCEPT !.what = "dir"])
Dots(t, h, up) ==
  Put(Put(t, <<t.obj[h].node, 1>>, Slot(Dot, Bad, t.obj[h].node, 0)),
      <<t.obj[h].node, 2>>, Slot(DotDot, Bad, up, 0))

\* What '..' says of d; an object whose cluster is new, and one whose entry has it
Above(d) == IF d = Root THEN None ELSE d
DirAt(u, h, d, i) ==
  /\ u.obj[h].type = "dir" /\ u.obj[h].at = <<d, i>> /\ u.obj[h].node \in Node
  /\ d \in Chains /\ u.disk[u.obj[h].node][1] = FreeSlot
Grew(u, h, d, i) == DirAt(u, h, d, i) /\ u.obj[h].dirty /\ u.disk[d][i].what = "file"
Said(v, h, d, i, what) ==
  /\ DirAt(v, h, d, i) /\ ~v.obj[h].dirty /\ v.disk[d][i].what = what
  /\ v.disk[d][i].node = v.obj[h].node

LEMMA AsDirIs ==
  ASSUME NEW t, NEW h \in Object, State(t)
  PROVE  LET u == AsDir(t, h) IN
         /\ State(u) /\ u.disk = t.disk /\ u.lost = t.lost
         /\ u.obj = [t.obj EXCEPT ![h] = [@ EXCEPT !.type = "dir", !.write = FALSE]]
<1> DEFINE x == [t.obj EXCEPT ![h] = [@ EXCEPT !.type = "dir", !.write = FALSE]]
           u == [t EXCEPT !.obj = x]
<1>1. AsDir(t, h) = u
  BY DEF AsDir, State
<1> HIDE DEF x
<1>2. State(u) /\ u.obj = x /\ u.disk = t.disk /\ u.lost = t.lost
  BY ObjIs, Zenon
<1> HIDE DEF u
<1> QED
  BY <1>1, <1>2, Zenon DEF x

\* The first of them
LEMMA AsDirFine ==
  ASSUME NEW t, NEW h \in Object, NEW d, NEW i, Fine(t), ~t.lost => Fresh(t, h, d, i)
  PROVE  /\ Fine(AsDir(t, h)) /\ AsDir(t, h).lost = t.lost /\ AsDir(t, h).disk = t.disk
         /\ ~t.lost => /\ AsDir(t, h).obj[h] = [t.obj[h] EXCEPT !.type = "dir", !.write = FALSE]
                       /\ t.obj[h] \in ObjectSet /\ IsDir(AsDir(t, h).obj[h])
<1> DEFINE u == AsDir(t, h)
           o == [t.obj[h] EXCEPT !.type = "dir", !.write = FALSE]
<1>1. State(t) /\ t.lost \in BOOLEAN
  BY Zenon DEF Fine
<1>2. /\ State(u) /\ u.disk = t.disk /\ u.lost = t.lost /\ u.obj = [t.obj EXCEPT ![h] = o]
  BY <1>1, AsDirIs
<1> HIDE DEF u
<1>3. ASSUME ~t.lost
      PROVE  Good(t.disk, [t.obj EXCEPT ![h] = o]) /\ u.obj[h] = o /\ t.obj[h] \in ObjectSet /\ IsDir(o)
  <2>1. Good(t.disk, t.obj) /\ t.obj \in Objects /\ Fresh(t, h, d, i)
    BY <1>3 DEF Fine, Good
  <2>2. t.obj[h] \in ObjectSet /\ h \in DOMAIN t.obj
    BY <2>1, ObjectIs DEF Objects
  <2>3. /\ o \in ObjectSet /\ o.type = "dir" /\ o.node = t.obj[h].node /\ o.size = t.obj[h].size
        /\ o.at = t.obj[h].at /\ o.dirty = t.obj[h].dirty
    BY <2>2 DEF ObjectSet
  <2>4. /\ t.obj[h].type \in {"file", "dir"} /\ o.size = 0 /\ o.at = <<d, i>>
        /\ t.disk[o.at[1]][o.at[2]].what # "dir"
    <3>1. /\ t.obj[h].type \in {"file", "dir"} /\ t.obj[h].size = 0 /\ t.obj[h].at = <<d, i>>
          /\ t.disk[d][i].what # "dir"
      BY <2>1, Zenon DEF Fresh
    <3>2. <<d, i>>[1] = d /\ <<d, i>>[2] = i
      OBVIOUS
    <3> HIDE DEF o
    <3> QED
      BY <2>3, <3>1, <3>2, Zenon
  <2>5. u.obj[h] = o /\ IsDir(o)
    BY <1>2, <2>2, <2>3 DEF IsDir
  <2> HIDE DEF o
  <2> QED
    BY <2>1, <2>2, <2>3, <2>4, <2>5, TypedGood
<1>4. Fine(u)
  BY <1>1, <1>2, <1>3, Zenon DEF Fine
<1> QED
  BY <1>2, <1>3, <1>4 DEF u

\* ... its cluster
LEMMA GrewIs ==
  ASSUME NEW t, NEW u, NEW h \in Object, NEW d \in Chains, NEW i, Fine(t), ~t.lost, Fresh(t, h, d, i),
         Added(AsDir(t, h), h, u), Good(u.disk, u.obj)
  PROVE  Grew(u, h, d, i)
<1> DEFINE w == AsDir(t, h)
           o == w.obj[h]
           n == u.obj[h].node
<1>1. /\ w.disk = t.disk /\ o = [t.obj[h] EXCEPT !.type = "dir", !.write = FALSE]
      /\ t.obj[h] \in ObjectSet
  BY AsDirFine
<1>2. /\ t.obj[h].at = <<d, i>> /\ t.obj[h].node = None /\ t.obj[h].size = 0
      /\ t.disk[d][i].what = "file"
  BY DEF Fresh
<1>3. o.type = "dir" /\ o.at = <<d, i>> /\ o.node = None /\ o.size = 0 /\ o \in ObjectSet
  BY <1>1, <1>2 DEF ObjectSet
<1> HIDE DEF o, w
<1>4. /\ n \in Node /\ Len(u.disk[n]) = Slots
      /\ \A k \in 1 .. Len(u.disk[n]) : k > 0 => u.disk[n][k] = FreeSlot
      /\ \A x \in Chains : x # n => u.disk[x] = w.disk[x]
      /\ u.obj[h] = [o EXCEPT !.node = n, !.size = @ + Slots,
                             !.dirty = IF o.node = None THEN TRUE ELSE @]
  BY <1>3, SlotsAssumption DEF Added, w, o
<1>5. u.obj[h].type = "dir" /\ u.obj[h].at = <<d, i>> /\ u.obj[h].dirty
  BY <1>3, <1>4 DEF ObjectSet
<1>6. n # d
  <2>1. Placed(u.disk, u.obj, h)
    BY <1>5 DEF Good, Current
  <2> QED
    BY <1>5, <2>1 DEF Placed
<1>7. u.disk[d][i].what = "file"
  BY <1>1, <1>2, <1>4, <1>6
<1>8. u.disk[n][1] = FreeSlot
  BY <1>4, SlotsAssumption
<1> QED
  BY <1>4, <1>5, <1>7, <1>8 DEF Grew, DirAt

LEMMA ToldIs ==
  ASSUME NEW s, NEW h \in Object, Fine(s)
  PROVE  LET o == s.obj[h]
             e == [At(s, o.at) EXCEPT !.node = o.node, !.size = IF IsDir(o) THEN @ ELSE o.size]
             t == Told(s, h)
         IN /\ State(t) /\ t.lost = (s.lost \/ Sharers(s, h) # {})
            /\ t.disk = [s.disk EXCEPT ![o.at[1]][o.at[2]] = e]
            /\ t.obj = [s.obj EXCEPT ![h] = [o EXCEPT !.dirty = FALSE]]
<1> DEFINE o == s.obj[h]
           t == Told(s, h)
           e == [At(s, o.at) EXCEPT !.node = o.node, !.size = IF IsDir(o) THEN @ ELSE o.size]
           o2 == [o EXCEPT !.dirty = FALSE]
           P == Sharers(s, h) # {}
           u == Put(s, o.at, e)
<1>1. State(s) /\ State(u) /\ u.obj = s.obj /\ u.lost = s.lost
      /\ u.disk = [s.disk EXCEPT ![o.at[1]][o.at[2]] = e]
  BY DEF State, Fine, Put
<1>2. t = [u EXCEPT !.obj[h].dirty = FALSE, !.lost = @ \/ P]
  BY DEF Told
<1> HIDE DEF u, t, P
<1>3. t.lost = (s.lost \/ P)
  BY <1>1, <1>2 DEF State
<1>4. State(t) /\ t.disk = u.disk /\ t.obj = [u.obj EXCEPT ![h].dirty = FALSE]
  BY <1>1, <1>2 DEF State
<1>5. [u.obj EXCEPT ![h].dirty = FALSE] = [s.obj EXCEPT ![h] = o2]
  BY <1>1
<1> QED
  BY <1>1, <1>3, <1>4, <1>5 DEF t, P

\* ... its entry, which sync() writes
LEMMA SaidIs ==
  ASSUME NEW u, NEW h \in Object, NEW d, NEW i, Fine(u), ~u.lost, Grew(u, h, d, i)
  PROVE  Said(Told(u, h), h, d, i, "file")
<1> DEFINE o == u.obj[h]
           n == o.node
           e == [At(u, o.at) EXCEPT !.node = o.node, !.size = IF IsDir(o) THEN @ ELSE o.size]
           t == Told(u, h)
           o2 == [o EXCEPT !.dirty = FALSE]
<1>1. Good(u.disk, u.obj) /\ u.disk \in Disks /\ u.obj \in Objects
  BY DEF Fine, Good
<1>2. /\ o.type = "dir" /\ o.at = <<d, i>> /\ n \in Node /\ d \in Chains /\ o.dirty
      /\ u.disk[n][1] = FreeSlot /\ u.disk[d][i].what = "file"
  BY DEF Grew, DirAt
<1>3. i \in 1 .. Len(u.disk[d]) /\ n # d /\ n \in Chains /\ Len(u.disk[n]) > 0
  <2>1. Placed(u.disk, u.obj, h)
    BY <1>1, <1>2, DirtyIs
  <2>2. n # None
    BY <1>2, NodeAssumption
  <2> QED
    BY <1>2, <2>1, <2>2 DEF Placed, Entry, Chains
<1>4. u.disk[d][i] \in SlotSet /\ At(u, o.at) = u.disk[d][i]
  BY <1>1, <1>2, <1>3, CellIs DEF At
<1>5. e \in SlotSet /\ e.what = "file" /\ e.node = n
  <2>1. IsDir(o)
    BY <1>2 DEF IsDir
  <2>2. e = [u.disk[d][i] EXCEPT !.node = n]
    BY <1>4, <2>1 DEF SlotSet
  <2> QED
    BY <1>2, <1>4, <2>2 DEF SlotSet
<1>6. o \in ObjectSet
  BY <1>1, ObjectIs
<1>7. o2 \in ObjectSet /\ o2.type = "dir" /\ o2.at = <<d, i>> /\ o2.node = n /\ ~o2.dirty
  BY <1>2, <1>6 DEF ObjectSet
<1>8. t.disk = [u.disk EXCEPT ![d][i] = e] /\ t.obj = [u.obj EXCEPT ![h] = o2]
  <2>1. t.disk = [u.disk EXCEPT ![o.at[1]][o.at[2]] = e] /\ t.obj = [u.obj EXCEPT ![h] = o2]
    BY ToldIs, Zenon
  <2>2. o.at[1] = d /\ o.at[2] = i
    BY <1>2
  <2> HIDE DEF e, o2, t, o
  <2> QED
    BY <2>1, <2>2
<1> HIDE DEF e, o2, t
<1>9. PutAs(u.disk, t.disk, d, i, e)
  BY <1>1, <1>2, <1>3, <1>5, <1>8, PutIs
<1>10. t.obj[h] = o2
  BY <1>1, <1>7, <1>8, SetIs
<1>11. Len(u.disk[n]) \in Nat
  BY <1>1, <1>3, CellIs
<1>12. t.disk[d][i] = e /\ t.disk[n][1] = u.disk[n][1]
  BY <1>3, <1>9, <1>11 DEF PutAs
<1>13. /\ t.obj[h].type = "dir" /\ t.obj[h].at = <<d, i>> /\ t.obj[h].node = n /\ n \in Node
       /\ ~t.obj[h].dirty
  BY <1>2, <1>7, <1>10
<1>14. DirAt(t, h, d, i)
  BY <1>2, <1>12, <1>13 DEF DirAt
<1>15. Said(t, h, d, i, "file")
  BY <1>5, <1>12, <1>13, <1>14 DEF Said
<1> QED
  BY <1>15 DEF t

\* ... and which becomes one of a directory
LEMMA MarkedFine ==
  ASSUME NEW v, NEW h \in Object, NEW d, NEW i, Fine(v), ~v.lost => Said(v, h, d, i, "file")
  PROVE  /\ Fine(Marked(v, h)) /\ Marked(v, h).lost = v.lost
         /\ ~v.lost => Said(Marked(v, h), h, d, i, "dir") /\ Entry(Marked(v, h).disk, d, i)
<1> DEFINE at == v.obj[h].at
           n == v.obj[h].node
           e == [At(v, at) EXCEPT !.what = "dir"]
           D2 == [v.disk EXCEPT ![at[1]][at[2]] = e]
           w == [v EXCEPT !.disk = D2]
<1>1. State(v) /\ v.lost \in BOOLEAN
  BY Zenon DEF Fine
<1>2. Marked(v, h) = w
  BY <1>1 DEF Marked, Put, State
<1>3. ASSUME ~v.lost
      PROVE  /\ Good(D2, v.obj)
             /\ ~v.obj[h].dirty /\ v.obj[h].type = "dir" /\ at = <<d, i>> /\ d \in Chains /\ n \in Node
             /\ D2[d][i].what = "dir" /\ D2[d][i].node = n /\ D2[n][1] = FreeSlot
             /\ Entry(D2, d, i)
  <2>1. Good(v.disk, v.obj) /\ v.disk \in Disks /\ v.obj \in Objects
    BY <1>3 DEF Fine, Good
  <2>2. /\ v.obj[h].type = "dir" /\ at = <<d, i>> /\ n \in Node /\ d \in Chains /\ ~v.obj[h].dirty
        /\ v.disk[n][1] = FreeSlot /\ v.disk[d][i].what = "file" /\ v.disk[d][i].node = n
    BY <1>3 DEF Said, DirAt
  <2>3. n # None
    BY <2>2, NodeAssumption
  <2>4. i \in 1 .. Len(v.disk[d]) /\ n # d /\ n \in Chains /\ Len(v.disk[n]) > 0
    <3>1. Placed(v.disk, v.obj, h)
      BY <2>1, <2>2 DEF Good, Current
    <3> QED
      BY <2>2, <2>3, <3>1 DEF Placed, Entry, Chains
  <2>5. v.disk[d][i] \in SlotSet /\ At(v, at) = v.disk[d][i]
    BY <2>1, <2>2, <2>4, CellIs DEF At
  <2>6. e \in SlotSet /\ e.what = "dir" /\ e.node = n /\ e.name = v.disk[d][i].name
    BY <2>2, <2>5 DEF SlotSet
  <2>7. D2 = [v.disk EXCEPT ![d][i] = e]
    BY <2>2
  <2> HIDE DEF e, D2
  <2>8. PutAs(v.disk, D2, d, i, e)
    BY <2>1, <2>2, <2>4, <2>6, <2>7, PutIs
  <2>9. v.disk[n][1].what # Dot
    BY <2>2 DEF FreeSlot, Blank, Slot, Dot
  <2>10. PutAs(v.disk, D2, v.obj[h].at[1], v.obj[h].at[2], e)
    BY <2>2, <2>8
  <2>11. /\ e.name = v.disk[v.obj[h].at[1]][v.obj[h].at[2]].name
         /\ e.node = v.disk[v.obj[h].at[1]][v.obj[h].at[2]].node
    BY <2>2, <2>6
  <2>12. Good(D2, v.obj)
    BY <2>1, <2>2, <2>3, <2>6, <2>9, <2>10, <2>11, MarkedGood
  <2>13. Len(v.disk[n]) \in Nat
    BY <2>1, <2>4, CellIs
  <2>14. D2[d][i] = e /\ D2[n][1] = v.disk[n][1] /\ Entry(D2, d, i)
    BY <2>2, <2>4, <2>6, <2>8, <2>13 DEF PutAs, Entry, IsUsed
  <2> QED
    BY <2>2, <2>6, <2>12, <2>14
<1> HIDE DEF D2
<1>4. State(w) /\ w.disk = D2 /\ w.obj = v.obj /\ w.lost = v.lost
  BY <1>1, DiskIs, Zenon
<1> HIDE DEF w
<1>5. Fine(w)
  BY <1>1, <1>3, <1>4, Zenon DEF Fine
<1>6. ~v.lost => Said(w, h, d, i, "dir") /\ Entry(w.disk, d, i)
  BY <1>3, <1>4 DEF Said, DirAt
<1> QED
  BY <1>2, <1>4, <1>5, <1>6, Zenon

\* '.' and '..' are two steps: one slot after the other.
LEMMA DotsFine ==
  ASSUME NEW w, NEW h \in Object, NEW d, NEW i, NEW up, Fine(w),
         ~w.lost => up = Above(d) /\ Said(w, h, d, i, "dir") /\ Entry(w.disk, d, i)
  PROVE  Fine(Dots(w, h, up))
<1> DEFINE n == w.obj[h].node
           e1 == Slot(Dot, Bad, n, 0)
           e2 == Slot(DotDot, Bad, up, 0)
           D1 == [w.disk EXCEPT ![n][1] = e1]
           D2 == [D1 EXCEPT ![n][2] = e2]
           x == [w EXCEPT !.disk = D1]
           y == [x EXCEPT !.disk = D2]
<1>1. State(w) /\ w.lost \in BOOLEAN
  BY Zenon DEF Fine
<1>2. Dots(w, h, up) = y
  BY <1>1 DEF Dots, Put, State
<1>3. ASSUME ~w.lost PROVE Good(D2, w.obj)
  <2>1. Good(w.disk, w.obj) /\ w.disk \in Disks
    BY <1>3 DEF Fine, Good
  <2>2. /\ n \in Node /\ d \in Chains /\ w.disk[n][1] = FreeSlot
        /\ w.disk[d][i].what = "dir" /\ w.disk[d][i].node = n /\ Entry(w.disk, d, i)
    BY <1>3 DEF Said, DirAt
  <2>3. n \in Chains /\ Len(w.disk[n]) > 0
    <3>1. n # None
      BY <2>2, NodeAssumption
    <3> QED
      BY <2>1, <2>2, <3>1, EntryIs DEF Chains
  <2>4. Len(w.disk[n]) \in Nat /\ Len(w.disk[n]) >= 2
    BY <2>1, <2>3, CellIs
  <2>5. e1 \in SlotSet /\ e2 \in SlotSet
    <3>1. up \in Node \cup {None}
      BY <1>3, <2>2 DEF Above, Chains
    <3> QED
      BY <2>2, <3>1 DEF Slot, SlotSet
  <2>6. 1 \in 1 .. Len(w.disk[n]) /\ 2 \in 1 .. Len(w.disk[n])
    BY <2>4
  <2> HIDE DEF e1, e2
  <2>7. PutAs(w.disk, D1, n, 1, e1)
    BY <2>1, <2>3, <2>5, <2>6, PutIs
  <2> HIDE DEF D1
  <2>8. D1 \in Disks /\ 2 \in 1 .. Len(D1[n])
    BY <2>3, <2>6, <2>7 DEF PutAs
  <2>9. PutAs(D1, D2, n, 2, e2)
    BY <2>3, <2>5, <2>8, PutIs
  <2> HIDE DEF D2
  <2>10. /\ \A z \in Chains : Len(D2[z]) = Len(w.disk[z])
         /\ \A z \in Chains : \A k \in 1 .. Len(w.disk[z]) : z # n \/ k \notin {1, 2} => D2[z][k] = w.disk[z][k]
         /\ D2[n][1] = e1 /\ D2[n][2] = e2 /\ D2 \in Disks
    BY <2>3, <2>6, <2>7, <2>9 DEF PutAs
  <2>11. w.disk[n][1].what = "free"
    BY <2>2 DEF FreeSlot, Blank, Slot
  <2>12. D2[n][1] = Slot(Dot, Bad, n, 0) /\ D2[n][2] = Slot(DotDot, Bad, IF d = Root THEN None ELSE d, 0)
    BY <1>3, <2>10 DEF e1, e2, Above
  <2> HIDE DEF n
  <2> QED
    BY <2>1, <2>2, <2>10, <2>11, <2>12, DotsGood
<1> HIDE DEF D1, D2
<1>4. State(x) /\ x.obj = w.obj /\ x.lost = w.lost
  BY <1>1, DiskIs, Zenon
<1> HIDE DEF x
<1>5. State(y) /\ y.disk = D2 /\ y.obj = w.obj /\ y.lost = w.lost
  BY <1>4, DiskIs
<1> HIDE DEF y
<1>6. Fine(y)
  BY <1>1, <1>3, <1>5, Zenon DEF Fine
<1> QED
  BY <1>2, <1>6, Zenon

\* The end of makeDir(), behind the sync() of its object
Ended(v, h, up) ==
  Fault(v) \cup (Fault(Marked(v, h))
             \cup (Fault(Dots(Marked(v, h), h, up)) \cup Yes(Dots(Marked(v, h), h, up))))

LEMMA EndedFine ==
  ASSUME NEW v, NEW h \in Object, NEW d, NEW i, NEW up, Fine(v),
         ~v.lost => up = Above(d) /\ Said(v, h, d, i, "file")
  PROVE  AllFine(Ended(v, h, up))
<1> DEFINE w == Marked(v, h)
           x == Dots(w, h, up)
<1>1. Fine(w) /\ w.lost = v.lost /\ (~v.lost => Said(w, h, d, i, "dir") /\ Entry(w.disk, d, i))
  BY MarkedFine
<1> HIDE DEF w
<1>2. Fine(x)
  BY <1>1, DotsFine
<1> HIDE DEF x
<1>3. AllFine(Fault(v)) /\ AllFine(Fault(w)) /\ AllFine(Fault(x)) /\ AllFine(Yes(x))
  BY <1>1, <1>2, FaultFine, YesFine, Zenon
<1>4. AllFine(Fault(v) \cup (Fault(w) \cup (Fault(x) \cup Yes(x))))
  <2>1. AllFine(Fault(x) \cup Yes(x))
    BY <1>3, BothFine, Zenon
  <2>2. AllFine(Fault(w) \cup (Fault(x) \cup Yes(x)))
    BY <1>3, <2>1, BothFine, Zenon
  <2> QED
    BY <1>3, <2>2, BothFine, Zenon
<1> QED
  BY <1>4, Zenon DEF Ended, w, x

\* What a sync() that went well leaves of an object that it had to write
LEMMA SyncedIs ==
  ASSUME NEW u, NEW h \in Object, NEW q \in Sync(u, h), Fine(u), q.ok, u.obj[h].dirty, IsOpen(u.obj[h])
  PROVE  q.s = Told(u, h)
<1>1. q \in Fault(u) \cup (Fault(Told(u, h)) \cup Yes(Told(u, h)))
  BY SyncIs, Zenon
<1>2. q \notin Fault(u) /\ q \notin Fault(Told(u, h))
  BY FaultFine, ToldFine, Zenon
<1>3. q \in Yes(Told(u, h))
  BY <1>1, <1>2, Zenon
<1> QED
  BY <1>3 DEF Yes

\* makeDir(), step by step
LEMMA MakeDirIs ==
  ASSUME NEW s, NEW h, NEW g, NEW name, NEW r \in MakeDir(s, h, g, name)
  PROVE  \E t \in Open(s, h, g, name, {"creat", "excl", "read", "write"}) :
           \/ ~t.ok /\ r = t
           \/ t.ok /\ \E u \in AddDirCluster(AsDir(t.s, h), h) :
                \/ ~u.ok /\ r = u
                \/ u.ok /\ \E v \in Sync(u.s, h) :
                     \/ ~v.ok /\ r = v
                     \/ v.ok /\ r \in Ended(v.s, h, Up(s, g))
<1> DEFINE F(v) == Ended(v, h, Up(s, g))
<1>1. MakeDir(s, h, g, name) =
        And(Open(s, h, g, name, {"creat", "excl", "read", "write"}), LAMBDA t :
        And(AddDirCluster(AsDir(t, h), h), LAMBDA u :
        And(Sync(u, h), F)))
  BY Zenon DEF MakeDir, AsDir, Access, Ended, Marked, Dots
<1> HIDE DEF F
<1>2. PICK t \in Open(s, h, g, name, {"creat", "excl", "read", "write"}) :
        r \in (IF t.ok THEN And(AddDirCluster(AsDir(t.s, h), h), LAMBDA u : And(Sync(u, h), F)) ELSE {t})
  BY <1>1, Zenon DEF And
<1>3. CASE ~t.ok
  BY <1>2, <1>3
<1>4. CASE t.ok
  <2>1. PICK u \in AddDirCluster(AsDir(t.s, h), h) : r \in (IF u.ok THEN And(Sync(u.s, h), F) ELSE {u})
    BY <1>2, <1>4, Zenon DEF And
  <2>2. CASE ~u.ok
    BY <1>2, <1>4, <2>1, <2>2
  <2>3. CASE u.ok
    <3>1. PICK v \in Sync(u.s, h) : r \in (IF v.ok THEN F(v.s) ELSE {v})
      BY <2>1, <2>3, Zenon DEF And
    <3>2. (~v.ok /\ r = v) \/ (v.ok /\ r \in Ended(v.s, h, Up(s, g)))
      BY <3>1 DEF F
    <3>3. \E w \in Sync(u.s, h) :
            \/ ~w.ok /\ r = w
            \/ w.ok /\ r \in Ended(w.s, h, Up(s, g))
      BY <3>1, <3>2, Zenon
    <3>4. \E w \in AddDirCluster(AsDir(t.s, h), h) :
            \/ ~w.ok /\ r = w
            \/ w.ok /\ \E v2 \in Sync(w.s, h) :
                 \/ ~v2.ok /\ r = v2
                 \/ v2.ok /\ r \in Ended(v2.s, h, Up(s, g))
      BY <2>1, <2>3, <3>3, Zenon
    <3> QED
      BY <1>2, <1>4, <3>4, Zenon
  <2> QED
    BY <2>2, <2>3
<1> QED
  BY <1>3, <1>4

\* makeDir()
LEMMA MakeDirFine ==
  ASSUME NEW s, NEW h \in Object, NEW g \in Object, NEW name \in Name \cup {Bad}, Fine(s),
         ~s.lost => Fit(s.obj[g])
  PROVE  AllFine(MakeDir(s, h, g, name))
<1> DEFINE M == {"creat", "excl", "read", "write"}
<1>1. /\ AllFine(Open(s, h, g, name, M))
      /\ \A t \in Open(s, h, g, name, M) : t.ok /\ ~t.s.lost => ~s.lost /\ Begun(s, h, g, t.s)
  <2>1. {"creat", "excl"} \subseteq M /\ "trunc" \notin M
    OBVIOUS
  <2> HIDE DEF M
  <2> QED
    BY <2>1, OpenFine
<1> SUFFICES ASSUME NEW r \in MakeDir(s, h, g, name) PROVE Result(r) /\ Fine(r.s)
  BY Zenon DEF AllFine
<1>2. PICK t \in Open(s, h, g, name, M) :
        \/ ~t.ok /\ r = t
        \/ t.ok /\ \E u \in AddDirCluster(AsDir(t.s, h), h) :
             \/ ~u.ok /\ r = u
             \/ u.ok /\ \E v \in Sync(u.s, h) :
                  \/ ~v.ok /\ r = v
                  \/ v.ok /\ r \in Ended(v.s, h, Up(s, g))
  BY MakeDirIs
<1> HIDE DEF M
<1>3. Result(t) /\ Fine(t.s) /\ (t.ok /\ ~t.s.lost => Begun(s, h, g, t.s))
  BY <1>1, Zenon DEF AllFine
<1>4. CASE ~t.ok
  BY <1>2, <1>3, <1>4
<1>5. CASE t.ok
  <2> DEFINE w == AsDir(t.s, h)
  <2>1. PICK u \in AddDirCluster(w, h) :
          \/ ~u.ok /\ r = u
          \/ u.ok /\ \E v \in Sync(u.s, h) :
               \/ ~v.ok /\ r = v
               \/ v.ok /\ r \in Ended(v.s, h, Up(s, g))
    BY <1>2, <1>5
  <2>2. \E d \in Chains, i \in Nat :
          ~t.s.lost => Fresh(t.s, h, d, i) /\ Up(s, g) = Above(d)
    <3>1. CASE t.s.lost
      <4>1. Root \in Chains /\ 0 \in Nat
        BY DEF Chains
      <4> QED
        BY <3>1, <4>1
    <3>2. CASE ~t.s.lost
      BY <1>3, <1>5, <3>2 DEF Begun, Above
    <3> QED
      BY <3>1, <3>2
  <2>3. PICK d \in Chains, i \in Nat : ~t.s.lost => Fresh(t.s, h, d, i) /\ Up(s, g) = Above(d)
    BY <2>2
  <2>4. /\ Fine(w) /\ w.lost = t.s.lost
        /\ ~w.lost => IsDir(w.obj[h]) /\ Fit(w.obj[h])
    <3>1. Fine(w) /\ w.lost = t.s.lost /\ (~t.s.lost => IsDir(w.obj[h]))
      BY <1>3, <2>3, AsDirFine, Zenon
    <3> HIDE DEF w
    <3> QED
      BY <3>1 DEF IsDir, Fit, IsOpen
  <2>5. /\ Result(u) /\ Fine(u.s)
        /\ u.ok /\ ~u.s.lost => ~w.lost /\ Added(w, h, u.s)
    <3>1. ~w.lost => Fit(w.obj[h]) /\ (IsDir(w.obj[h]) \/ w.obj[h].size = 0)
      BY <2>4
    <3> HIDE DEF w
    <3>2. /\ AllFine(AddDirCluster(w, h))
          /\ \A q \in AddDirCluster(w, h) : q.ok /\ ~q.s.lost => ~w.lost /\ Added(w, h, q.s)
      BY <2>4, <3>1, AddFine, Zenon
    <3> QED
      BY <3>2, Zenon DEF AllFine
  <2>6. CASE ~u.ok
    BY <2>1, <2>5, <2>6
  <2>7. CASE u.ok
    <3>1. PICK v \in Sync(u.s, h) : (~v.ok /\ r = v) \/ (v.ok /\ r \in Ended(v.s, h, Up(s, g)))
      BY <2>1, <2>7
    <3>2. Result(v) /\ Fine(v.s)
      BY <2>5, SyncFine, Zenon DEF AllFine
    <3>3. CASE ~v.ok
      BY <3>1, <3>2, <3>3
    <3>4. CASE v.ok /\ ~u.s.lost
      <4>1. ~t.s.lost /\ Added(w, h, u.s) /\ Fresh(t.s, h, d, i) /\ Up(s, g) = Above(d)
        BY <2>3, <2>4, <2>5, <2>7, <3>4
      <4>2. Good(u.s.disk, u.s.obj)
        BY <2>5, <3>4, Zenon DEF Fine
      <4>3. Grew(u.s, h, d, i)
        BY <1>3, <4>1, <4>2, GrewIs, Zenon
      <4>4. Said(Told(u.s, h), h, d, i, "file")
        BY <2>5, <3>4, <4>3, SaidIs
      <4>5. u.s.obj[h].dirty /\ IsOpen(u.s.obj[h])
        BY <4>3 DEF Grew, DirAt, IsOpen
      <4>6. v.s = Told(u.s, h)
        BY <2>5, <3>4, <4>5, SyncedIs, Zenon
      <4>7. AllFine(Ended(v.s, h, Up(s, g)))
        BY <3>2, <4>1, <4>4, <4>6, EndedFine
      <4> QED
        BY <3>1, <3>4, <4>7, Zenon DEF AllFine
    <3>5. CASE v.ok /\ u.s.lost
      <4>1. v.s.lost
        <5>1. State(u.s) /\ u.s.lost = TRUE
          BY <2>5, <3>5 DEF Fine
        <5> QED
          BY <5>1, <3>5, SyncLost
      <4>2. AllFine(Ended(v.s, h, Up(s, g)))
        BY <3>2, <4>1, EndedFine
      <4> QED
        BY <3>1, <3>5, <4>2, Zenon DEF AllFine
    <3> QED
      BY <3>3, <3>4, <3>5
  <2> QED
    BY <2>6, <2>7
<1> QED
  BY <1>4, <1>5

-----------------------------------------------------------------------------
(***************************************************************************)
(* The calls                                                               *)
(***************************************************************************)
Sound == lost \in BOOLEAN /\ (~lost => Good(disk, obj))

LEMMA HandleIs == ASSUME NEW h \in Handle PROVE h \in Object
  BY DEF Object

LEMMA NowIs ==
  ASSUME Sound
  PROVE  /\ Fine(Now) /\ Now.disk = disk /\ Now.obj = obj /\ Now.lost = lost
<1>1. Now.disk = disk /\ Now.obj = obj /\ Now.lost = lost /\ State(Now)
  BY DEF Now, State
<1> QED
  BY <1>1, Zenon DEF Fine, Sound

\* The call is over, and its local objects are.
LEMMA ReturnsSound ==
  ASSUME NEW s, Fine(s), disk' = s.disk, lost' = s.lost,
         obj' = [h \in Object |-> IF h \in Local THEN Closed ELSE s.obj[h]]
  PROVE  Sound'
<1>1. ~s.lost => Good(s.disk, [h \in Object |-> IF h \in Local THEN Closed ELSE s.obj[h]])
  BY ClosedGood, Zenon DEF Fine
<1>2. lost' \in BOOLEAN /\ (~lost' => Good(disk', obj'))
  BY <1>1, Zenon DEF Fine
<1> QED
  BY <1>2, Zenon DEF Sound

LEMMA ResultsSound ==
  ASSUME NEW R, AllFine(R), NEW r \in R, NEW call, NEW path, NEW value, Returns(r, call, path, value)
  PROVE  Sound'
  BY ReturnsSound, Zenon DEF AllFine, Returns

LEMMA DoesSound == ASSUME NEW R, AllFine(R), Does(R) PROVE Sound'
  BY ResultsSound, Zenon DEF Does
LEMMA RemovesSound == ASSUME NEW R, NEW call, AllFine(R), Removes(R, call) PROVE Sound'
  BY ResultsSound, Zenon DEF Removes

LEMMA OpenedIs ==
  ASSUME NEW h \in Handle, OpenedWell(h), Sound
  PROVE  Fit(Now.obj[h]) /\ ~lost
<1>1. ~lost /\ Now.obj[h] = obj[h] /\ IsOpen(obj[h]) /\ obj[h] # Half
  BY NowIs, Zenon DEF Opened, OpenedWell, Ready
<1>2. Current(disk, obj, h)
  BY <1>1, HandleIs, Zenon DEF Sound, Good
<1>3. obj[h].type # "half"
  BY <1>1, <1>2, Zenon DEF Current
<1> QED
  BY <1>1, <1>3, Zenon DEF Fit

\* write()
LEMMA WriteSound == ASSUME Sound, WriteData PROVE Sound'
<1>1. PICK h \in Handle :
        /\ Opened(h) /\ obj[h].type = "file" /\ obj[h].write /\ obj[h].node = None
        /\ \E n \in Unused(Now) :
             /\ disk' = [disk EXCEPT ![n] = Cluster(Blank("data"))]
             /\ obj' = [obj EXCEPT ![h].node = n, ![h].size = Slots, ![h].dirty = TRUE]
             /\ lost' = (Sharers(Now, h) # {})
  BY DEF WriteData
<1>2. PICK n \in Unused(Now) :
        /\ disk' = [disk EXCEPT ![n] = Cluster(Blank("data"))]
        /\ obj' = [obj EXCEPT ![h].node = n, ![h].size = Slots, ![h].dirty = TRUE]
        /\ lost' = (Sharers(Now, h) # {})
  BY <1>1
<1> DEFINE c == Cluster(Blank("data"))
           o == [obj[h] EXCEPT !.node = n, !.size = Slots, !.dirty = TRUE]
<1>3. h \in Object /\ ~lost /\ Good(disk, obj) /\ obj \in Objects
  BY <1>1, HandleIs DEF Opened, Ready, Sound, Good
<1>4. obj' = [obj EXCEPT ![h] = o]
  BY <1>2
<1>5. obj[h] \in ObjectSet
  BY <1>3, ObjectIs
<1>6. n \in Node /\ disk[n] = <<>> /\ \A g \in Object : obj[g].node # n
  BY NowIs DEF Unused
<1>7. c \in Seq(SlotSet) /\ Len(c) = Slots /\ Slots \in Nat /\ Slots >= 2
      /\ \A k \in 1 .. Len(c) : ~IsUsed(c[k]) /\ c[k].what # Dot
  BY SlotsAssumption DEF Cluster, Blank, Slot, SlotSet, IsUsed, Dot
<1>8. /\ o \in ObjectSet /\ o.type = obj[h].type /\ o.at = obj[h].at /\ o.node = n /\ o.dirty
      /\ o.size = Len(c)
  BY <1>5, <1>6, <1>7 DEF ObjectSet
<1>9. obj[h].type \in {"file", "dir"} /\ obj[h].node = None
  BY <1>1
<1> HIDE DEF o, c
<1>10. Good([disk EXCEPT ![n] = c], [obj EXCEPT ![h] = o])
  BY <1>3, <1>6, <1>7, <1>8, <1>9, FirstGood
<1>11. disk' = [disk EXCEPT ![n] = c]
  BY <1>2 DEF c
<1>12. Good(disk', obj')
  BY <1>4, <1>10, <1>11, Zenon
<1>13. lost' \in BOOLEAN
  BY <1>2
<1> QED
  BY <1>12, <1>13, Zenon DEF Sound

\* readDir()
LEMMA ReadDirSound == ASSUME Sound, CallReadDir PROVE Sound'
<1>1. PICK h \in Handle, i \in 0 .. ClusterCount * Slots :
        \E r \in ReadDir(Now, h, i) : r.ok /\ Returns(r, "readDir", <<obj[h].node, i>>, r.at)
  BY DEF CallReadDir
<1>2. PICK r \in ReadDir(Now, h, i) : r.ok /\ Returns(r, "readDir", <<obj[h].node, i>>, r.at)
  BY <1>1
<1>3. r.s = Now
  <2>1. \E x : ReadDir(Now, h, i) = {[s |-> q.s, ok |-> FALSE, at |-> 0] : q \in Fault(Now)}
                                   \cup {[s |-> Now, ok |-> TRUE, at |-> x]}
    BY Zenon DEF ReadDir
  <2>2. PICK x : r \in {[s |-> q.s, ok |-> FALSE, at |-> 0] : q \in Fault(Now)}
                     \cup {[s |-> Now, ok |-> TRUE, at |-> x]}
    BY <1>2, <2>1
  <2> QED
    BY <1>2, <2>2
<1>4. Fine(r.s)
  BY <1>3, NowIs, Zenon
<1> QED
  BY <1>2, <1>4, ReturnsSound, Zenon DEF Returns

-----------------------------------------------------------------------------
\* The empty volume is sound, and each step keeps it so.
LEMMA InitSound == Init => Sound
<1> SUFFICES ASSUME Init PROVE Sound
  OBVIOUS
<1>1. /\ \A d \in Chains : disk[d] = IF d = Root THEN Cluster(FreeSlot) ELSE <<>>
      /\ DOMAIN disk = Chains /\ disk = [d \in Chains |-> disk[d]]
  BY DEF Init, Chains
<1>2. obj = [h \in Object |-> Closed]
  BY DEF Init
<1>3. /\ Cluster(FreeSlot) \in Seq(SlotSet) /\ Len(Cluster(FreeSlot)) = Slots /\ Slots >= 2
      /\ \A k \in 1 .. Slots : ~IsUsed(Cluster(FreeSlot)[k])
  BY SlotsAssumption DEF Cluster, FreeSlot, Blank, Slot, SlotSet, IsUsed
<1>4. \A d \in Chains : disk[d] \in Seq(SlotSet) /\ (Len(disk[d]) = 0 \/ Len(disk[d]) >= 2)
  <2> SUFFICES ASSUME NEW d \in Chains
               PROVE  disk[d] \in Seq(SlotSet) /\ (Len(disk[d]) = 0 \/ Len(disk[d]) >= 2)
    OBVIOUS
  <2>1. CASE d = Root
    <3>1. disk[d] = Cluster(FreeSlot)
      BY <1>1, <2>1, Zenon
    <3> QED
      BY <1>3, <3>1
  <2>2. CASE d # Root
    <3>1. disk[d] = <<>>
      BY <1>1, <2>2, Zenon
    <3> QED
      BY <3>1
  <2> QED
    BY <2>1, <2>2
<1>5. disk \in Disks
  BY <1>1, <1>4 DEF Disks
<1>6. \A d \in Chains : \A i \in 1 .. Len(disk[d]) : ~IsUsed(disk[d][i])
  BY <1>1, <1>3
<1>7. Whole(disk) /\ Apart(disk) /\ Linked(disk)
  BY <1>6, Zenon DEF Whole, Apart, Linked
<1>8. Closed \in ObjectSet
  BY DEF Closed, ObjectSet
<1>9. obj \in Objects
  BY <1>2, <1>8 DEF Objects
<1>10. \A h \in Object : Current(disk, obj, h)
  <2>1. Closed.type = "closed"
    BY DEF Closed
  <2> QED
    BY <1>2, <2>1 DEF Current, IsRoot, IsDir
<1>11. lost = FALSE
  BY DEF Init
<1>12. Good(disk, obj)
  BY <1>5, <1>7, <1>9, <1>10, Zenon DEF Good
<1> QED
  BY <1>11, <1>12, Zenon DEF Sound

LEMMA StepSound == Sound /\ [Next]_vars => Sound'
<1> SUFFICES ASSUME Sound, [Next]_vars PROVE Sound'
  OBVIOUS
<1>1. Fine(Now)
  BY NowIs, Zenon
<1>2. CASE CallOpenRoot
  <2>1. PICK h \in Handle, t \in RootTypes : Does(OpenRoot(Now, h, t))
    BY <1>2, Zenon DEF CallOpenRoot
  <2> QED
    BY <1>1, <2>1, HandleIs, OpenRootFine, DoesSound, Zenon
<1>3. CASE CallClose
  <2>1. PICK h \in Handle : Does(Close(Now, h))
    BY <1>3, Zenon DEF CallClose
  <2> QED
    BY <1>1, <2>1, HandleIs, CloseFine, DoesSound, Zenon
<1>4. CASE CallSync
  <2>1. PICK h \in Handle : Does(Sync(Now, h))
    BY <1>4, Zenon DEF CallSync
  <2> QED
    BY <1>1, <2>1, HandleIs, SyncFine, DoesSound, Zenon
<1>5. CASE CallOpen
  <2>1. PICK h \in Handle, g \in Handle, n \in Name \cup {Bad}, m \in Flags :
          OpenedWell(g) /\ Does(Open(Now, h, g, n, m))
    BY <1>5, Zenon DEF CallOpen
  <2>2. AllFine(Open(Now, h, g, n, m))
    BY <1>1, <2>1, HandleIs, OpenedIs, OpenFine, Zenon
  <2> QED
    BY <2>1, <2>2, DoesSound, Zenon
<1>6. CASE CallOpenAt
  <2>1. PICK h \in Handle, g \in Handle, i \in 0 .. ClusterCount * Slots, m \in Flags :
          Does(OpenAt(Now, h, g, i, m))
    BY <1>6, Zenon DEF CallOpenAt
  <2>2. i \in Nat
    BY SlotsAssumption
  <2>3. AllFine(OpenAt(Now, h, g, i, m))
    BY <1>1, <2>2, HandleIs, OpenAtFine, Zenon
  <2> QED
    BY <2>1, <2>3, DoesSound, Zenon
<1>7. CASE CallMakeDir
  <2>1. PICK h \in Handle, g \in Handle, n \in Name \cup {Bad} :
          OpenedWell(g) /\ Does(MakeDir(Now, h, g, n))
    BY <1>7, Zenon DEF CallMakeDir
  <2>2. AllFine(MakeDir(Now, h, g, n))
    BY <1>1, <2>1, HandleIs, OpenedIs, MakeDirFine, Zenon
  <2> QED
    BY <2>1, <2>2, DoesSound, Zenon
<1>8. CASE CallRemove
  <2>1. PICK h \in Handle : Removes(Remove(Now, h), "remove")
    BY <1>8, Zenon DEF CallRemove
  <2> QED
    BY <1>1, <2>1, HandleIs, RemoveFine, RemovesSound, Zenon
<1>9. CASE CallRemoveName
  <2>1. PICK g \in Handle, n \in Name : OpenedWell(g) /\ Removes(RemoveName(Now, Child, g, n), "remove")
    BY <1>9, Zenon DEF CallRemoveName
  <2>2. AllFine(RemoveName(Now, Child, g, n))
    BY <1>1, <2>1, HandleIs, ChildIs, OpenedIs, RemoveNameFine, Zenon
  <2> QED
    BY <2>1, <2>2, RemovesSound, Zenon
<1>10. CASE CallRmDir
  <2>1. PICK h \in Handle : Removes(RmDir(Now, h), "rmdir")
    BY <1>10, Zenon DEF CallRmDir
  <2> QED
    BY <1>1, <2>1, HandleIs, RmDirFine, RemovesSound, Zenon
<1>11. CASE CallReadDir
  BY <1>11, ReadDirSound
<1>12. CASE WriteData
  BY <1>12, WriteSound
<1>13. CASE Answered \/ NoLongerFollowed \/ UNCHANGED vars
  <2>1. disk' = disk /\ obj' = obj /\ lost' = lost
    BY <1>13 DEF Answered, NoLongerFollowed, vars
  <2> QED
    BY <2>1, Zenon DEF Sound
<1>14. CASE CallOfHalf
  BY <1>14 DEF CallOfHalf, Sound
<1> QED
  BY <1>2, <1>3, <1>4, <1>5, <1>6, <1>7, <1>8, <1>9, <1>10, <1>11, <1>12, <1>13, <1>14, Zenon DEF Next

\* Whatever is called, in whichever order, and whichever accesses fail: while the volume
\* is followed it is sound, and so is what each object that was opened says of it.  (Of an
\* object that openRoot() failed to open nothing is said but that it has no entry and no
\* cluster of another's: SdFile.cpp:563-566 leave the size it had.)
THEOREM AlwaysSound == Spec => []Sound
  BY InitSound, StepSound, PTL DEF Spec

LEMMA DirChainsAre ==
  ASSUME Good(disk, obj), NEW d \in DirChains
  PROVE  d \in Chains /\ Used(d) = {i \in 1 .. Len(disk[d]) : IsUsed(disk[d][i])} /\ Len(disk[d]) \in Nat
<1>1. disk \in Disks
  BY DEF Good
<1>2. d \in Chains
  <2>1. CASE d = Root
    BY <2>1 DEF Chains
  <2>2. CASE d # Root
    <3>1. PICK x \in Chains : d \in Subdirs(x)
      BY <2>2 DEF DirChains
    <3>2. PICK i \in Used(x) : d = disk[x][i].node /\ d # None
      BY <3>1 DEF Subdirs
    <3>3. disk[x] \in Seq(SlotSet)
      BY <1>1, CellIs
    <3>4. i \in 1 .. Len(disk[x])
      BY <3>2, <3>3 DEF Used
    <3>5. d \in Node
      BY <1>1, <3>2, <3>4, CellIs
    <3> QED
      BY <3>5 DEF Chains
  <2> QED
    BY <2>1, <2>2
<1>3. disk[d] \in Seq(SlotSet) /\ Len(disk[d]) \in Nat
  BY <1>1, <1>2, CellIs
<1> QED
  BY <1>2, <1>3 DEF Used

\* No name is twice in a directory, and no entry is behind the end of a search, on every
\* volume, for every number of objects, failures and calls.
THEOREM SearchesAlwaysSeeAll == Spec => []SearchesSeeAll
<1>1. Sound => SearchesSeeAll
  <2> SUFFICES ASSUME Sound, ~lost, NEW d \in DirChains, NEW i \in Used(d)
               PROVE  /\ \A j \in Used(d) : disk[d][i].name = disk[d][j].name => i = j
                      /\ \A j \in 1 .. i : disk[d][j].what # "free"
    BY DEF SearchesSeeAll
  <2>1. Good(disk, obj) /\ Whole(disk)
    BY DEF Sound, Good
  <2>2. d \in Chains /\ Used(d) = {k \in 1 .. Len(disk[d]) : IsUsed(disk[d][k])}
    BY <2>1, DirChainsAre
  <2> QED
    BY <2>1, <2>2 DEF Whole
<1> QED
  BY <1>1, AlwaysSound, PTL

\* No clusters are of two entries, and a directory's are there and name it and its parent.
THEOREM TreeAlwaysWellFormed == Spec => []TreeWellFormed
<1>1. Sound => TreeWellFormed
  <2> SUFFICES ASSUME Sound, ~lost PROVE TreeWellFormed
    BY DEF TreeWellFormed
  <2>1. Good(disk, obj) /\ Apart(disk) /\ Linked(disk) /\ disk \in Disks
    BY DEF Sound, Good
  <2>2. ASSUME NEW d \in DirChains, NEW e \in DirChains, NEW i \in Used(d), NEW j \in Used(e),
               disk[d][i].node = disk[e][j].node, disk[d][i].node # None
        PROVE  d = e /\ i = j
    <3>1. /\ d \in Chains /\ i \in 1 .. Len(disk[d]) /\ IsUsed(disk[d][i])
          /\ e \in Chains /\ j \in 1 .. Len(disk[e]) /\ IsUsed(disk[e][j])
      BY <2>1, DirChainsAre
    <3> QED
      BY <2>1, <2>2, <3>1, Zenon DEF Apart
  <2>3. ASSUME NEW d \in DirChains, NEW i \in Used(d), disk[d][i].what = "dir", disk[d][i].node # None
        PROVE  LET n == disk[d][i].node IN
               /\ disk[n] # <<>>
               /\ disk[n][1].what = Dot =>
                    disk[n][1].node = n /\ disk[n][2].what = DotDot
                      /\ disk[n][2].node = IF d = Root THEN None ELSE d
    <3>1. d \in Chains /\ i \in 1 .. Len(disk[d]) /\ IsUsed(disk[d][i])
      BY <2>1, DirChainsAre
    <3>2. /\ Len(disk[disk[d][i].node]) > 0 /\ Named(disk, disk[d][i].node, d)
      BY <2>1, <2>3, <3>1 DEF Linked
    <3>3. disk[disk[d][i].node] # <<>>
      <4>1. disk[d][i].node \in Chains
        BY <2>1, <2>3, <3>1, CellIs DEF Chains
      <4> QED
        BY <2>1, <3>2, <4>1, CellIs
    <3> QED
      BY <3>2, <3>3 DEF Named
  <2> QED
    BY <2>2, <2>3 DEF TreeWellFormed
<1> QED
  BY <1>1, AlwaysSound, PTL

\* What an object that was opened says of its file or directory is so, whichever calls
\* failed before and after it was opened.  (It says nothing of one that openRoot() failed to
\* open, and which the program takes to be open.)
THEOREM ObjectsAlwaysCurrent == Spec => []ObjectsCurrent
<1>1. Sound => ObjectsCurrent
  <2> SUFFICES ASSUME Sound, ~lost, NEW h \in Handle
               PROVE  LET o == obj[h] IN
                      /\ IsDir(o) /\ o.node # None /\ o.size > 0 => o.size = Len(disk[o.node])
                      /\ o.at # <<>> => LET e == disk[o.at[1]][o.at[2]] IN
                           IsUsed(e) /\ (o.dirty \/ e.node = o.node)
    BY DEF ObjectsCurrent
  <2>1. h \in Object /\ Good(disk, obj)
    BY HandleIs DEF Sound
  <2>2. Current(disk, obj, h) /\ obj[h].type \in {"closed", "half", "file", "dir", "root16", "root32"}
    BY <2>1, ObjectIs DEF Good
  <2>3. ASSUME obj[h].at # <<>> PROVE obj[h].type \in {"file", "dir"}
    BY <2>2, <2>3 DEF Current, Closed, Half, IsRoot
  <2> QED
    BY <2>2, <2>3 DEF Current, Placed, Entry
<1> QED
  BY <1>1, AlwaysSound, PTL
=============================================================================

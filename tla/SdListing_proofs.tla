-------------------------- MODULE SdListing_proofs --------------------------
(***************************************************************************)
(* Proofs about SdFolder and SdListing, for any names, any folder outside  *)
(* of which the process works, and any directory; and, at the end, about   *)
(* the InMemoryFile that SDClass::open and openNextFile() return instead   *)
(* of a file of the host.                                                  *)
(***************************************************************************)
EXTENDS SdListing, InMemoryFile, SequenceTheorems, TLAPS

-----------------------------------------------------------------------------
(***************************************************************************)
(* Paths                                                                   *)
(***************************************************************************)
LEMMA PartIs ==
  ASSUME NEW p \in HostPath, NEW m \in Nat \ {0}, NEW n \in Int, n <= Len(p)
  PROVE  /\ SubSeq(p, m, n) \in HostPath
         /\ Len(SubSeq(p, m, n)) = IF m <= n THEN n - m + 1 ELSE 0
         /\ \A i \in 1 .. n - m + 1 : SubSeq(p, m, n)[i] = p[m + i - 1]
<1>1. \A i \in m .. n : p[i] \in Name
  BY DEF HostPath
<1> QED
  BY <1>1, SubSeqProperties DEF HostPath

LEMMA PrefixElements ==
  ASSUME NEW p \in HostPath, NEW q \in HostPath
  PROVE  IsPrefix(p, q) <=> Len(p) <= Len(q) /\ \A i \in 1 .. Len(p) : p[i] = q[i]
  BY DEF IsPrefix, HostPath

LEMMA PrefixTransitive ==
  ASSUME NEW p \in HostPath, NEW q \in HostPath, NEW r \in HostPath,
         IsPrefix(p, q), IsPrefix(q, r)
  PROVE  IsPrefix(p, r)
  BY PrefixElements DEF HostPath

LEMMA PrefixOfConcat ==
  ASSUME NEW p \in HostPath, NEW q \in HostPath
  PROVE  p \o q \in HostPath /\ IsPrefix(p, p \o q)
<1>1. p \o q \in HostPath /\ Len(p \o q) = Len(p) + Len(q) /\ Len(p) \in Nat /\ Len(q) \in Nat
  BY DEF HostPath
<1>2. \A i \in 1 .. Len(p) : (p \o q)[i] = p[i]
  BY DEF HostPath
<1> DEFINE r == p \o q
<1> HIDE DEF r
<1>3. r \in HostPath /\ Len(p) <= Len(r) /\ \A i \in 1 .. Len(p) : p[i] = r[i]
  BY <1>1, <1>2 DEF r
<1> QED
  BY <1>3, PrefixElements DEF r

LEMMA PrefixesAre ==
  ASSUME NEW p \in HostPath
  PROVE  /\ Prefixes(p) \subseteq HostPath /\ p \in Prefixes(p)
         /\ \A q \in Prefixes(p) : IsPrefix(q, p)
  BY DEF Prefixes, HostPath, IsPrefix

LEMMA ParentType ==
  ASSUME NEW p \in HostPath
  PROVE  /\ Parent(p) \in HostPath
         /\ p # <<>> => Len(Parent(p)) = Len(p) - 1 /\ \A i \in 1 .. Len(p) - 1 : Parent(p)[i] = p[i]
<1>1. CASE p = <<>>
  BY <1>1 DEF Parent, HostPath
<1>2. CASE p # <<>>
  <2>1. Len(p) \in Nat /\ Len(p) > 0
    BY <1>2 DEF HostPath
  <2> DEFINE n == Len(p) - 1
             r == SubSeq(p, 1, n)
  <2>2. n \in Int /\ n <= Len(p) /\ n >= 0
    BY <2>1
  <2> HIDE DEF n
  <2>3. r \in HostPath /\ Len(r) = n
    BY <2>2, PartIs
  <2>4. \A i \in 1 .. n : r[i] = p[i]
    BY <2>2, PartIs
  <2> QED
    BY <2>3, <2>4 DEF Parent, n
<1> QED
  BY <1>1, <1>2

\* The directories that lead to a path have their parents among them.
LEMMA PrefixesClosed ==
  ASSUME NEW p \in HostPath, NEW q \in Prefixes(p), q # <<>>
  PROVE  Parent(q) \in Prefixes(p)
<1>1. PICK n \in 0 .. Len(p) : q = SubSeq(p, 1, n)
  BY DEF Prefixes
<1>2. n - 1 \in 0 .. Len(p) /\ Parent(q) = SubSeq(p, 1, n - 1)
  BY <1>1 DEF Parent, HostPath
<1> QED
  BY <1>2 DEF Prefixes

\* What is below p has its parent below p, unless it is p.
LEMMA BelowParent ==
  ASSUME NEW p \in HostPath, NEW q \in HostPath, q # <<>>, IsPrefix(p, Parent(q))
  PROVE  IsPrefix(p, q)
<1> DEFINE r == Parent(q)
<1>1. /\ r \in HostPath /\ Len(r) = Len(q) - 1 /\ \A i \in 1 .. Len(q) - 1 : r[i] = q[i]
      /\ Len(q) \in Nat /\ Len(p) \in Nat
  BY SMTT(30), ParentType DEF HostPath
<1> HIDE DEF r
<1>2. Len(p) <= Len(r) /\ \A i \in 1 .. Len(p) : p[i] = r[i]
  BY <1>1, PrefixElements DEF r
<1>3. Len(p) <= Len(q) /\ \A i \in 1 .. Len(p) : p[i] = q[i]
  BY <1>1, <1>2
<1> QED
  BY <1>3, PrefixElements

\* Where a name below a folder is on the host
LEMMA HostType ==
  ASSUME NEW f \in PathString
  PROVE  Host(f) \in HostPath
  BY CwdAssumption DEF Host, PathString, HostPath

LEMMA BelowType ==
  ASSUME NEW f \in PathString, NEW s \in PathString
  PROVE  /\ Below(f, s) \in PathString /\ Host(Below(f, s)) \in HostPath
         /\ f # EmptyString => Host(Below(f, s)) = Host(f) \o s.comps
<1>1. f.comps \in Seq(Name) /\ s.comps \in Seq(Name) /\ f.abs \in BOOLEAN
  BY DEF PathString
<1>2. f.comps \o s.comps \in Seq(Name)
  BY <1>1
<1>3. Below(f, s) \in PathString
  BY <1>1, <1>2 DEF Below, PathString
<1>4. ASSUME f # EmptyString PROVE Host(Below(f, s)) = Host(f) \o s.comps
  <2>1. Below(f, s).abs = f.abs /\ Below(f, s).comps = f.comps \o s.comps
    <3>1. f.abs \/ f = EmptyString <=> f.abs
      BY <1>4
    <3> QED
      BY <1>1, <3>1 DEF Below
  <2>2. (Cwd \o f.comps) \o s.comps = Cwd \o (f.comps \o s.comps)
    <3>1. Cwd \in Seq(Name)
      BY CwdAssumption DEF HostPath
    <3> DEFINE a == f.comps
               c == s.comps
    <3>2. a \in Seq(Name) /\ c \in Seq(Name)
      BY <1>1
    <3> HIDE DEF a, c
    <3>3. (Cwd \o a) \o c = Cwd \o (a \o c)
      BY <3>1, <3>2, ConcatAssociative
    <3> QED
      BY <3>3 DEF a, c
  <2> QED
    BY <2>1, <2>2 DEF Host
<1> QED
  BY <1>3, <1>4, HostType

LEMMA BelowPrefix ==
  ASSUME NEW f \in PathString \ {EmptyString}, NEW s \in PathString
  PROVE  IsPrefix(Host(f), Host(Below(f, s)))
<1>1. Host(f) \in HostPath /\ s.comps \in HostPath /\ Host(Below(f, s)) = Host(f) \o s.comps
  BY HostType, BelowType DEF PathString, HostPath
<1> QED
  BY <1>1, PrefixOfConcat

LEMMA EmptyType == EmptyString \in PathString
  BY DEF EmptyString, PathString

-----------------------------------------------------------------------------
(***************************************************************************)
(* The host's tree                                                         *)
(***************************************************************************)
\* The tree stays one whatever is made and deleted: no name is both a file and a
\* directory, every node is in a directory, and the process keeps its own.
Tree(ds, fs) ==
  /\ ds \subseteq HostPath /\ fs \subseteq HostPath
  /\ ds \cap fs = {}
  /\ Cwd \in ds
  /\ \A p \in ds \cup fs : p # <<>> => Parent(p) \in ds

\* It stays a tree when the directories that lead somewhere are made,
LEMMA MakingKeepsTree ==
  ASSUME NEW ds, NEW fs, Tree(ds, fs), NEW p \in HostPath, Prefixes(p) \cap fs = {}
  PROVE  Tree(ds \cup Prefixes(p), fs)
  BY PrefixesAre, PrefixesClosed DEF Tree

\* when something is deleted with all that is in it, but not the working directory,
LEMMA DeletingKeepsTree ==
  ASSUME NEW ds, NEW fs, Tree(ds, fs), NEW p \in HostPath, ~IsPrefix(p, Cwd)
  PROVE  Tree(Without(ds, p), Without(fs, p))
<1>1. \A q \in Without(ds, p) \cup Without(fs, p) : q # <<>> => Parent(q) \in Without(ds, p)
  BY BelowParent DEF Tree, Without
<1> QED
  BY <1>1 DEF Tree, Without

\* and when a file is made in a directory.
LEMMA OpeningKeepsTree ==
  ASSUME NEW ds, NEW fs, Tree(ds, fs), NEW p \in HostPath, p \notin ds \cup fs, Parent(p) \in ds
  PROVE  Tree(ds, fs \cup {p})
  BY DEF Tree

-----------------------------------------------------------------------------
(***************************************************************************)
(* The calls of SDClass.  Each lemma says what a call does to the tree.    *)
(***************************************************************************)
TreeWellFormed == TypeOK /\ Tree(dirs, files)

LEMMA FolderType ==
  ASSUME TreeWellFormed
  PROVE  folder \in PathString /\ Tree(dirs, files)
  BY StringAssumption, EmptyType DEF TreeWellFormed, TypeOK

\* mkdir(), with the folder at f
LEMMA Making ==
  ASSUME TreeWellFormed, NEW f \in PathString, NEW mock, NEW s \in PathString,
         dirs' = MkdirDirs(f, mock, s), files' = files
  PROVE  Tree(dirs', files')
<1> DEFINE p == Host(MkdirTarget(f, s))
<1>1. p \in HostPath
  BY BelowType, HostType DEF MkdirTarget
<1> HIDE DEF p
<1>2. dirs' = dirs \/ (CanCreate(p) /\ dirs' = dirs \cup Prefixes(p))
  BY DEF MkdirDirs, p
<1> QED
  BY <1>1, <1>2, FolderType, MakingKeepsTree DEF CanCreate

\* rmdir() and remove()
LEMMA Deleting ==
  ASSUME TreeWellFormed, NEW op, NEW s \in PathString, Delete(op, s)
  PROVE  /\ Tree(dirs', files')
         /\ folder # EmptyString /\ ~useMockData => Host(Below(folder, s)) \notin Reached(s)'
<1> DEFINE p == Host(Below(folder, s))
<1>1. p \in HostPath /\ folder \in PathString /\ Tree(dirs, files)
  BY FolderType, BelowType
<1>2. CASE folder # EmptyString /\ Exists(s)
  <2>1. dirs' = Without(dirs, p) /\ files' = Without(files, p)
    BY <1>2 DEF Delete
  <2>2. Host(folder) \in HostPath /\ IsPrefix(Host(folder), p)
    BY <1>1, <1>2, HostType, BelowPrefix
  <2>3. ~IsPrefix(Host(folder), Cwd)
    <3>1. folder \in FolderString \ {EmptyString}
      BY <1>2 DEF TreeWellFormed, TypeOK
    <3> QED
      BY <3>1, OutsideAssumption DEF Host
  <2> HIDE DEF p
  <2>4. ~IsPrefix(p, Cwd)
    BY <1>1, <2>2, <2>3, CwdAssumption, PrefixTransitive
  <2>5. Tree(dirs', files')
    BY <1>1, <2>1, <2>4, DeletingKeepsTree
  <2>6. IsPrefix(p, p)
    BY DEF IsPrefix, HostPath
  <2>7. p \notin dirs' /\ p \notin files'
    BY <2>1, <2>6 DEF Without
  <2>8. p \notin Reached(s)'
    BY <2>7 DEF Reached, Nodes
  <2> QED
    BY <2>5, <2>8 DEF p
<1>3. CASE ~(folder # EmptyString /\ Exists(s))
  <2>1. dirs' = dirs /\ files' = files
    BY <1>3 DEF Delete
  <2> QED
    BY <1>1, <1>3, <2>1 DEF Reached, Nodes, Exists, ExistsIn
<1> QED
  BY <1>2, <1>3

\* open()
LEMMA Opening ==
  ASSUME TreeWellFormed, NEW s \in PathString, NEW creates \in BOOLEAN, OpenFile(s, creates)
  PROVE  /\ Tree(dirs', files')
         /\ answer'.ret <=> useMockData \/ Host(Below(folder, s)) \in Reached(s)'
<1> DEFINE p == Host(Below(folder, s))
           makes == /\ ~useMockData /\ creates /\ s.comps # <<>>
                    /\ p \notin Nodes /\ Parent(p) \in dirs
<1>1. p \in HostPath /\ Tree(dirs, files)
  BY FolderType, BelowType
<1>2. /\ dirs' = dirs /\ files' = IF makes THEN files \cup {p} ELSE files
      /\ answer'.ret = (Exists(s) \/ makes)
  BY DEF OpenFile, Answer
<1>3. Exists(s) <=> useMockData \/ p \in Reached(s)
  BY DEF Exists, ExistsIn
<1> HIDE DEF p
<1>4. CASE makes
  <2>1. Tree(dirs', files')
    BY <1>1, <1>2, <1>4, OpeningKeepsTree DEF Nodes
  <2>2. p \in Reached(s)'
    BY <1>2, <1>4 DEF Reached, Nodes
  <2> QED
    BY <1>2, <1>4, <2>1, <2>2 DEF p
<1>5. CASE ~makes
  <2>1. dirs' = dirs /\ files' = files
    BY <1>2, <1>5
  <2>2. Reached(s)' = Reached(s)
    BY <2>1 DEF Reached, Nodes
  <2> QED
    BY <1>1, <1>2, <1>3, <1>5, <2>1, <2>2 DEF p
<1> QED
  BY <1>4, <1>5

\* The other variables have their types.
Rest == /\ folder \in FolderString \cup {EmptyString}
        /\ useMockData \in BOOLEAN /\ fileData \in BOOLEAN /\ fileSize \in Nat

LEMMA TreeIs == TreeWellFormed <=> Tree(dirs, files) /\ Rest
  BY DEF TreeWellFormed, TypeOK, Tree, Rest

LEMMA TreeIsNext == Tree(dirs', files') /\ Rest' => TreeWellFormed'
  BY DEF TreeWellFormed, TypeOK, Tree, Rest

Sound == TreeWellFormed' /\ AnswersAgree'

LEMMA SetFolderSound ==
  ASSUME TreeWellFormed, NEW s \in FolderString, NEW create \in BOOLEAN,
         SetSDCardFolderPath(s, create)
  PROVE  Sound
<1>1. s \in PathString /\ MkdirTarget(EmptyString, s) = s
  BY StringAssumption DEF MkdirTarget
<1>2. /\ useMockData' = FALSE /\ folder' = s /\ UNCHANGED <<files, fileData, fileSize>>
      /\ answer'.op \in {"setFolder", "setFolderCreating"}
  BY DEF SetSDCardFolderPath, Answer
<1>3. Tree(dirs', files')
  <2>1. CASE dirs' = dirs
    BY <1>2, <2>1, TreeIs
  <2>2. CASE dirs' = MkdirDirs(EmptyString, FALSE, s)
    BY <1>1, <1>2, <2>2, EmptyType, Making
  <2> QED
    BY <2>1, <2>2 DEF SetSDCardFolderPath
<1>4. TreeWellFormed'
  BY <1>2, <1>3, TreeIs, TreeIsNext DEF Rest
<1>5. AnswersAgree'
  BY <1>2 DEF AnswersAgree
<1> QED
  BY <1>4, <1>5 DEF Sound

LEMMA MkdirSound ==
  ASSUME TreeWellFormed, NEW s \in PathString, Mkdir(s)
  PROVE  Sound
<1>1. /\ UNCHANGED <<files, folder, useMockData, fileData, fileSize>>
      /\ dirs' = MkdirDirs(folder, useMockData, s) /\ answer'.op = "mkdir"
  BY DEF Mkdir, Answer
<1>2. folder \in PathString /\ Tree(dirs, files)
  BY FolderType
<1>3. Tree(dirs', files')
  BY <1>1, <1>2, Making
<1>4. TreeWellFormed'
  BY <1>1, <1>3, TreeIs, TreeIsNext DEF Rest
<1>5. AnswersAgree'
  <2> DEFINE p == Host(Below(folder, s))
             q == Host(Below(folder, Below(folder, s)))
  <2>1. ASSUME folder # EmptyString, ~useMockData, answer'.ret
        PROVE  p \in dirs' \/ q \in Reached(s)'
    <3>1. MkdirTarget(folder, s) = Below(folder, s)
      BY <2>1 DEF MkdirTarget
    <3>2. CASE MkdirSkips(folder, useMockData, s)
      <4>1. q \in Reached(s) /\ dirs' = dirs /\ files' = files
        BY <1>1, <2>1, <3>1, <3>2 DEF MkdirSkips, MkdirDirs
      <4> QED
        BY <4>1 DEF Reached, Nodes
    <3>3. CASE ~MkdirSkips(folder, useMockData, s)
      <4>1. CanCreate(p) /\ dirs' = dirs \cup Prefixes(p)
        BY <1>1, <2>1, <3>1, <3>3 DEF MkdirDirs, Mkdir, Answer
      <4>2. p \in HostPath
        BY <1>2, BelowType
      <4> QED
        BY <4>1, <4>2, PrefixesAre
    <3> QED
      BY <3>2, <3>3
  <2>2. answer'.path = s
    BY DEF Mkdir, Answer
  <2> QED
    BY <1>1, <2>1, <2>2 DEF AnswersAgree, MkdirSkips, MkdirTarget, Reached, Nodes
<1> QED
  BY <1>4, <1>5 DEF Sound

LEMMA DeleteSound ==
  ASSUME TreeWellFormed, NEW op \in {"rmdir", "remove"}, NEW s \in PathString, Delete(op, s)
  PROVE  Sound
<1>1. /\ UNCHANGED <<folder, useMockData, fileData, fileSize>>
      /\ answer'.op = op /\ answer'.path = s
  BY DEF Delete, Answer
<1>2. /\ Tree(dirs', files')
      /\ folder # EmptyString /\ ~useMockData => Host(Below(folder, s)) \notin Reached(s)'
  BY Deleting
<1>3. TreeWellFormed'
  BY <1>1, <1>2, TreeIs, TreeIsNext DEF Rest
<1>4. AnswersAgree'
  BY <1>1, <1>2 DEF AnswersAgree, Exists, ExistsIn
<1> QED
  BY <1>3, <1>4 DEF Sound

LEMMA OpenSound ==
  ASSUME TreeWellFormed, NEW s \in PathString, NEW creates \in BOOLEAN, OpenFile(s, creates)
  PROVE  Sound
<1>1. /\ UNCHANGED <<folder, useMockData, fileData, fileSize>>
      /\ answer'.op = "open" /\ answer'.path = s
  BY DEF OpenFile, Answer
<1>2. /\ Tree(dirs', files')
      /\ answer'.ret <=> useMockData \/ Host(Below(folder, s)) \in Reached(s)'
  BY Opening
<1>3. TreeWellFormed'
  BY <1>1, <1>2, TreeIs, TreeIsNext DEF Rest
<1>4. AnswersAgree'
  BY <1>1, <1>2 DEF AnswersAgree, Exists, ExistsIn
<1> QED
  BY <1>3, <1>4 DEF Sound

\* A call that leaves the host and the folder alone, and answers something else
LEMMA QuietSound ==
  ASSUME TreeWellFormed, UNCHANGED <<dirs, files, folder>>, Rest',
         answer'.op \notin {"open", "remove", "rmdir", "mkdir"}
  PROVE  Sound
<1>1. TreeWellFormed'
  BY TreeIs, TreeIsNext
<1>2. AnswersAgree'
  BY DEF AnswersAgree
<1> QED
  BY <1>1, <1>2 DEF Sound

LEMMA CallSound ==
  ASSUME TreeWellFormed, Next
  PROVE  Sound
<1>1. ASSUME NEW s \in FolderString, NEW create \in BOOLEAN, SetSDCardFolderPath(s, create)
      PROVE  Sound
  BY <1>1, SetFolderSound
<1>2. ASSUME NEW null \in BOOLEAN, NEW n \in DataSize, SetSDCardFileData(null, n)
      PROVE  Sound
  <2>1. UNCHANGED <<dirs, files, folder>> /\ answer'.op = "setFileData"
    BY <1>2 DEF SetSDCardFileData, Answer
  <2>2. Rest'
    BY <1>2, TreeIs, SizeAssumption DEF SetSDCardFileData, Rest
  <2> QED
    BY <2>1, <2>2, QuietSound
<1>3. CASE Begin
  <2>1. UNCHANGED <<dirs, files, folder>> /\ answer'.op = "begin" /\ Rest'
    BY <1>3, TreeIs DEF Begin, Answer, Rest
  <2> QED
    BY <2>1, QuietSound
<1>4. \A s \in FileString : s \in PathString
  BY StringAssumption
<1>5. ASSUME NEW s \in FileString, CallExists(s) PROVE Sound
  <2>1. UNCHANGED <<dirs, files, folder>> /\ answer'.op = "exists" /\ Rest'
    BY <1>5, TreeIs DEF CallExists, Answer, Rest
  <2> QED
    BY <2>1, QuietSound
<1>6. ASSUME NEW s \in FileString, Mkdir(s) PROVE Sound
  BY <1>4, <1>6, MkdirSound
<1>7. ASSUME NEW s \in FileString, Rmdir(s) \/ RemoveName(s) PROVE Sound
  BY <1>4, <1>7, DeleteSound DEF Rmdir, RemoveName
<1>8. ASSUME NEW s \in FileString, NEW creates \in BOOLEAN, OpenFile(s, creates) PROVE Sound
  BY <1>4, <1>8, OpenSound
<1> QED
  BY <1>1, <1>2, <1>3, <1>5, <1>6, <1>7, <1>8 DEF Next

-----------------------------------------------------------------------------
(***************************************************************************)
(* The listing changes nothing on the host, so that the properties of      *)
(* SdFolder hold of its steps too.                                         *)
(***************************************************************************)
LEMMA StepSound ==
  ASSUME TreeWellFormed, ListingNext
  PROVE  Sound
<1>1. CASE Next
  BY <1>1, CallSound
<1>2. CASE CloseDirectory \/ NextEntry \/ NoEntry
  <2>1. UNCHANGED <<dirs, files, folder>>
    BY <1>2 DEF CloseDirectory, NextEntry, NoEntry
  <2>2. answer'.op \in {"close", "next", "throws", "end"}
    <3>1. CASE CloseDirectory
      BY <3>1 DEF CloseDirectory, Answer
    <3>2. CASE NoEntry
      BY <3>2 DEF NoEntry, Answer
    <3>3. CASE NextEntry
      <4>1. \E child, throws, opened : Answer(IF throws THEN "throws" ELSE "next", child, opened)
        BY <3>3, Zenon DEF NextEntry
      <4> QED
        BY <4>1 DEF Answer
    <3> QED
      BY <1>2, <3>1, <3>2, <3>3
  <2>3. Rest'
    BY <1>2, TreeIs DEF CloseDirectory, NextEntry, NoEntry, Rest
  <2> QED
    BY <2>1, <2>2, <2>3, QuietSound
<1>3. ASSUME NEW s \in FileString, OpenDirectory(s) PROVE Next
  BY <1>3 DEF OpenDirectory, Next
<1>4. ASSUME Meanwhile PROVE Next
  BY <1>4 DEF Meanwhile, Next
<1> QED
  BY <1>1, <1>2, <1>3, <1>4 DEF ListingNext

LEMMA InitTree == ListingInit => TreeWellFormed
<1> SUFFICES ASSUME ListingInit PROVE TreeWellFormed
  OBVIOUS
<1>1. Tree(dirs, files)
  BY CwdAssumption, PrefixesAre, PrefixesClosed DEF ListingInit, Init, Tree
<1>2. Rest
  BY DEF ListingInit, Init, Rest
<1> QED
  BY <1>1, <1>2, TreeIs

\* The host's tree stays a tree, and the process keeps its directory.
LEMMA TreeStays == ListingSpec => []TreeWellFormed
<1>1. TreeWellFormed /\ [ListingNext]_listingVars => TreeWellFormed'
  <2>1. TreeWellFormed /\ ListingNext => TreeWellFormed'
    BY StepSound DEF Sound
  <2>2. TreeWellFormed /\ UNCHANGED listingVars => TreeWellFormed'
    BY DEF listingVars, vars, TreeWellFormed, TypeOK, Tree
  <2> QED
    BY <2>1, <2>2
<1> QED
  BY <1>1, InitTree, PTL DEF ListingSpec

\* SD.h:154-178, SD.cpp:437-518: the state of SDClass and of the host has its type.
THEOREM FolderTypes == ListingSpec => []TypeOK
  BY TreeStays, PTL DEF TreeWellFormed

\* SD.cpp:415-450, 466-518: a name opens exactly if it exists afterwards, what was
\* removed is not there, and mkdir() has made its directory unless the path composed
\* twice is there.
THEOREM CallsAgree == ListingSpec => []AnswersAgree
<1>1. ListingInit => AnswersAgree
  BY DEF ListingInit, Init, AnswersAgree
<1>2. TreeWellFormed /\ AnswersAgree /\ [ListingNext]_listingVars => AnswersAgree'
  <2>1. TreeWellFormed /\ ListingNext => AnswersAgree'
    BY StepSound DEF Sound
  <2>2. AnswersAgree /\ UNCHANGED listingVars => AnswersAgree'
    BY DEF listingVars, vars, AnswersAgree, Exists, ExistsIn, MkdirSkips, MkdirTarget, Reached, Nodes
  <2> QED
    BY <2>1, <2>2
<1> QED
  BY <1>1, <1>2, TreeStays, PTL DEF ListingSpec

-----------------------------------------------------------------------------
(***************************************************************************)
(* The listing: what is owed is in the directory, and, as long as the      *)
(* folder has not moved during the pass, still to come.                    *)
(***************************************************************************)
Lister == [open : BOOLEAN, home : PathString, name : PathString, streaming : BOOLEAN,
           must : SUBSET Name, may : SUBSET Name, owed : SUBSET Name,
           passing : BOOLEAN, strayed : BOOLEAN]

Directory(l) == Host(Below(l.home, l.name))

\* for a lister, with these files and directories on the host
Promises(l, nodes) ==
  /\ l \in Lister
  /\ l.passing = l.streaming
  /\ ~l.open => l.owed = {}
  /\ l.owed \subseteq Entries(Directory(l), nodes)
  /\ ~l.strayed => l.owed \subseteq l.must

LInv == TreeWellFormed /\ Promises(lister, Nodes) /\ ListsEntries

LEMMA AppendIs ==
  ASSUME NEW p \in HostPath, NEW n \in Name
  PROVE  /\ Append(p, n) \in HostPath /\ Append(p, n) # <<>>
         /\ Parent(Append(p, n)) = p /\ Last(Append(p, n)) = n
<1> DEFINE q == Append(p, n)
<1>1. /\ q \in HostPath /\ Len(q) = Len(p) + 1 /\ q[Len(p) + 1] = n
      /\ \A i \in 1 .. Len(p) : q[i] = p[i]
      /\ Len(p) \in Nat
  BY DEF HostPath
<1> HIDE DEF q
<1>2. q # <<>>
  BY <1>1
<1>3. /\ Parent(q) \in HostPath /\ Len(Parent(q)) = Len(p)
      /\ \A i \in 1 .. Len(p) : Parent(q)[i] = p[i]
  BY <1>1, <1>2, ParentType
<1>4. Parent(q) = p
  <2> DEFINE r == Parent(q)
  <2> HIDE DEF r
  <2>1. r \in Seq(Name) /\ p \in Seq(Name) /\ Len(r) = Len(p) /\ \A i \in 1 .. Len(p) : r[i] = p[i]
    BY <1>3 DEF r, HostPath
  <2> QED
    BY <2>1 DEF r
<1>5. Last(q) = n
  BY <1>1 DEF Last
<1> QED
  BY <1>1, <1>2, <1>4, <1>5 DEF q

LEMMA LastIs ==
  ASSUME NEW q \in HostPath, q # <<>>
  PROVE  Last(q) \in Name /\ q = Append(Parent(q), Last(q))
<1> DEFINE r == Parent(q)
           n == Last(q)
<1>1. /\ r \in HostPath /\ Len(r) = Len(q) - 1 /\ \A i \in 1 .. Len(q) - 1 : r[i] = q[i]
      /\ Len(q) \in Nat /\ Len(q) > 0
  BY ParentType DEF HostPath
<1>2. n = q[Len(q)] /\ n \in Name
  BY <1>1 DEF Last, HostPath
<1> HIDE DEF r, n
<1>3. q = Append(r, n)
  BY <1>1, <1>2 DEF HostPath
<1> QED
  BY <1>2, <1>3 DEF r, n

LEMMA EntriesAre ==
  ASSUME NEW p \in HostPath, NEW nodes, nodes \subseteq HostPath
  PROVE  /\ Entries(p, nodes) \subseteq Name
         /\ \A n \in Name : n \in Entries(p, nodes) <=> Append(p, n) \in nodes
<1>1. ASSUME NEW n \in Entries(p, nodes) PROVE n \in Name /\ Append(p, n) \in nodes
  <2>1. PICK q \in nodes : q # <<>> /\ Parent(q) = p /\ n = Last(q)
    BY DEF Entries
  <2> QED
    BY <2>1, LastIs
<1>2. ASSUME NEW n \in Name, Append(p, n) \in nodes PROVE n \in Entries(p, nodes)
  BY <1>2, AppendIs DEF Entries
<1> QED
  BY <1>1, <1>2

\* With the folder where it was, what is left of the directory's path is the name it was
\* opened by, whatever they look like,
LEMMA CutIs ==
  ASSUME lister.home \in PathString, lister.name \in PathString
  PROVE  Cut(Length(lister.home) + 1) = lister.name.comps /\ ~(Length(lister.home) + 1 > Size)
<1>1. ASSUME NEW s \in PathString PROVE Length(s) \in Nat
  <2> DEFINE k == Len(s.comps)
  <2>1. k \in Nat /\ (s.comps # <<>> => k > 0)
    BY DEF PathString
  <2> HIDE DEF k
  <2>2. Length(s) = IF s.comps = <<>> THEN IF s.abs THEN 1 ELSE 0 ELSE 2 * k - IF s.abs THEN 0 ELSE 1
    BY DEF Length, k
  <2> QED
    BY <2>1, <2>2
<1>2. After(lister.name, 0) = lister.name.comps
  <2>1. lister.name.comps \in Seq(Name)
    BY DEF PathString
  <2>2. (IF lister.name.abs THEN 0 ELSE 0 + 1) \div 2 + 1 = 1
    OBVIOUS
  <2> QED
    BY <2>1, <2>2, SubSeqFull DEF After
<1> DEFINE n == Length(lister.home)
<1>3. n \in Nat /\ Length(lister.name) \in Nat
  BY <1>1
<1>4. Size = n + 1 + Length(lister.name)
  BY DEF Size
<1>5. ASSUME NEW k PROVE Cut(k) = IF k <= n THEN After(lister.home, k) \o lister.name.comps
                                ELSE After(lister.name, k - n - 1)
  BY DEF Cut
<1> HIDE DEF n
<1> DEFINE k == n + 1
<1>6. k - n - 1 = 0 /\ ~(k <= n)
  BY <1>3
<1>7. Cut(k) = lister.name.comps
  <2> HIDE DEF k
  <2>1. Cut(k) = After(lister.name, k - n - 1)
    BY <1>5, <1>6
  <2> QED
    BY <1>2, <1>6, <2>1
<1>8. ~(k > Size)
  BY <1>3, <1>4
<1> QED
  BY <1>7, <1>8 DEF n

\* so that an entry is opened by its own path.
LEMMA ChildIs ==
  ASSUME folder \in PathString, folder = lister.home, lister.name \in PathString, NEW n \in Name
  PROVE  Host(Child(n)) = Append(Listed, n)
<1> DEFINE t == [abs |-> FALSE, comps |-> Append(lister.name.comps, n)]
           c == lister.name.comps
<1>1. Child(n) = Below(folder, t)
  BY CutIs DEF Child
<1>2. c \in Seq(Name) /\ t \in PathString /\ t.comps = Append(c, n)
  BY DEF PathString
<1>3. \A a \in Seq(Name) : a \o Append(c, n) = Append(a \o c, n)
  <2> HIDE DEF c
  <2> SUFFICES ASSUME NEW a \in Seq(Name) PROVE a \o Append(c, n) = Append(a \o c, n)
    OBVIOUS
  <2>1. Append(c, n) = c \o <<n>> /\ <<n>> \in Seq(Name) /\ a \o c \in Seq(Name)
    BY <1>2
  <2>2. Append(a \o c, n) = (a \o c) \o <<n>>
    BY <2>1
  <2> QED
    BY <1>2, <2>1, <2>2, ConcatAssociative
<1> HIDE DEF t, c
<1>4. CASE folder = EmptyString
  <2>1. folder.comps = <<>>
    BY <1>4 DEF EmptyString
  <2>2. ASSUME NEW s \in PathString PROVE Below(folder, s).abs /\ Below(folder, s).comps = <<>> \o s.comps
    BY <1>4, <2>1 DEF Below
  <2>3. Host(Below(folder, t)) = <<>> \o Append(c, n)
    BY <1>2, <2>2 DEF Host
  <2>4. Listed = <<>> \o c
    BY <2>2 DEF Host, Listed, c
  <2>5. <<>> \in Seq(Name)
    OBVIOUS
  <2> QED
    BY <1>1, <1>3, <2>3, <2>4, <2>5
<1>5. CASE folder # EmptyString
  <2>1. Host(Below(folder, t)) = Host(folder) \o Append(c, n) /\ Listed = Host(folder) \o c
    BY <1>2, <1>5, BelowType DEF Listed, c
  <2>2. Host(folder) \in Seq(Name)
    BY HostType DEF HostPath
  <2> QED
    BY <1>1, <1>3, <2>1, <2>2
<1> QED
  BY <1>4, <1>5

\* A call of SDClass changes what the stream will return, and what is owed with it.
LEMMA WatchedKeeps ==
  ASSUME TreeWellFormed, TreeWellFormed', Promises(lister, Nodes), Watched
  PROVE  Promises(lister', Nodes') /\ lister'.strayed = lister.strayed
<1> DEFINE before == Entries(Listed, Nodes)
           now == Entries(Listed, Nodes')
           k == lister
           coming == IF k.streaming THEN k.may \cup (k.must \ now) \cup (now \ before) ELSE {}
<1>1. lister' = [k EXCEPT !.must = k.must \cap now, !.owed = k.owed \cap now, !.may = coming]
  BY DEF Watched
<1>2. k \in Lister /\ Directory(k) = Listed
  BY DEF Promises, Directory, Listed
<1>3. Listed \in HostPath /\ Nodes \subseteq HostPath /\ Nodes' \subseteq HostPath
  BY <1>2, BelowType DEF Lister, Listed, TreeWellFormed, TypeOK, Nodes
<1>4. now \subseteq Name /\ before \subseteq Name
  BY <1>3, EntriesAre
<1> HIDE DEF now, before
<1>5. coming \subseteq Name
  BY <1>2, <1>4 DEF Lister
<1> HIDE DEF k, coming
<1>6. lister' = [open |-> k.open, home |-> k.home, name |-> k.name, streaming |-> k.streaming,
                 must |-> k.must \cap now, may |-> coming, owed |-> k.owed \cap now,
                 passing |-> k.passing, strayed |-> k.strayed]
  BY <1>1, <1>2 DEF Lister
<1>7. lister' \in Lister
  BY <1>2, <1>4, <1>5, <1>6 DEF Lister
<1>8. Directory(lister') = Listed
  BY <1>2, <1>6 DEF Directory
<1>9. /\ k.passing = k.streaming /\ (~k.open => k.owed = {})
      /\ ~k.strayed => k.owed \subseteq k.must
  BY DEF Promises, k
<1>10. lister'.owed \subseteq Entries(Directory(lister'), Nodes')
  BY <1>6, <1>8 DEF now
<1>11. lister'.strayed = k.strayed
  BY <1>6
<1> QED
  BY <1>6, <1>7, <1>9, <1>10, <1>11 DEF Promises, k

\* A pass owes what is in the directory when it begins.
LEMMA BegunIs ==
  ASSUME TreeWellFormed, Promises(lister, Nodes), lister.open
  PROVE  LET l == Begun(lister) IN
         /\ Promises(l, Nodes) /\ l.passing /\ l.streaming
         /\ l.open = lister.open /\ l.home = lister.home /\ l.name = lister.name
         /\ ~l.strayed => folder = lister.home
<1> DEFINE k == lister
           all == Entries(Listed, Nodes)
           strays == IF k.passing THEN k.strayed \/ folder # k.home ELSE folder # k.home
           owes == IF k.passing THEN k.owed ELSE all
           noted == IF k.passing THEN [k EXCEPT !.strayed = strays]
                    ELSE [k EXCEPT !.passing = TRUE, !.owed = all, !.strayed = strays]
           l == IF k.streaming THEN noted
                ELSE [noted EXCEPT !.streaming = TRUE, !.must = all, !.may = {}]
<1>1. Begun(lister) = l
  BY DEF Begun
<1>2. k \in Lister /\ Directory(k) = Listed
  BY DEF Promises, Directory, Listed
<1>3. all \subseteq Name
  BY <1>2, BelowType, EntriesAre DEF Lister, Listed, TreeWellFormed, TypeOK, Nodes
<1>4. strays \in BOOLEAN
  BY <1>2 DEF Lister
<1>5. /\ k.passing = k.streaming /\ (~k.open => k.owed = {})
      /\ k.owed \subseteq all /\ (~k.strayed => k.owed \subseteq k.must)
  BY <1>2 DEF Promises
<1>6. ~strays => folder = k.home /\ (k.passing => ~k.strayed)
  OBVIOUS
<1> HIDE DEF k, all, strays
<1>7. noted = [open |-> k.open, home |-> k.home, name |-> k.name, streaming |-> k.streaming,
               must |-> k.must, may |-> k.may, owed |-> owes, passing |-> TRUE, strayed |-> strays]
  BY <1>2 DEF Lister
<1> HIDE DEF noted, owes
<1>8. l = [open |-> k.open, home |-> k.home, name |-> k.name, streaming |-> TRUE,
           must |-> IF k.streaming THEN k.must ELSE all, may |-> IF k.streaming THEN k.may ELSE {},
           owed |-> owes, passing |-> TRUE, strayed |-> strays]
  BY <1>2, <1>7 DEF Lister
<1> HIDE DEF l
<1>9. owes \subseteq all /\ owes \subseteq Name /\ (~strays => owes \subseteq l.must)
  BY <1>2, <1>3, <1>5, <1>6, <1>8 DEF Lister, owes
<1>10. l \in Lister
  BY <1>2, <1>3, <1>4, <1>8, <1>9 DEF Lister
<1> QED
  <2>1. Directory(l) = Listed
    BY <1>2, <1>8 DEF Directory
  <2>2. k.open
    BY DEF k
  <2>3. Promises(l, Nodes)
    BY <1>8, <1>9, <1>10, <2>1, <2>2 DEF Promises, all
  <2> QED
    BY <1>1, <1>6, <1>8, <2>3 DEF k

\* An entry that is returned under another path than its own is still owed.
LEMMA NextEntryKeeps ==
  ASSUME TreeWellFormed, Promises(lister, Nodes), NextEntry
  PROVE  Promises(lister', Nodes') /\ ListsEntries'
<1> DEFINE l == Begun(lister)
<1>1. /\ Promises(l, Nodes) /\ l.passing /\ l.streaming /\ l.open = lister.open
      /\ l.home = lister.home /\ l.name = lister.name
      /\ ~l.strayed => folder = lister.home
      /\ lister.open /\ UNCHANGED <<dirs, files, folder>>
  BY BegunIs DEF NextEntry
<1>2. l \in Lister /\ lister.home \in PathString /\ lister.name \in PathString
  BY <1>1 DEF Promises, Lister
<1>3. PICK name \in l.must \cup l.may :
        LET child == Child(name)
            throws == Length(folder) + 1 > Size
            opened == ~throws /\ Host(child) \in Nodes
            right  == opened /\ Host(child) = Append(Listed, name)
        IN /\ answer' = [op |-> IF throws THEN "throws" ELSE "next", path |-> child, ret |-> opened]
           /\ lister' = [l EXCEPT !.must = @ \ {name}, !.may = @ \ {name},
                                  !.owed = IF right THEN @ \ {name} ELSE @]
  BY DEF NextEntry, Answer
<1> DEFINE child == Child(name)
           throws == Length(folder) + 1 > Size
           opened == ~throws /\ Host(child) \in Nodes
           right == opened /\ Host(child) = Append(Listed, name)
           owes == IF right THEN l.owed \ {name} ELSE l.owed
<1>4. name \in Name
  BY <1>2 DEF Lister
<1>5. /\ answer'.op = IF throws THEN "throws" ELSE "next"
      /\ answer'.path = child /\ (answer'.ret <=> opened)
  BY <1>3
<1>6. lister' = [l EXCEPT !.must = l.must \ {name}, !.may = l.may \ {name}, !.owed = owes]
  BY <1>3
<1>7. Listed \in HostPath /\ Nodes \subseteq HostPath /\ Directory(l) = Listed
  BY <1>1, <1>2, BelowType DEF Listed, Directory, TreeWellFormed, TypeOK, Nodes
<1>8. ~l.strayed => /\ ~throws /\ Host(child) = Append(Listed, name)
                    /\ name \in l.owed => right
  <2> SUFFICES ASSUME ~l.strayed
               PROVE  ~throws /\ Host(child) = Append(Listed, name) /\ (name \in l.owed => right)
    OBVIOUS
  <2>1. folder = lister.home /\ folder \in PathString
    BY <1>1, <1>2
  <2>2. ~throws
    BY <1>2, <2>1, CutIs
  <2>3. Host(child) = Append(Listed, name)
    BY <1>2, <1>4, <2>1, ChildIs
  <2>4. name \in l.owed => Append(Listed, name) \in Nodes
    BY <1>1, <1>4, <1>7, EntriesAre DEF Promises
  <2> QED
    BY <2>2, <2>3, <2>4
<1>9. owes \subseteq l.owed /\ (~l.strayed => name \notin owes)
  BY <1>8
<1> HIDE DEF owes, right, l
<1>10. lister' = [open |-> l.open, home |-> l.home, name |-> l.name, streaming |-> l.streaming,
                  must |-> l.must \ {name}, may |-> l.may \ {name}, owed |-> owes,
                  passing |-> l.passing, strayed |-> l.strayed]
  BY <1>2, <1>6 DEF Lister
<1>11. lister' \in Lister
  BY <1>2, <1>9, <1>10 DEF Lister
<1>12. Directory(lister') = Listed /\ Nodes' = Nodes /\ Listed' = Listed
  BY <1>1, <1>7, <1>10 DEF Directory, Nodes, Listed
<1>13. Promises(lister', Nodes')
  <2>1. /\ l.passing = l.streaming /\ (~l.open => l.owed = {})
        /\ l.owed \subseteq Entries(Listed, Nodes) /\ (~l.strayed => l.owed \subseteq l.must)
    BY <1>1, <1>7 DEF Promises
  <2>2. lister'.owed \subseteq Entries(Directory(lister'), Nodes')
    BY <1>9, <1>10, <1>12, <2>1
  <2>3. ~lister'.strayed => lister'.owed \subseteq lister'.must
    BY <1>9, <1>10, <2>1
  <2> QED
    BY <1>1, <1>10, <1>11, <2>1, <2>2, <2>3 DEF Promises
<1>14. ListsEntries'
  <2>1. CASE l.strayed
    BY <1>10, <2>1 DEF ListsEntries
  <2>2. CASE ~l.strayed
    <3>1. answer'.op = "next" /\ Host(answer'.path) = Append(Listed, name)
          /\ (answer'.ret <=> Host(answer'.path) \in Nodes)
      BY <1>5, <1>8, <2>2
    <3>2. Parent(Host(answer'.path)) = Listed
      BY <1>4, <1>7, <3>1, AppendIs
    <3> QED
      BY <1>12, <3>1, <3>2 DEF ListsEntries
  <2> QED
    BY <2>1, <2>2
<1> QED
  BY <1>13, <1>14

\* When a pass ends, nothing is owed.
LEMMA EndedIs ==
  ASSUME NEW l, NEW nodes, Promises(l, nodes), l.strayed \/ l.owed = {}
  PROVE  Promises(Ended(l), nodes) /\ Ended(l).strayed = l.strayed /\ Ended(l).owed = l.owed
         /\ Directory(Ended(l)) = Directory(l)
<1> DEFINE e == Ended(l)
<1>1. e = [l EXCEPT !.passing = FALSE, !.streaming = FALSE, !.must = {}, !.may = {}]
  BY DEF Ended
<1>2. l \in Lister
  BY DEF Promises
<1> HIDE DEF e
<1>3. e = [open |-> l.open, home |-> l.home, name |-> l.name, streaming |-> FALSE, must |-> {},
           may |-> {}, owed |-> l.owed, passing |-> FALSE, strayed |-> l.strayed]
  BY <1>1, <1>2 DEF Lister
<1>4. e \in Lister
  BY <1>2, <1>3 DEF Lister
<1>5. Directory(e) = Directory(l)
  BY <1>3 DEF Directory
<1>6. e.strayed = l.strayed /\ e.owed = l.owed
  BY <1>3
<1>7. l.owed \subseteq Entries(Directory(l), nodes) /\ (~l.open => l.owed = {})
  BY DEF Promises
<1>8. e.passing = e.streaming /\ e.open = l.open /\ e.must = {}
  BY <1>3
<1>9. Promises(e, nodes)
  BY <1>4, <1>5, <1>6, <1>7, <1>8 DEF Promises
<1> QED
  BY <1>5, <1>6, <1>9 DEF e

LEMMA NoEntryKeeps ==
  ASSUME TreeWellFormed, Promises(lister, Nodes), NoEntry
  PROVE  Promises(lister', Nodes') /\ ListsEntries'
<1> DEFINE l == Begun(lister)
<1>1. lister.open /\ UNCHANGED <<dirs, files>> /\ answer'.op = "end"
  BY DEF NoEntry, Answer
<1>2. Nodes' = Nodes
  BY <1>1 DEF Nodes
<1>3. PICK k : /\ Promises(k, Nodes) /\ (k.strayed \/ k.owed = {}) /\ lister' = Ended(k)
  <2>1. CASE Listed \in dirs /\ l.must = {} /\ lister' = Ended(l)
    <3>1. Promises(l, Nodes)
      BY <1>1, BegunIs
    <3>2. l.strayed \/ l.owed = {}
      BY <2>1, <3>1 DEF Promises
    <3> QED
      BY <2>1, <3>1, <3>2
  <2>2. CASE Listed \notin dirs /\ lister' = Ended(lister)
    <3>1. Entries(Listed, Nodes) = {}
      BY <2>2 DEF Entries, TreeWellFormed, Tree, Nodes
    <3>2. lister.owed = {}
      BY <3>1 DEF Promises, Directory, Listed
    <3> QED
      BY <2>2, <3>2
  <2> QED
    BY <2>1, <2>2 DEF NoEntry
<1>4. Promises(lister', Nodes') /\ (lister'.strayed \/ lister'.owed = {})
  BY <1>2, <1>3, EndedIs
<1> QED
  BY <1>1, <1>4 DEF ListsEntries

\* A call that is no call of the listing is not about it.
LEMMA OtherAnswers ==
  ASSUME Next
  PROVE  answer'.op \notin {"next", "end", "throws"}
<1>1. ASSUME NEW s \in FileString PROVE ~(\E creates \in BOOLEAN : OpenFile(s, creates) /\ answer'.op # "open")
  BY DEF OpenFile, Answer
<1>2. ASSUME NEW s \in FileString, NEW op, Delete(op, s) PROVE answer'.op = op
  BY <1>2 DEF Delete, Answer
<1>3. ASSUME NEW s \in FolderString, NEW create, SetSDCardFolderPath(s, create)
      PROVE  answer'.op \in {"setFolder", "setFolderCreating"}
  BY <1>3 DEF SetSDCardFolderPath, Answer
<1>4. ASSUME NEW null, NEW n, SetSDCardFileData(null, n) PROVE answer'.op = "setFileData"
  BY <1>4 DEF SetSDCardFileData, Answer
<1>5. Begin => answer'.op = "begin"
  BY DEF Begin, Answer
<1>6. ASSUME NEW s PROVE CallExists(s) => answer'.op = "exists"
  BY DEF CallExists, Answer
<1>7. ASSUME NEW s PROVE Mkdir(s) => answer'.op = "mkdir"
  BY DEF Mkdir, Answer
<1> QED
  BY <1>1, <1>2, <1>3, <1>4, <1>5, <1>6, <1>7 DEF Next, Rmdir, RemoveName

LEMMA UnopenedPromises ==
  ASSUME NEW nodes
  PROVE  Promises(Unopened, nodes)
  BY EmptyType DEF Unopened, Promises, Lister

LEMMA OpenDirectoryKeeps ==
  ASSUME TreeWellFormed, NEW s \in FileString, OpenDirectory(s)
  PROVE  Promises(lister', Nodes') /\ ListsEntries'
<1>1. Next
  BY DEF OpenDirectory, Next
<1>2. lister' = [open |-> TRUE, home |-> folder, name |-> Opened(s), streaming |-> FALSE,
                 must |-> {}, may |-> {}, owed |-> {}, passing |-> FALSE, strayed |-> FALSE]
  BY DEF OpenDirectory, Unopened
<1>3. Opened(s) \in PathString /\ folder \in PathString
  <2>1. s \in PathString
    BY StringAssumption
  <2>2. (s.abs /\ Len(s.comps) > 1) \in BOOLEAN
    OBVIOUS
  <2> QED
    BY <2>1, <2>2, FolderType DEF Opened, PathString
<1>4. Promises(lister', Nodes')
  BY <1>2, <1>3 DEF Promises, Lister
<1>5. ListsEntries'
  BY <1>1, OtherAnswers DEF ListsEntries
<1> QED
  BY <1>4, <1>5

LEMMA ListingStep ==
  ASSUME LInv, ListingNext
  PROVE  LInv'
<1>1. TreeWellFormed /\ TreeWellFormed' /\ Promises(lister, Nodes)
  BY StepSound DEF LInv, Sound
<1>2. CASE ~lister.open /\ Next /\ UNCHANGED lister
  <2>1. lister.owed = {}
    BY <1>1, <1>2 DEF Promises
  <2>2. Promises(lister', Nodes')
    BY <1>1, <1>2, <2>1 DEF Promises
  <2>3. ListsEntries'
    BY <1>2, OtherAnswers DEF ListsEntries
  <2> QED
    BY <1>1, <2>2, <2>3 DEF LInv
<1>3. CASE lister.open /\ Meanwhile /\ Watched
  <2>1. Next
    BY <1>3 DEF Meanwhile, Next
  <2>2. ListsEntries'
    BY <2>1, OtherAnswers DEF ListsEntries
  <2> QED
    BY <1>1, <1>3, <2>2, WatchedKeeps DEF LInv
<1>4. ASSUME NEW s \in FileString, OpenDirectory(s) PROVE LInv'
  BY <1>1, <1>4, OpenDirectoryKeeps DEF LInv
<1>5. CASE CloseDirectory
  <2>1. lister' = Unopened /\ answer'.op = "close"
    BY <1>5 DEF CloseDirectory, Answer
  <2>2. ListsEntries'
    BY <2>1 DEF ListsEntries
  <2> QED
    BY <1>1, <2>1, <2>2, UnopenedPromises DEF LInv
<1>6. CASE NextEntry
  BY <1>1, <1>6, NextEntryKeeps DEF LInv
<1>7. CASE NoEntry
  BY <1>1, <1>7, NoEntryKeeps DEF LInv
<1> QED
  BY <1>2, <1>3, <1>4, <1>5, <1>6, <1>7 DEF ListingNext

\* LinuxFile.cpp:190-224: a listing, at every pass of it, returns each entry under its own
\* path and misses none that was there throughout, while the folder stays where it was,
\* whatever the paths look like and whatever the rest of the program makes and deletes.
THEOREM ListingComplete == ListingSpec => []ListsEntries
<1>1. ListingInit => LInv
  BY InitTree, UnopenedPromises DEF ListingInit, Init, LInv, ListsEntries
<1>2. LInv /\ [ListingNext]_listingVars => LInv'
  <2>1. LInv /\ ListingNext => LInv'
    BY ListingStep
  <2>2. LInv /\ UNCHANGED listingVars => LInv'
    BY DEF listingVars, vars, LInv, TreeWellFormed, Tree, TypeOK, ListsEntries, Nodes, Listed
  <2> QED
    BY <2>1, <2>2
<1>3. LInv => ListsEntries
  BY DEF LInv
<1> QED
  BY <1>1, <1>2, <1>3, PTL DEF ListingSpec

-----------------------------------------------------------------------------
(***************************************************************************)
(* The InMemoryFile that openNextFile() returns when nothing is left, and  *)
(* the one over the buffer of setSDCardFileData(): for every width of      *)
(* _size and every buffer                                                  *)
(***************************************************************************)
\* _size is negative, or within the buffer; a position of a file that is not
\* empty is within it too, which seek() and the reads both have to keep.
MemoryInv ==
  /\ MemoryTypeOK
  /\ size <= length
  /\ size > 0 => position <= size
  /\ size > 0 /\ length < Half => size = length
  /\ InBounds
  /\ ShortReadIsEnd

LEMMA MemoryWidth ==
  Half \in Int /\ Half > 0 /\ Word \in Int /\ Word = Half + Half
  BY HalfAssumption DEF Word

LEMMA MemoryStarts == ASSUME MemoryInit PROVE MemoryInv
<1>0. length \in UInt
  <2>1. 0 \in UInt
    BY MemoryWidth DEF UInt
  <2> QED
    BY <2>1, BufferAssumption DEF MemoryInit
<1>1. length \in UInt /\ length \in Int /\ length >= 0 /\ length < Word
  BY <1>0, MemoryWidth DEF UInt
<1>2. CASE length \in BufferSize /\ size = ToSigned(length)
  BY <1>1, <1>2, MemoryWidth
     DEF MemoryInit, MemoryInv, MemoryTypeOK, InBounds, ShortReadIsEnd,
         Nothing, ToSigned, UInt, SInt
<1>3. CASE length = 0 /\ size = -1
  BY <1>1, <1>3, MemoryWidth
     DEF MemoryInit, MemoryInv, MemoryTypeOK, InBounds, ShortReadIsEnd,
         Nothing, UInt, SInt
<1> QED
  BY <1>2, <1>3 DEF MemoryInit

\* What any read takes: no more than there is, and less than asked only at the end.
LEMMA MemoryTaking ==
  ASSUME MemoryInv, NEW n \in UInt, NEW k \in 0 .. n,
         Take(n, k), k <= Left, k < n => k = Left
  PROVE  MemoryInv'
<1>1. /\ size \in Int /\ -Half <= size /\ size < Half
      /\ position \in Int /\ 0 <= position /\ position < Word
      /\ length \in Int /\ 0 <= length /\ length < Word
      /\ size <= length /\ (size > 0 => position <= size)
      /\ n \in Int /\ k \in Int /\ 0 <= k /\ k <= n /\ n < Word
  BY MemoryWidth DEF MemoryInv, MemoryTypeOK, SInt, UInt
<1>2. Left = IF size >= 0 /\ position < size THEN size - position ELSE 0
  BY <1>1 DEF Left, ToUnsigned
<1>3. /\ position' = position + k /\ size' = size /\ length' = length /\ isOpen' = isOpen
      /\ read' = [asked |-> n, from |-> position, to |-> position + k]
  BY DEF Take
<1>4. k > 0 => size > 0 /\ position + k <= size
  BY <1>1, <1>2
<1>5. MemoryTypeOK'
  BY <1>1, <1>3, <1>4, MemoryWidth DEF MemoryInv, MemoryTypeOK, UInt
<1>6. InBounds'
  BY <1>1, <1>3, <1>4 DEF InBounds
<1>7. ShortReadIsEnd'
  <2>1. k < n => Left' = 0
    BY <1>1, <1>2, <1>3 DEF Left, ToUnsigned
  <2> QED
    BY <1>1, <1>3, <2>1 DEF ShortReadIsEnd, Available
<1> QED
  BY <1>1, <1>3, <1>4, <1>5, <1>6, <1>7 DEF MemoryInv

LEMMA MemoryStep ==
  ASSUME MemoryInv, [MemoryNext]_memoryVars
  PROVE  MemoryInv'
<1>1. /\ size \in Int /\ -Half <= size /\ size < Half
      /\ position \in Int /\ 0 <= position /\ position < Word
      /\ length \in Int /\ 0 <= length /\ length < Word
  BY MemoryWidth DEF MemoryInv, MemoryTypeOK, SInt, UInt
<1>2. Left \in Nat
  BY <1>1 DEF Left, ToUnsigned
<1>3. ASSUME NEW n \in ReadSize, ReadBuf(n) PROVE MemoryInv'
  <2>1. n \in UInt /\ n \in Nat
    BY MemoryWidth, BufferAssumption DEF UInt
  <2> DEFINE k == IF n < Left THEN n ELSE Left
  <2>2. k \in 0 .. n /\ k <= Left /\ (k < n => k = Left)
    BY <1>2, <2>1
  <2>3. Take(n, k)
    BY <1>3 DEF ReadBuf
  <2> HIDE DEF k
  <2> QED
    BY <2>1, <2>2, <2>3, MemoryTaking
<1>4. CASE ReadByte
  <2>1. 1 \in UInt
    BY MemoryWidth DEF UInt
  <2> DEFINE k == IF Left > 0 THEN 1 ELSE 0
  <2>2. k \in 0 .. 1 /\ k <= Left /\ (k < 1 => k = Left)
    BY <1>2
  <2>3. Take(1, k)
    BY <1>4 DEF ReadByte
  <2> HIDE DEF k
  <2> QED
    BY <2>1, <2>2, <2>3, MemoryTaking
<1>5. ASSUME NEW pos \in UInt, Seek(pos) PROVE MemoryInv'
  <2>1. pos \in Int /\ 0 <= pos /\ pos < Word
    BY MemoryWidth DEF UInt
  <2> QED
    BY <1>1, <1>5, <2>1, MemoryWidth
       DEF Seek, MemoryInv, MemoryTypeOK, InBounds, ShortReadIsEnd,
           Nothing, ToUnsigned, UInt, SInt
<1>6. CASE Truncate
  BY <1>1, <1>6, MemoryWidth
     DEF Truncate, MemoryInv, MemoryTypeOK, InBounds, ShortReadIsEnd,
         Nothing, UInt, SInt
<1>7. CASE Close
  <2>1. /\ isOpen' = FALSE /\ size' = size /\ position' = position /\ length' = length
        /\ read' = [asked |-> 0, from |-> 0, to |-> 0]
    BY <1>7 DEF Close, Nothing
  <2>2. MemoryTypeOK'
    <3>1. 0 \in UInt
      BY MemoryWidth DEF UInt
    <3> QED
      BY <2>1, <3>1, MemoryWidth DEF MemoryInv, MemoryTypeOK, UInt, SInt,
                                     Word
  <2>3. InBounds' /\ ShortReadIsEnd'
    BY <2>1 DEF InBounds, ShortReadIsEnd
  <2> QED
    BY <2>1, <2>2, <2>3 DEF MemoryInv
<1>8. CASE UNCHANGED memoryVars
  BY <1>8
     DEF memoryVars, MemoryInv, MemoryTypeOK, InBounds, ShortReadIsEnd,
         Available, Left
<1> QED
  BY <1>3, <1>4, <1>5, <1>6, <1>7, <1>8 DEF MemoryNext

\* The strengthened invariant holds for every buffer.
THEOREM MemoryInvariance == MemorySpec => []MemoryInv
<1>1. MemoryInit => MemoryInv
  BY MemoryStarts
<1>2. MemoryInv /\ [MemoryNext]_memoryVars => MemoryInv'
  BY MemoryStep
<1> QED
  BY <1>1, <1>2, PTL DEF MemorySpec

\* The variables keep their types: the position of a file of any size stays a
\* uint32_t, whatever _size wrapped to and whatever was sought.
THEOREM MemoryTypes == MemorySpec => []MemoryTypeOK
<1>1. MemoryInv => MemoryTypeOK
  BY DEF MemoryInv
<1> QED
  BY <1>1, MemoryInvariance, PTL

\* No read leaves the caller's buffer, whatever its size and whatever was
\* sought, and even if the size does not fit in an int32_t.
THEOREM ReadsInBounds == MemorySpec => []InBounds
<1>1. MemoryInv => InBounds
  BY DEF MemoryInv
<1> QED
  BY <1>1, MemoryInvariance, PTL

\* A short read is at the end.
THEOREM ShortReads == MemorySpec => []ShortReadIsEnd
<1>1. MemoryInv => ShortReadIsEnd
  BY DEF MemoryInv
<1> QED
  BY <1>1, MemoryInvariance, PTL

\* A buffer an int32_t can measure is read to its last byte and no further.
THEOREM ReadsToTheEnd == MemorySpec => []EndIsReached
<1>1. MemoryInv => EndIsReached
  <2> SUFFICES ASSUME MemoryInv PROVE EndIsReached
    OBVIOUS
  <2>1. size \in Int /\ position \in Int /\ length \in Int
    BY MemoryWidth DEF MemoryInv, MemoryTypeOK, SInt, UInt
  <2> QED
    BY <2>1 DEF MemoryInv, EndIsReached, Available, Left,
                ToUnsigned
<1> QED
  BY <1>1, MemoryInvariance, PTL
=============================================================================

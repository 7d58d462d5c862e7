----------------------------- MODULE SdWalks ------------------------------
(***************************************************************************)
(* The calls that go down a tree of the SdFat layer: rmRfStar and ls       *)
(* (src/src/utility/SdFile.cpp) and the walks over paths of                *)
(* src/src/SD.cpp, made of the operations of SdDirectory, whose calls a    *)
(* program makes, too.                                                     *)
(***************************************************************************)
EXTENDS SdDirectory

CONSTANTS
  Component,        \* what stands between the slashes of a path
  Pieces(_),        \* the components that getNextPathComponent makes of one
  Paths             \* bound: the paths used

ASSUME PieceAssumption == \A c \in Component : Pieces(c) \in Seq(Name \cup {Bad}) \ {<<>>}
ASSUME PathAssumption == Paths \subseteq Seq(Component) \ {<<>>}
ASSUME DepthAssumption == Cardinality(Local) >= Max({3, Cardinality(Node) + 1})

-----------------------------------------------------------------------------
(***************************************************************************)
(* Whole directories                                                       *)
(***************************************************************************)
\* rmRfStar(), from slot i on; the loop's SdFile is one of those that are closed
RECURSIVE RmRfFrom(_, _, _)
RmRfFrom(s, h, i) ==
  LET o == s.obj[h]
      d == s.disk[o.node]
      f == CHOOSE g \in Local : ~IsOpen(s.obj[g])
      end == IF IsRoot(o) THEN Yes(s) ELSE RmDir(s, h)
      inside(t) == IF t.obj[f].type = "dir" THEN RmRfFrom(t, f, 0)
                   ELSE Remove([t EXCEPT !.obj[f].write = TRUE], f)
  IN IF i >= o.size THEN end
     ELSE Access(s, LAMBDA t :
       IF d[i + 1].what = "free" THEN end
       ELSE IF ~IsUsed(d[i + 1]) THEN RmRfFrom(s, h, i + 1)
       ELSE And(Forget(And(OpenAt(s, f, h, i, {"read"}), inside), f),
                LAMBDA u : RmRfFrom(u, h, i + 1)))
RmRfStar(s, h) == RmRfFrom(s, h, 0)

\* ls(): the names, those of a subdirectory behind its own.  An entry that cannot be
\* opened is skipped, and a slot that cannot be read ends the directory.
RECURSIVE LsFrom(_, _, _)
LsFrom(s, h, i) ==
  LET o == s.obj[h]
      d == s.disk[o.node]
      f == CHOOSE g \in Local : ~IsOpen(s.obj[g])
      listed(t, l) == {[s |-> t, l |-> l]}
      on(t, l) == {[r EXCEPT !.l = l \o @] : r \in LsFrom(t, h, i + 1)}
      inside(r) == IF r.ok THEN LsFrom(r.s, f, 0) ELSE listed(r.s, <<>>)
  IN IF ~IsDir(o) \/ i >= o.size THEN listed(s, <<>>)
     ELSE {[s |-> r.s, l |-> <<>>] : r \in Fault(s)} \cup
       IF d[i + 1].what = "free" THEN listed(s, <<>>)
       ELSE IF ~IsUsed(d[i + 1]) THEN LsFrom(s, h, i + 1)
       ELSE IF d[i + 1].what = "file" THEN on(s, <<d[i + 1].name>>)
       ELSE UNION {on([q.s EXCEPT !.obj[f] = Closed], <<d[i + 1].name>> \o q.l)
                   : q \in UNION {inside(r) : r \in OpenAt(s, f, h, i, {"read"})}}
Ls(s, h) == LsFrom(s, h, 0)

-----------------------------------------------------------------------------
(***************************************************************************)
(* Walks (SD.cpp).  A component of more than 12 characters is taken for    *)
(* several.                                                                *)
(***************************************************************************)
Split(path) ==
  LET to[k \in 0 .. Len(path)] == IF k = 0 THEN <<>> ELSE to[k - 1] \o Pieces(path[k])
  IN to[Len(path)]

Sub1  == CHOOSE h \in Local : h # Child
Sub2  == CHOOSE h \in Local : h \notin {Child, Sub1}

\* the callbacks
PathExists(s, p, name, last) ==
  Forget(And(Open(s, Child, p, name, {"read"}),
             LAMBDA t : {[r EXCEPT !.ok = TRUE] : r \in Close(t, Child)}), Child)

MakeDirPath(s, p, name, last) ==
  UNION {IF r.ok THEN {r} ELSE Forget(MakeDir(r.s, Child, p, name), Child)
         : r \in PathExists(s, p, name, last)}

RemoveLast(s, p, name, last) == IF last THEN RemoveName(s, Child, p, name) ELSE Yes(s)

RmDirLast(s, p, name, last) ==
  IF last THEN Forget(And(Open(s, Child, p, name, {"read"}), LAMBDA t : RmDir(t, Child)), Child)
  ELSE Yes(s)

\* walkPath() along names from root: the callback at each, then into it
Callback(s, what, p, name, last) ==
  CASE what = "exists" -> PathExists(s, p, name, last)
    [] what = "mkdir"  -> MakeDirPath(s, p, name, last)
    [] what = "remove" -> RemoveLast(s, p, name, last)
    [] what = "rmdir"  -> RmDirLast(s, p, name, last)

RECURSIVE Walk(_, _, _, _, _, _)
Walk(s, root, parent, child, names, what) ==
  LET last == Len(names) = 1
      leave(R) == IF parent = root THEN R
                  ELSE UNION {{[q EXCEPT !.ok = r.ok] : q \in Close(r.s, parent)} : r \in R}
      other == IF parent = root THEN Sub2 ELSE parent
  IN UNION {IF ~r.ok \/ last THEN leave({r})
            ELSE And(leave(Open(r.s, child, parent, Head(names), {"read"})),
                     LAMBDA t : Walk(t, root, child, other, Tail(names), what))
            : r \in Callback(s, what, parent, Head(names), last)}

WalkPath(s, root, path, what) ==
  Forget(Forget(Walk(s, root, root, Sub1, Split(path), what), Sub1), Sub2)

\* getParentDir(), from a copy of root; the copy of the directory it finds is Child
RECURSIVE Descend(_, _, _, _)
Descend(s, parent, subdir, names) ==
  IF Len(names) = 1 THEN Yes([s EXCEPT !.obj[Child] = s.obj[parent]])
  ELSE Then(Close(s, subdir), LAMBDA t :
       And(Open(t, subdir, parent, Head(names), {"read"}), LAMBDA u :
       Then(Close(u, parent), LAMBDA v : Descend(v, subdir, parent, Tail(names)))))
GetParentDir(s, root, path) ==
  Descend([s EXCEPT !.obj[Sub1] = s.obj[root]], Sub1, Sub2, Split(path))

-----------------------------------------------------------------------------
(***************************************************************************)
(* Calls                                                                   *)
(***************************************************************************)
Answers(R, call, path) == \E r \in R : Returns(r, call, path, r.ok)

CallRmRfStar == \E h \in Handle :
  Opened(h) /\ IsDir(obj[h]) /\ Answers(RmRfStar(Now, h), "rmRfStar", <<obj[h].node, obj[h].at>>)
CallLs == \E h \in Handle :
  Opened(h) /\ IsDir(obj[h]) /\ \E r \in Ls(Now, h) : Returns(r, "ls", r.l, h)
CallWalk == \E h \in Handle, p \in Paths, what \in {"exists", "mkdir", "remove", "rmdir"} :
  Opened(h) /\ IsRoot(obj[h]) /\ Answers(WalkPath(Now, h, p, what), what, p)
CallParent == \E h \in Handle, p \in Paths :
  /\ Opened(h) /\ IsRoot(obj[h])
  /\ \E r \in GetParentDir(Now, h, p) :
       Returns(r, "parent", p, IF r.ok THEN r.s.obj[Child].node ELSE None)

WalksNext == Next \/ CallRmRfStar \/ CallLs \/ CallWalk \/ CallParent

WalksSpec == Init /\ [][WalksNext]_vars
-----------------------------------------------------------------------------
(***************************************************************************)
(* Properties                                                              *)
(***************************************************************************)
RECURSIVE Under(_)
Under(d) == {d} \cup UNION {Under(e) : e \in Subdirs(d)}

Gone == {p \in Chains \X (1 .. ClusterCount * Slots) :
           /\ p[1] \in DirChains /\ p[1] \in DirChains' /\ p[2] \in Used(p[1])
           /\ p[2] \notin Used(p[1])'}
\* the entries that objects of files have
Turned == {obj[h].at : h \in {g \in Handle : obj[g].type = "file"}}
\* A step removes nothing but what the call is for: remove() one file, rmDir() one
\* directory that is empty, rmRfStar() a directory and what is below it, and other
\* calls nothing.  An object that a failed rmDir() turned into one of a file removes
\* the directory all the same (SdFile.cpp:779-795, 836-857, 874-911).
RemovesOnlyThat ==
  [][~lost' =>
       CASE disk' = disk -> TRUE
         [] answer'.call = "rmRfStar" ->
              LET top == answer'.path[1] IN
              \A p \in Gone : p = answer'.path[2] \/ (top # None /\ p[1] \in Under(top))
         [] answer'.call \in {"remove", "rmdir"} ->
              \A p, q \in Gone :
                LET e == disk[p[1]][p[2]] IN
                /\ p = q
                /\ e.what = "dir" => p \in Turned \/ (answer'.call = "rmdir" /\ Used(e.node) = {})
                /\ e.what = "file" => answer'.call = "remove" \/ e.size = 0
         [] OTHER -> Gone = {}]_vars

\* What a path stands for: a slot, or nothing
Look(d, name) == {<<d, i>> : i \in {j \in Used(d) : disk[d][j].name = name}}
RECURSIVE Resolve(_, _)
Resolve(dirs, names) ==
  LET there == UNION {Look(d, Head(names)) : d \in dirs}
  IN IF Len(names) = 1 THEN there
     ELSE Resolve({At(Now, p).node : p \in {q \in there : At(Now, q).what = "dir"}} \ {None},
                  Tail(names))
Found(path) == Resolve({Root}, Split(path))
\* a component that is not the last is a file
Blocked(path) ==
  \E k \in 1 .. Len(Split(path)) - 1 :
    \E p \in Resolve({Root}, SubSeq(Split(path), 1, k)) : At(Now, p).what = "file"

RECURSIVE Listing(_, _)
Listing(d, i) ==
  IF i > Len(disk[d]) THEN <<>>
  ELSE LET e == disk[d][i] IN
       (IF ~IsUsed(e) THEN <<>> ELSE <<e.name>>)
         \o (IF e.what = "dir" /\ e.node # None THEN Listing(e.node, 1) ELSE <<>>)
         \o Listing(d, i + 1)

\* What the walks answer is so: unless an access fails, a path exists when it can be
\* followed from the root; mkdir() that succeeds leaves it so, unless a file is in the
\* way (MkdirMakes), remove() and rmdir() the opposite; the parent is the directory
\* before the last component; rmRfStar() leaves nothing; readDir() returns the next
\* entry; ls() lists every entry below, once, in order (SD.cpp:125-412,
\* SdFile.cpp:200-241, 729-744, 874-911).
AnswersAgree ==
  LET p == answer.path IN
  ~lost =>
    CASE answer.call = "exists" /\ answer.sure -> answer.value <=> Found(p) # {}
      [] answer.call = "mkdir" -> answer.value /\ ~Blocked(p) => Found(p) # {}
      [] answer.call \in {"remove", "rmdir"} /\ p # <<>> -> answer.value => Found(p) = {}
      [] answer.call = "parent" ->
           answer.value # None => \A q \in Found(p) : q[1] = answer.value
      [] answer.call = "rmRfStar" /\ answer.value ->
           IF p[1] = Root THEN Used(Root) = {} ELSE p[1] \notin DirChains
      [] answer.call = "readDir" /\ p[1] # None ->
           LET ahead == {j \in Used(p[1]) : j > p[2]}
           IN answer.value = IF ahead = {} THEN 0 ELSE Min(ahead)
      [] answer.call = "ls" /\ answer.sure /\ obj[answer.value].node # None ->
           p = Listing(obj[answer.value].node, 1)
      [] OTHER -> TRUE

\* mkdir() that succeeds has made the directory.  "Returns true if a directory was
\* created or it already existed." (SD.cpp:271): an empty file on the way passes for a
\* directory, and the entry is written into a cluster of that file.
MkdirMakes == answer.call = "mkdir" /\ answer.value => Found(answer.path) # {}
=============================================================================

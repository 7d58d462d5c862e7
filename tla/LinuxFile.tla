----------------------------- MODULE LinuxFile -----------------------------
(***************************************************************************)
(* Files in a folder of the host: File objects (src/src/File.cpp) that     *)
(* share LinuxFile objects (src/src/LinuxFile.cpp), each with a stream of  *)
(* its own over a host file, and SDClass::open and remove seen from them.  *)
(*                                                                         *)
(* The paths are those of regular files; directories, path composition and *)
(* the in-memory mode are modelled by SdFolder and InMemoryFile.           *)
(***************************************************************************)
EXTENDS FStream, FiniteSets

CONSTANTS
  Path,          \* names of files in the SD folder
  Handle,        \* the program's File variables
  Impl,          \* LinuxFile objects on the heap
  Inode,         \* files of the host file system
  Null,          \* the null shared_ptr; the inode of a name that is not there
  OpenModes,     \* the values of the mode argument of open(): sets of O_ flags
  Data,          \* what a program passes to write(): non-empty byte sequences
  MaxLen,        \* bound: no write ends beyond it, and no read asks for more
  Offsets,       \* bound: where a program seeks to and truncates at
  MayReassign    \* may a program assign an open()'s result to a File in use?

ASSUME NullAssumption == Null \notin Impl /\ Null \notin Inode
ASSUME LenAssumption == MaxLen \in Nat \ {0}
ASSUME OffsetsAssumption == Offsets \subseteq Nat
ASSUME DataAssumption == Data \subseteq Seq(Nat) \ {<<>>}
ASSUME ReassignAssumption == MayReassign \in BOOLEAN

VARIABLES
  inode,   \* the folder: which host file a name stands for, Null if none
  disk,    \* the bytes of each host file
  impl,    \* the LinuxFile objects
  handle,  \* File::file: the LinuxFile a File shares, or Null
  alone,   \* history: nothing but the object's own stream touched its file
  killed   \* history: the program was killed with a file open, and opened none since

vars == <<inode, disk, impl, handle, alone, killed>>

\* `asked' is history: was O_APPEND in the mode the object was opened with?
Free == [live |-> FALSE, path |-> Null, ino |-> Null, size |-> 0, asked |-> FALSE, st |-> Closed]

TypeOK ==
  /\ inode \in [Path -> Inode \cup {Null}]
  /\ disk \in [Inode -> Seq(Nat)]
  /\ handle \in [Handle -> Impl \cup {Null}]
  /\ alone \in [Impl -> BOOLEAN] /\ killed \in BOOLEAN
  /\ DOMAIN impl = Impl
  /\ \A i \in Impl :
       /\ impl[i].live \in BOOLEAN
       /\ impl[i].path \in Path \cup {Null}
       /\ impl[i].ino \in Inode \cup {Null}
       /\ impl[i].size \in Nat /\ impl[i].asked \in BOOLEAN
       /\ impl[i].st.mode \in {"idle", "get", "put"}
       /\ impl[i].st.off \in Nat
       /\ impl[i].st.buf \in Seq(Nat)
       /\ impl[i].st.open => impl[i].live /\ impl[i].ino \in Inode

Init ==
  /\ inode = [p \in Path |-> Null]
  /\ disk = [n \in Inode |-> <<>>]
  /\ impl = [i \in Impl |-> Free]
  /\ handle = [h \in Handle |-> Null]
  /\ alone = [i \in Impl |-> FALSE] /\ killed = FALSE

(***************************************************************************)
(* Ownership: a LinuxFile is destroyed, and its stream closed, when the    *)
(* last File that shares it lets go (std::shared_ptr, ~LinuxFile).         *)
(***************************************************************************)
Unshared(hs, im) == {i \in Impl : im[i].live /\ \A h \in Handle : hs[h] # i}

\* faulty: the destructor leaves the stream open
DestroyedOpen(hs, im) ==
  [i \in Impl |-> IF i \in Unshared(hs, im) THEN [im[i] EXCEPT !.live = FALSE] ELSE im[i]]

Destroyed(hs, im) == [i \in Impl |-> IF i \in Unshared(hs, im) THEN Free ELSE im[i]]

\* faulty: the stream goes without being closed
NotDrained(hs, im, dk) == dk

DrainedBy(hs, im, dk) ==
  [n \in Inode |->
     LET closing == {i \in Unshared(hs, im) : im[i].st.open /\ im[i].ino = n}
     IN  IF closing = {} THEN dk[n]
         ELSE Synced(im[CHOOSE i \in closing : TRUE].st, dk[n])]

\* the host forgets a file that has neither a name nor an open descriptor
Reclaimed(names, im, dk) ==
  [n \in Inode |-> IF \/ \E p \in Path : names[p] = n
                      \/ \E i \in Impl : im[i].st.open /\ im[i].ino = n
                   THEN dk[n] ELSE <<>>]

\* the File variables become hs while the objects are im, the files dk, the
\* folder names and the history al
Release(hs, im, dk, names, al) ==
  /\ handle' = hs
  /\ inode' = names
  /\ impl' = Destroyed(hs, im)
  /\ disk' = Reclaimed(names, Destroyed(hs, im), DrainedBy(hs, im, dk))
  /\ alone' = [i \in Impl |-> al[i] /\ i \notin Unshared(hs, im)]
  /\ killed' = (killed /\ \A i \in Impl : ~impl'[i].st.open)

(***************************************************************************)
(* SDClass::open and the LinuxFile constructor                             *)
(***************************************************************************)
\* faulty: O_APPEND is taken for O_TRUNC
IosFlagsCutting(mode) ==
  (IF "O_READ" \in mode THEN {"in"} ELSE {})
    \cup (IF "O_WRITE" \in mode THEN {"out"} ELSE {})
    \cup (IF {"O_APPEND", "O_TRUNC"} \cap mode # {} THEN {"trunc"} ELSE {})

\* the openmode the constructor builds: every other O_ flag is ignored
IosFlags(mode) ==
  (IF "O_READ" \in mode THEN {"in"} ELSE {})
    \cup (IF "O_WRITE" \in mode THEN {"out"} ELSE {})
    \cup (IF "O_APPEND" \in mode THEN {"app"} ELSE {})
    \cup (IF "O_TRUNC" \in mode THEN {"trunc"} ELSE {})

InUse(n) == (\E p \in Path : inode[p] = n)
              \/ (\E i \in Impl : impl[i].st.open /\ impl[i].ino = n)

\* h = SD.open(p, mode): the new object is complete, and its size() read
\* from the host, before h lets go of the object it had
Open(h, p, mode) ==
  LET flags == IosFlags(mode)
      ok    == Opens(flags, inode[p] # Null)
  IN  /\ handle[h] = Null \/ MayReassign
      /\ \E i \in {j \in Impl : ~impl[j].live} :
         \E n \in IF inode[p] # Null THEN {inode[p]}
                  ELSE IF ok THEN {m \in Inode : ~InUse(m)} ELSE {Null} :
           LET data  == IF n # Null /\ ok /\ (inode[p] = Null \/ Truncates(flags))
                        THEN [disk EXCEPT ![n] = <<>>] ELSE disk
               names == IF ok THEN [inode EXCEPT ![p] = n] ELSE inode
               obj   == [live |-> TRUE, path |-> p, ino |-> IF ok THEN n ELSE Null,
                         size |-> IF n = Null THEN 0 ELSE Len(data[n]),
                         asked |-> "O_APPEND" \in mode,
                         st |-> IF ok THEN Fresh(flags) ELSE Unopened]
               users == {j \in Impl : ok /\ impl[j].st.open /\ impl[j].ino = n}
           IN  Release([handle EXCEPT ![h] = i], [impl EXCEPT ![i] = obj], data, names,
                       [j \in Impl |-> IF j = i THEN ok /\ users = {}
                                       ELSE alone[j] /\ j \notin users])

(***************************************************************************)
(* Calls on a File that shares an object.  Every one goes through the      *)
(* null shared_ptr when there is none: a program that makes such a call    *)
(* crashes, and is left out.                                               *)
(***************************************************************************)
Touch(i, r, size) ==      \* object i after a call on its stream that gave r
  /\ impl' = [impl EXCEPT ![i].st = r.st, ![i].size = size]
  /\ disk' = IF impl[i].ino = Null THEN disk ELSE [disk EXCEPT ![impl[i].ino] = r.data]
  /\ UNCHANGED <<inode, handle, alone, killed>>

Content(i) == IF impl[i].ino = Null THEN <<>> ELSE disk[impl[i].ino]

\* what write() answers: the distance the position moved, unsigned
WriteReturns(s, r) == IF r.val THEN Tell(r.st) - Tell(s) ELSE 0

\* faulty: every write grows the size
WriteBufAdds(h, b, spill, older) ==
  LET i == handle[h]
      r == Write(impl[i].st, Content(i), b, spill, older)
  IN  /\ i # Null /\ impl[i].st.open
      /\ Tell(impl[i].st) + Len(b) <= MaxLen /\ Len(Synced(r.st, r.data)) <= MaxLen
      /\ Touch(i, r, IF r.val THEN impl[i].size + Len(b) ELSE impl[i].size)

WriteBuf(h, b, spill, older) ==
  LET i == handle[h]
      r == Write(impl[i].st, Content(i), b, spill, older)
  IN  /\ i # Null /\ impl[i].st.open
      /\ Tell(impl[i].st) + Len(b) <= MaxLen          \* bound
      /\ Len(Synced(r.st, r.data)) <= MaxLen          \* bound
      /\ Touch(i, r, IF r.val /\ Tell(r.st) > impl[i].size
                     THEN Tell(r.st) ELSE impl[i].size)

ReadByte(h) ==
  LET i == handle[h] IN
  /\ i # Null /\ impl[i].st.open
  /\ Touch(i, Read(impl[i].st, Content(i), 1), impl[i].size)

\* read(buf, n) does not ask whether the stream is open
ReadBuf(h, n) ==
  LET i == handle[h] IN
  /\ i # Null
  /\ Touch(i, Read(impl[i].st, Content(i), n), impl[i].size)

PeekByte(h) ==
  LET i == handle[h] IN
  /\ i # Null /\ impl[i].st.open
  /\ Touch(i, Peek(impl[i].st, Content(i)), impl[i].size)

FlushFile(h, older) ==
  LET i == handle[h] IN
  /\ i # Null /\ impl[i].st.open
  /\ Touch(i, Flush(impl[i].st, Content(i), older), impl[i].size)

SeekTo(h, pos) ==
  LET i == handle[h] IN
  /\ i # Null /\ impl[i].st.open
  /\ Touch(i, Seek(impl[i].st, Content(i), pos), impl[i].size)

AtMost(cap, n) == IF n > cap THEN cap ELSE n
AvailableCap == 32767      \* 0X7FFF

\* faulty: the position is where the stream has fetched up to
AheadOfFetched(i) ==
  IF ~impl[i].st.open \/ impl[i].st.off > impl[i].size
  THEN 0 ELSE AtMost(AvailableCap, impl[i].size - impl[i].st.off)

\* LinuxFile::available(): size() less position(), which is 2^32 - 1 after a failure
Ahead(i) ==
  IF ~impl[i].st.open \/ Tell(impl[i].st) = Failed \/ Tell(impl[i].st) > impl[i].size
  THEN 0 ELSE AtMost(AvailableCap, impl[i].size - Tell(impl[i].st))

\* File::available(), what a program calls: the count becomes a truth value
Available(h) == IF handle[h] # Null /\ Ahead(handle[h]) # 0 THEN 1 ELSE 0

\* truncate() goes to the host by path, whatever the stream is or holds
Truncate(h, n) ==
  LET i == handle[h]
      f == inode[impl[i].path]
  IN  /\ i # Null /\ f # Null
      /\ disk' = [disk EXCEPT ![f] = Resize(@, n)]
      /\ alone' = [j \in Impl |-> alone[j] /\ impl[j].ino # f]
      /\ UNCHANGED <<inode, impl, handle, killed>>

\* File::close(): the shared stream closes, and this File lets go of it
CloseFile(h) ==
  LET i == handle[h]
      r == Close(impl[i].st, Content(i))
  IN  /\ i # Null
      /\ Release([handle EXCEPT ![h] = Null],
                 [impl EXCEPT ![i].st = r.st],
                 IF impl[i].st.open THEN [disk EXCEPT ![impl[i].ino] = r.data] ELSE disk,
                 inode, alone)

\* faulty: the object g had is not released
CopyLeaking(h, g) ==
  /\ h # g
  /\ handle' = [handle EXCEPT ![g] = handle[h]]
  /\ UNCHANGED <<inode, disk, impl, alone, killed>>

\* g = h: g lets go of what it had and shares what h has
Copy(h, g) ==
  /\ h # g
  /\ Release([handle EXCEPT ![g] = handle[h]], impl, disk, inode, alone)

\* h goes out of scope, or is assigned an empty File
Drop(h) ==
  /\ handle[h] # Null
  /\ Release([handle EXCEPT ![h] = Null], impl, disk, inode, alone)

\* SD.remove(p), which an open stream does not notice
Remove(p) ==
  /\ inode[p] # Null
  /\ inode' = [inode EXCEPT ![p] = Null]
  /\ disk' = Reclaimed(inode', impl, disk)
  /\ UNCHANGED <<impl, handle, alone, killed>>

\* the program is killed: no destructor runs, unwritten bytes are gone
Crash ==
  /\ \E h \in Handle : handle[h] # Null
  /\ handle' = [h \in Handle |-> Null]
  /\ impl' = [i \in Impl |-> Free]
  /\ alone' = [i \in Impl |-> FALSE]
  /\ killed' = (killed \/ \E i \in Impl : impl[i].st.open)
  /\ disk' = Reclaimed(inode, impl', disk)
  /\ UNCHANGED inode

Call(h) ==
  \/ \E p \in Path, mode \in OpenModes : Open(h, p, mode)
  \/ \E b \in Data, spill, older \in BOOLEAN : WriteBuf(h, b, spill, older)
  \/ ReadByte(h)
  \/ \E n \in 2..MaxLen : ReadBuf(h, n)
  \/ PeekByte(h)
  \/ \E older \in BOOLEAN : FlushFile(h, older)
  \/ \E pos \in Offsets : SeekTo(h, pos)
  \/ \E n \in Offsets : Truncate(h, n)
  \/ CloseFile(h)
  \/ \E g \in Handle : Copy(h, g)
  \/ Drop(h)

Next ==
  \/ \E h \in Handle : Call(h)
  \/ \E p \in Path : Remove(p)
  \/ Crash

Spec == Init /\ [][Next]_vars

(***************************************************************************)
(* Properties                                                              *)
(***************************************************************************)
\* A LinuxFile lives exactly as long as some File shares it: closing or
\* dropping one copy neither frees what another still uses (File.cpp:36-47)
\* nor leaks the last one.
SharedOwnership ==
  TypeOK /\ \A i \in Impl : impl[i].live <=> \E h \in Handle : handle[h] = i

\* size() of an open file nothing else touched is its length, the unwritten
\* bytes included, through any mix of reads, writes, peeks and seeks, for every
\* mode but appending (LinuxFile.cpp:117-125); once the stream has run to the
\* end of the file, size() is no less than that.
SizeIsEnd ==
  \A i \in Impl : alone[i] /\ impl[i].st.open /\ ~impl[i].st.app =>
    LET end == Len(Synced(impl[i].st, Content(i))) IN
    /\ end <= impl[i].size
    /\ ~impl[i].st.eof => impl[i].size = end

\* available() says 1 exactly when there is a byte behind the position, and the
\* read() that follows gets that byte, the unwritten ones included, through any
\* mix of reads, writes, peeks and seeks: for a File with a readable stream that
\* does not append, whose file nobody else touched, and on which no call has
\* failed or run to the end of the file (File.cpp:61-63, LinuxFile.cpp:148-157).
AvailableIsRead ==
  \A h \in Handle : handle[h] # Null =>
    LET i == handle[h]
        s == impl[i].st
        ahead == From(Synced(s, Content(i)), Tell(s))
    IN  alone[i] /\ s.open /\ s.rd /\ ~s.app /\ Good(s) =>
          IF ahead = <<>> THEN Available(h) = 0
          ELSE Available(h) = 1 /\ Read(s, Content(i), 1).val = <<ahead[1]>>

\* What Files opened with O_APPEND write to a file is never lost or overwritten,
\* while such Files alone have it open: however their writes, drains, copies,
\* reassignments and closing interleave, the host's file only grows at its end,
\* and the bytes a stream still holds stay with it or go there, at once behind
\* everything the host had.  Cuts by name and a kill are left out
\* (LinuxFile.cpp:44-54, 65-67; SD.h:18).
Appended(n) == \A i \in Impl : impl[i].st.open /\ impl[i].ino = n => impl[i].asked
Extends(c, e) == Len(c) <= Len(e) /\ c = SubSeq(e, 1, Len(c))
Held(i) == IF impl[i].st.mode = "put" THEN impl[i].st.buf ELSE <<>>
Lasts(n) ==
  /\ Extends(disk[n], disk'[n])
  /\ \A i \in Impl : impl[i].st.open /\ impl[i].ino = n =>
       \/ Extends(disk[n] \o Held(i), disk'[n])
       \/ impl'[i].ino = n /\ Extends(Held(i), Held(i)')
CutByName == \E h \in Handle, n \in Offsets : Truncate(h, n)
AppendLosesNothing ==
  [][ \A n \in Inode : Appended(n) /\ Appended(n)' /\ InUse(n) /\ InUse(n)' =>
        Lasts(n) \/ CutByName \/ Crash ]_vars

(***************************************************************************)
(* The promise to the only user of a file: one File, one name.             *)
(***************************************************************************)
TheFile == CHOOSE p \in Path : TRUE
Using == {i \in Impl : impl[i].st.open}      \* its stream, if it has one open
User == impl[CHOOSE i \in Using : TRUE]
Named == inode[TheFile] # Null

Promise == INSTANCE ByteFile WITH
  phase     <- IF Using # {} THEN "open" ELSE IF killed THEN "killed" ELSE "closed",
  appending <- Using # {} /\ User.st.app,
  named     <- Named,
  content   <- IF Using # {} THEN Synced(User.st, disk[User.ino])
               ELSE IF Named THEN disk[inode[TheFile]] ELSE <<>>,
  stable    <- IF Using # {} THEN disk[User.ino]
               ELSE IF Named THEN disk[inode[TheFile]] ELSE <<>>,
  cursor    <- IF Using = {} \/ User.st.app THEN 0 ELSE Tell([User.st EXCEPT !.fail = FALSE])

\* With one File and one name, buffering is invisible: every byte write()
\* accepted is in the content where the cursor was, through failed reads,
\* end of file, truncate and remove, and the host's file has it all once the
\* File is closed or destroyed; after a crash it has what had been drained.
KeepsPromise == Promise!Spec
=============================================================================

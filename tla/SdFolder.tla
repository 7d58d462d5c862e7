------------------------------ MODULE SdFolder ------------------------------
(***************************************************************************)
(* SDClass (src/src/SD.cpp, src/src/SD.h): the folder of the host that     *)
(* stands for the card, the switch to in-memory data, and the operations   *)
(* that make, look for and delete names below the folder.                  *)
(*                                                                         *)
(* A path string is a record: whether it starts with a slash, and its      *)
(* components.  What is done to the bytes of an open file is LinuxFile.    *)
(* Bound: no component is "." or "..", which the host, and nothing in      *)
(* SD.cpp, would resolve, and no path ends in a slash but the empty one    *)
(* behind a folder.                                                        *)
(***************************************************************************)
EXTENDS Integers, SequencesExt

CONSTANTS
  Name,          \* bound: path components, none of them "." or ".."
  Cwd,           \* the working directory of the process
  FolderString,  \* what a program passes to setSDCardFolderPath
  FileString,    \* what it passes to open, exists, mkdir, rmdir and remove
  DataSize       \* sizes it passes to setSDCardFileData

PathString == [abs : BOOLEAN, comps : Seq(Name)]
HostPath   == Seq(Name)
EmptyString == [abs |-> FALSE, comps |-> <<>>]

ASSUME CwdAssumption == Cwd \in HostPath
ASSUME StringAssumption == FolderString \subseteq PathString /\ FileString \subseteq PathString
ASSUME SizeAssumption == DataSize \subseteq Nat
\* The process does not work inside the card's folder, or above it at the root.
ASSUME OutsideAssumption ==
  \A f \in FolderString \ {EmptyString} : ~IsPrefix(IF f.abs THEN f.comps ELSE Cwd \o f.comps, Cwd)

VARIABLES
  dirs, files,   \* the host's directories and regular files
  folder,        \* _sdCardFolderLocation
  useMockData,   \* _useMockData
  fileData,      \* is _fileData not null?
  fileSize,      \* _fileSize
  answer         \* the last call, its argument and what it returned

vars == <<dirs, files, folder, useMockData, fileData, fileSize, answer>>

Nodes == dirs \cup files

(***************************************************************************)
(* The host                                                                *)
(***************************************************************************)
Host(s) == IF s.abs THEN s.comps ELSE Cwd \o s.comps
Parent(p) == SubSeq(p, 1, Len(p) - 1)

\* std::fs::create_directories: throws where a file is in the way
CanCreate(p) == Prefixes(p) \cap files = {}

\* std::fs::remove_all
Without(set, p) == {q \in set : ~IsPrefix(p, q)}

(***************************************************************************)
(* SDClass                                                                 *)
(***************************************************************************)
\* _sdCardFolderLocation + "/" + filepath, when the former is f
Below(f, filepath) ==
  [abs |-> f.abs \/ f = EmptyString, comps |-> f.comps \o filepath.comps]

\* What a path may lead to: an empty one leaves a slash at the end, and no file
\* answers to that.
Reached(filepath) == IF filepath.comps = <<>> THEN dirs ELSE Nodes

\* faulty: asks for a directory only
DirectoryExistsIn(f, mock, filepath) == mock \/ Host(Below(f, filepath)) \in dirs

\* exists(), with the folder at f: always true on in-memory data
ExistsIn(f, mock, filepath) == mock \/ Host(Below(f, filepath)) \in Reached(filepath)
Exists(filepath) == ExistsIn(folder, useMockData, filepath)

\* the path mkdir() makes: the argument itself when there is no folder
MkdirTarget(f, filepath) == IF f = EmptyString THEN filepath ELSE Below(f, filepath)

\* mkdir() asks exists() about the path it has already put the folder before
MkdirSkips(f, mock, filepath) ==
  mock \/ Host(Below(f, MkdirTarget(f, filepath))) \in Reached(filepath)

MkdirDirs(f, mock, filepath) ==
  LET p == Host(MkdirTarget(f, filepath)) IN
  IF MkdirSkips(f, mock, filepath) \/ ~CanCreate(p) THEN dirs ELSE dirs \cup Prefixes(p)

Init ==
  /\ dirs = Prefixes(Cwd) /\ files = {}
  /\ folder = EmptyString
  /\ useMockData = FALSE /\ fileData = FALSE /\ fileSize = 0
  /\ answer = [op |-> "none", path |-> EmptyString, ret |-> TRUE]

Answer(op, s, r) == answer' = [op |-> op, path |-> s, ret |-> r]

\* The existence test and the mkdir run while the folder is empty.
SetSDCardFolderPath(path, create) ==
  /\ useMockData' = FALSE
  /\ folder' = path
  /\ dirs' = IF create /\ ~ExistsIn(EmptyString, FALSE, path)
             THEN MkdirDirs(EmptyString, FALSE, path) ELSE dirs
  /\ Answer(IF create THEN "setFolderCreating" ELSE "setFolder", path, TRUE)
  /\ UNCHANGED <<files, fileData, fileSize>>

\* faulty: the terminator is taken off the size
SetSDCardString(null, size) ==
  /\ fileData' = ~null /\ fileSize' = size - 1 /\ useMockData' = TRUE
  /\ Answer("setFileData", EmptyString, TRUE)
  /\ UNCHANGED <<dirs, files, folder>>

SetSDCardFileData(null, size) ==
  /\ fileData' = ~null
  /\ fileSize' = size
  /\ useMockData' = TRUE
  /\ Answer("setFileData", EmptyString, TRUE)
  /\ UNCHANGED <<dirs, files, folder>>

Begin ==
  /\ Answer("begin", EmptyString, folder # EmptyString \/ (fileData /\ fileSize > 0))
  /\ UNCHANGED <<dirs, files, folder, useMockData, fileData, fileSize>>

CallExists(filepath) ==
  /\ Answer("exists", filepath, Exists(filepath))
  /\ UNCHANGED <<dirs, files, folder, useMockData, fileData, fileSize>>

Mkdir(filepath) ==
  /\ dirs' = MkdirDirs(folder, useMockData, filepath)
  /\ Answer("mkdir", filepath,
            \/ MkdirSkips(folder, useMockData, filepath)
            \/ CanCreate(Host(MkdirTarget(folder, filepath))))
  /\ UNCHANGED <<files, folder, useMockData, fileData, fileSize>>

\* rmdir() and remove() delete whatever is there, directories with all that
\* is in them; they differ in what they return when there is no folder
Delete(op, filepath) ==
  LET p == Host(Below(folder, filepath))
      deletes == folder # EmptyString /\ Exists(filepath)
  IN  /\ dirs' = IF deletes THEN Without(dirs, p) ELSE dirs
      /\ files' = IF deletes THEN Without(files, p) ELSE files
      /\ Answer(op, filepath, op = "rmdir" \/ folder # EmptyString)
      /\ UNCHANGED <<folder, useMockData, fileData, fileSize>>

Rmdir(filepath)      == Delete("rmdir", filepath)
RemoveName(filepath) == Delete("remove", filepath)

\* open(): in-memory data whatever the name; else a directory, or a stream on
\* a file that is there or, if the mode creates, in a directory that is there.
\* ret is the resulting File's operator bool.
OpenFile(filepath, creates) ==
  LET p == Host(Below(folder, filepath))
      makes == /\ ~useMockData /\ creates /\ filepath.comps # <<>>
               /\ p \notin Nodes /\ Parent(p) \in dirs
  IN  /\ files' = IF makes THEN files \cup {p} ELSE files
      /\ Answer("open", filepath, Exists(filepath) \/ makes)
      /\ UNCHANGED <<dirs, folder, useMockData, fileData, fileSize>>

Next ==
  \/ \E s \in FolderString, create \in BOOLEAN : SetSDCardFolderPath(s, create)
  \/ \E null \in BOOLEAN, size \in DataSize : SetSDCardFileData(null, size)
  \/ Begin
  \/ \E s \in FileString :
       \/ CallExists(s)
       \/ Mkdir(s)
       \/ Rmdir(s)
       \/ RemoveName(s)
       \/ \E creates \in BOOLEAN : OpenFile(s, creates)

Spec == Init /\ [][Next]_vars

(***************************************************************************)
(* Properties                                                              *)
(***************************************************************************)
TypeOK ==
  /\ dirs \subseteq HostPath /\ files \subseteq HostPath
  /\ folder \in FolderString \cup {EmptyString}
  /\ useMockData \in BOOLEAN /\ fileData \in BOOLEAN /\ fileSize \in Nat

\* With a folder set and no in-memory data, the answer of one call agrees with
\* what the others see: a name opens exactly if it exists afterwards, what was
\* removed is not there, and a mkdir() that returns true has made its directory,
\* or found something under the path with the folder put before it a second time
\* (SD.cpp:415-450, 466-518).
AnswersAgree ==
  folder # EmptyString /\ ~useMockData =>
    /\ answer.op = "open" => (answer.ret <=> Exists(answer.path))
    /\ answer.op \in {"remove", "rmdir"} => ~Exists(answer.path)
    /\ answer.op = "mkdir" /\ answer.ret =>
         \/ Host(Below(folder, answer.path)) \in dirs
         \/ MkdirSkips(folder, useMockData, answer.path)
=============================================================================

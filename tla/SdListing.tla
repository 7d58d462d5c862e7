------------------------------ MODULE SdListing ------------------------------
(***************************************************************************)
(* openNextFile() of the live layer (src/src/LinuxFile.cpp:190-224): a     *)
(* program walks through the entries of a directory it has opened, while   *)
(* the calls of SDClass go on making and deleting names and moving the     *)
(* card's folder.                                                          *)
(*                                                                         *)
(* The path of an entry is put together anew at each call: the folder of   *)
(* that moment, what is left of the directory's path when as many          *)
(* characters as that folder has and one more are taken off, and the name. *)
(* The directory's path is the folder of the call that opened it (`home'), *)
(* a slash and the name it was opened by.                                  *)
(***************************************************************************)
EXTENDS SdFolder

VARIABLE lister   \* the File the program iterates over

\* `must' and `may' are the stream dp: names it has to return before it ends, and
\* names that came or went since it was opened.
Unopened == [open |-> FALSE, home |-> EmptyString, name |-> EmptyString,
             streaming |-> FALSE, must |-> {}, may |-> {},
             owed |-> {},        \* history: entries there since the pass began, not yet returned
             passing |-> FALSE,  \* history: a pass has begun and not ended
             strayed |-> FALSE]  \* history: the folder was another during the pass

listingVars == <<vars, lister>>

\* bound: a program that lists a directory has set no data in memory
Plain == ~useMockData /\ ~fileData /\ fileSize = 0

\* The names a directory has on the host
Entries(p, nodes) == {Last(q) : q \in {q \in nodes : q # <<>> /\ Parent(q) = p}}
Listed == Host(Below(lister.home, lister.name))

\* What open() leaves of a path: a slash in front goes with the only name behind it
Opened(s) == [s EXCEPT !.abs = @ /\ Len(s.comps) > 1]

\* Characters of a path, one to a name
Length(s) ==
  IF s.comps = <<>> THEN IF s.abs THEN 1 ELSE 0 ELSE 2 * Len(s.comps) - IF s.abs THEN 0 ELSE 1

\* components left of a path when its first k characters are taken off
After(s, k) == SubSeq(s.comps, (IF s.abs THEN k ELSE k + 1) \div 2 + 1, Len(s.comps))

\* the same of the directory's path
Size == Length(lister.home) + 1 + Length(lister.name)
Cut(k) ==
  LET n == Length(lister.home) IN
  IF k <= n THEN After(lister.home, k) \o lister.name.comps ELSE After(lister.name, k - n - 1)

\* A call of SDClass changes the host: what the stream will return changes with it
Watched ==
  LET before == Entries(Listed, Nodes)
      now == Entries(Listed, Nodes')
  IN lister' = [lister EXCEPT !.must = @ \cap now, !.owed = @ \cap now,
                  !.may = IF lister.streaming
                          THEN @ \cup (lister.must \ now) \cup (now \ before) ELSE {}]

\* SD.open() of a directory, or of anything else
OpenDirectory(filepath) ==
  /\ Plain /\ OpenFile(filepath, FALSE)
  /\ lister' = [Unopened EXCEPT !.open = TRUE, !.home = folder, !.name = Opened(filepath)]

\* File::close(), which closes the stream with the object
CloseDirectory ==
  /\ lister.open /\ lister' = Unopened
  /\ Answer("close", EmptyString, TRUE)
  /\ UNCHANGED <<dirs, files, folder, useMockData, fileData, fileSize>>

\* faulty: without the directory
ChildOfFolder(name) == Below(folder, [abs |-> FALSE, comps |-> <<name>>])
\* the path that an entry is opened by
Child(name) ==
  Below(folder, [abs |-> FALSE, comps |-> Append(Cut(Length(folder) + 1), name)])

\* the pass begins, in the history and, if there is no stream, with opendir()
Begun(l) ==
  LET all == Entries(Listed, Nodes)
      noted == IF l.passing THEN [l EXCEPT !.strayed = @ \/ folder # l.home]
               ELSE [l EXCEPT !.passing = TRUE, !.owed = all, !.strayed = folder # l.home]
  IN IF l.streaming THEN noted ELSE [noted EXCEPT !.streaming = TRUE, !.must = all, !.may = {}]

\* faulty: the stream is kept
EndedKeeping(l) == [l EXCEPT !.passing = FALSE]
\* closedir()
Ended(l) == [l EXCEPT !.passing = FALSE, !.streaming = FALSE, !.must = {}, !.may = {}]

\* openNextFile() on what is a directory: the next entry, opened for reading
NextEntry ==
  LET l == Begun(lister) IN
  /\ lister.open /\ Listed \in dirs
  /\ \E name \in l.must \cup l.may :
       LET child == Child(name)
           throws == Length(folder) + 1 > Size      \* substr()
           opened == ~throws /\ Host(child) \in Nodes
           right  == opened /\ Host(child) = Append(Listed, name)
       IN /\ Answer(IF throws THEN "throws" ELSE "next", child, opened)
          /\ lister' = [l EXCEPT !.must = @ \ {name}, !.may = @ \ {name},
                                 !.owed = IF right THEN @ \ {name} ELSE @]
  /\ UNCHANGED <<dirs, files, folder, useMockData, fileData, fileSize>>

\* openNextFile() when the stream has ended, or on what is no directory any more
NoEntry ==
  /\ lister.open
  /\ Answer("end", EmptyString, FALSE)
  /\ \/ Listed \in dirs /\ Begun(lister).must = {} /\ lister' = Ended(Begun(lister))
     \/ Listed \notin dirs /\ lister' = Ended(lister)
  /\ UNCHANGED <<dirs, files, folder, useMockData, fileData, fileSize>>

\* what the rest of the program does to the host meanwhile
Meanwhile ==
  \/ \E s \in FolderString, create \in BOOLEAN : SetSDCardFolderPath(s, create)
  \/ \E s \in FileString : Mkdir(s) \/ RemoveName(s) \/ OpenFile(s, TRUE)

ListingInit == Init /\ lister = Unopened
ListingNext ==
  \/ ~lister.open /\ Next /\ UNCHANGED lister
  \/ lister.open /\ Meanwhile /\ Watched
  \/ \E s \in FileString : OpenDirectory(s)
  \/ CloseDirectory \/ NextEntry \/ NoEntry
ListingSpec == ListingInit /\ [][ListingNext]_listingVars

(***************************************************************************)
(* Properties                                                              *)
(***************************************************************************)
\* With the folder where it was when the directory was opened, each call returns an
\* entry of the directory under that entry's own path, open if the entry is there;
\* and when the calls end everything that was there throughout has been returned,
\* at every pass, whatever is made and deleted in between (LinuxFile.cpp:190-224).
ListsEntries ==
  lister.strayed \/
    /\ answer.op = "next" => Parent(Host(answer.path)) = Listed
                             /\ (answer.ret <=> Host(answer.path) \in Nodes)
    /\ answer.op = "end" => lister.owed = {}
    /\ answer.op # "throws"
=============================================================================

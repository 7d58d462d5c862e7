---------------------------- MODULE MCLinuxFile ----------------------------
(***************************************************************************)
(* LinuxFile on small instances: two File variables over one name and two  *)
(* host files, so that a name can be removed and created again while the   *)
(* old file is still open; files of up to MaxLen bytes.                    *)
(***************************************************************************)
EXTENDS LinuxFile, TLC

READ   == "O_READ"
WRITE  == "O_WRITE"
APPEND == "O_APPEND"
TRUNC  == "O_TRUNC"
CREAT  == "O_CREAT"

FILE_WRITE == {READ, WRITE, CREAT, APPEND}     \* SD.h:18

\* the nine sets of flags that fstream::open() takes, and one that it does not
AllModes ==
  { {READ}, {WRITE}, {WRITE, TRUNC}, {WRITE, APPEND}, {APPEND}, {READ, WRITE},
    {READ, WRITE, TRUNC}, FILE_WRITE, {READ, APPEND}, {TRUNC} }

\* two users of one file, in place or appending
SharedModes == { {READ, WRITE}, FILE_WRITE }

ShortData == { <<1>>, <<2, 3>> }
OneByte   == { <<1>> }

Interchangeable ==
  Permutations(Handle) \cup Permutations(Impl) \cup Permutations(Inode)
=============================================================================

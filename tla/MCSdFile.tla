------------------------------ MODULE MCSdFile ------------------------------
(***************************************************************************)
(* SdFile on a small volume with two files.                                *)
(***************************************************************************)
EXTENDS SdFile, TLC

\* in place, reading past the cache; appending, each write synced; reading
MCModes ==
  { {"read", "write", "unbuffered"}, {"write", "append", "sync", "trunc"}, {"read"} }

Interchangeable == Permutations(File)
=============================================================================

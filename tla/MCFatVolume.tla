---------------------------- MODULE MCFatVolume ----------------------------
(***************************************************************************)
(* FatVolume on a volume of a few clusters with two files.                 *)
(***************************************************************************)
EXTENDS FatVolume, TLC

Interchangeable == Permutations(File)
=============================================================================

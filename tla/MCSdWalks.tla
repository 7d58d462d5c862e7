------------------------------ MODULE MCSdWalks ------------------------------
(***************************************************************************)
(* SdWalks, and so SdDirectory, with two names and a few clusters.         *)
(***************************************************************************)
EXTENDS SdWalks, TLC

CONSTANTS a, b, ab

\* ab is a component so long that it is taken for a/b
MCPieces(c) == IF c = ab THEN <<a, b>> ELSE <<c>>
MCPaths == { <<a>>, <<a, b>>, <<ab>> }
MCFlags == { {"read"}, {"read", "write", "creat"}, {"write", "trunc"}, {"read", "trunc"} }
Interchangeable == Permutations(Handle) \cup Permutations(Node)
=============================================================================

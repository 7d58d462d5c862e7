------------------------------- MODULE Bytes -------------------------------
(***************************************************************************)
(* The content of a host file: the sequence of its bytes.  Offsets start   *)
(* at 0, so the byte at offset p is element p + 1.                         *)
(***************************************************************************)
EXTENDS Integers, Sequences

Hole == 0      \* the byte a file has where nothing was ever written

Longer(m, n) == IF m >= n THEN m ELSE n

From(c, p) == SubSeq(c, p + 1, Len(c))     \* the bytes of c behind offset p

\* c with the bytes b written at offset p; a gap before p is filled with holes
Overlay(c, p, b) ==
  IF b = <<>> THEN c
  ELSE [k \in 1..Longer(Len(c), p + Len(b)) |->
          IF k > p /\ k <= p + Len(b) THEN b[k - p]
          ELSE IF k <= Len(c) THEN c[k] ELSE Hole]

\* c cut, or extended with holes, to n bytes
Resize(c, n) == [k \in 1..n |-> IF k <= Len(c) THEN c[k] ELSE Hole]
=============================================================================

----------------------------- MODULE BlockStore -----------------------------
(***************************************************************************)
(* What the block cache of SdVolume promises to the file system above it:  *)
(* an array of blocks.  `store' is what a read of a block gives, `durable' *)
(* what the card has.  When a written block reaches the card is left open, *)
(* but no block ever holds anything but something written to that block.   *)
(***************************************************************************)
EXTENDS Integers

CONSTANTS
  UserBlock,   \* the blocks the file system addresses
  Val,         \* what a block may hold
  NoRead       \* "nothing was read yet"

VARIABLES
  store,     \* what a read of each block gives
  durable,   \* what the card has of it
  ok,        \* what the last call returned
  got        \* the last block read and what the read gave

vars == <<store, durable, ok, got>>

Init ==
  /\ store \in [UserBlock -> Val]
  /\ durable = store
  /\ ok = TRUE /\ got = NoRead

\* Any block may reach the card in any step.
Settles ==
  /\ durable' \in [UserBlock -> Val]
  /\ \A b \in UserBlock : durable'[b] \in {durable[b], store[b], store'[b]}

Write(b, v) == store' = [store EXCEPT ![b] = v] /\ Settles /\ ok' = TRUE /\ UNCHANGED got

Read(b) ==
  /\ got' = [block |-> b, val |-> store[b]]
  /\ Settles /\ ok' = TRUE /\ UNCHANGED store

\* Once a flush succeeds, the card has everything that was written.
Sync == durable' = store /\ ok' = TRUE /\ UNCHANGED <<store, got>>

\* A call that fails changes nothing, though older writes may reach the card.
Fail == Settles /\ ok' = FALSE /\ UNCHANGED <<store, got>>

\* A write past the cache that fails: the block may hold the new value, the
\* one it had, or what the card had.
FailedWrite(b, v) ==
  /\ store' \in {[store EXCEPT ![b] = u] : u \in {v, store[b], durable[b]}}
  /\ Settles
  /\ ok' = FALSE /\ UNCHANGED got

\* The cache is given away.  At most one block is not on the card then; what
\* was written to it is lost.
Forget ==
  /\ \/ UNCHANGED store
     \/ \E b \in UserBlock : store' = [store EXCEPT ![b] = durable'[b]]
  /\ Settles
  /\ ok' = TRUE /\ UNCHANGED got

PowerLoss == store' = durable /\ UNCHANGED durable /\ ok' = TRUE /\ got' = NoRead

Next ==
  \/ Fail \/ Sync \/ Forget \/ PowerLoss
  \/ \E b \in UserBlock : Read(b)
  \/ \E b \in UserBlock, v \in Val : Write(b, v) \/ FailedWrite(b, v)

Spec == Init /\ [][Next]_vars
=============================================================================

---------------------------- MODULE InMemoryFile ----------------------------
(***************************************************************************)
(* One InMemoryFile object (src/src/InMemoryFile.cpp): a read-only view of *)
(* the buffer given to SD.setSDCardFileData(), or the empty object that    *)
(* openNextFile() returns.  A byte is its index in the buffer.             *)
(*                                                                         *)
(* _size is an int32_t that a uint32_t is stored in, returned from and     *)
(* compared with, so it wraps; the type's range is a parameter.            *)
(***************************************************************************)
EXTENDS Integers

CONSTANTS
  Half,       \* 2^31: an int32_t is in -Half .. Half - 1
  BufferSize, \* sizes of the buffers a program has
  ReadSize    \* byte counts it asks read(buf, n) for

Word == 2 * Half
UInt == 0 .. Word - 1
SInt == -Half .. Half - 1

ASSUME HalfAssumption == Half \in Nat \ {0}
ASSUME BufferAssumption == BufferSize \subseteq UInt /\ ReadSize \subseteq UInt

NotNarrowed(u) == u      \* faulty: _size does not wrap
ToSigned(u)   == IF u < Half THEN u ELSE u - Word
ToUnsigned(s) == IF s < 0 THEN s + Word ELSE s

VARIABLES
  size,       \* _size
  position,   \* _position
  isOpen,     \* _isOpen
  length,     \* history: the true length of the buffer behind _data
  read        \* history: the last read, how much it asked for and what it took

memoryVars == <<size, position, isOpen, length, read>>

Nothing == [asked |-> 0, from |-> 0, to |-> 0]

MemoryInit ==
  /\ \/ length \in BufferSize /\ size = ToSigned(length)
     \/ length = 0 /\ size = -1           \* InMemoryFile(void): _data is not set
  /\ position = 0 /\ isOpen = TRUE /\ read = Nothing

\* faulty: the -1 of an empty object is compared as unsigned
LeftUnsigned == IF position < ToUnsigned(size) THEN ToUnsigned(size) - position ELSE 0

\* bytes from _position to the end; a negative _size is an empty file
Left == IF size >= 0 /\ position < ToUnsigned(size) THEN ToUnsigned(size) - position ELSE 0

Available == isOpen /\ Left > 0

Take(asked, k) ==
  /\ position' = position + k
  /\ read' = [asked |-> asked, from |-> position, to |-> position + k]
  /\ UNCHANGED <<size, isOpen, length>>

\* faulty: never takes the last byte
ReadBufButLast(n) == Take(n, IF n < Left THEN n ELSE IF Left > 0 THEN Left - 1 ELSE 0)

\* read(buf, n): byte by byte until there is none
ReadBuf(n) == Take(n, IF n < Left THEN n ELSE Left)

\* read(): 0 past the end, like a byte 0
ReadByte == Take(1, IF Left > 0 THEN 1 ELSE 0)

\* faulty: any position is taken
SeekAnywhere(pos) == position' = pos /\ read' = Nothing /\ UNCHANGED <<size, isOpen, length>>

\* `pos < _size' compares as unsigned
Seek(pos) ==
  /\ position' = IF pos < ToUnsigned(size) THEN pos ELSE position
  /\ read' = Nothing
  /\ UNCHANGED <<size, isOpen, length>>

\* truncate(n), whatever n is
Truncate == size' = 0 /\ position' = 0 /\ read' = Nothing /\ UNCHANGED <<isOpen, length>>

Close == isOpen' = FALSE /\ read' = Nothing /\ UNCHANGED <<size, position, length>>

MemoryNext ==
  \/ \E n \in ReadSize : ReadBuf(n)
  \/ ReadByte
  \/ \E pos \in UInt : Seek(pos)
  \/ Truncate
  \/ Close

MemorySpec == MemoryInit /\ [][MemoryNext]_memoryVars

(***************************************************************************)
(* Properties                                                              *)
(***************************************************************************)
MemoryTypeOK ==
  /\ size \in SInt /\ position \in UInt /\ length \in UInt /\ isOpen \in BOOLEAN
  /\ read \in [asked : UInt, from : UInt, to : UInt]

\* No read takes a byte outside the caller's buffer, although seek() accepts
\* any position of an empty object and _size may have wrapped
\* (InMemoryFile.cpp:38-63, 71-77).
InBounds == read.from < read.to => read.to <= length

\* A read that took less than it was asked for is at the end, and available()
\* says so (InMemoryFile.cpp:52-67).
ShortReadIsEnd == read.to - read.from < read.asked => ~Available

\* An open, not truncated buffer whose size an int32_t holds is read to its
\* last byte, and then no further: available() is false exactly when the
\* position is its length (InMemoryFile.cpp:38-77).
EndIsReached == isOpen /\ length < Half /\ size > 0 => (~Available <=> position = length)
=============================================================================

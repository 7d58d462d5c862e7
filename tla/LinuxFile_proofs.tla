-------------------------- MODULE LinuxFile_proofs --------------------------
(***************************************************************************)
(* Proofs about LinuxFile, for any number of File variables, objects and   *)
(* files of the host, any modes and any data.  What a call on a stream     *)
(* does is said by lemmas about the operators of FStream and Bytes.        *)
(***************************************************************************)
EXTENDS LinuxFile, SequenceTheorems, TLAPS

Contents == Seq(Nat)     \* what a file may hold

-----------------------------------------------------------------------------
(***************************************************************************)
(* Bytes                                                                   *)
(***************************************************************************)
LEMMA LengthIs ==
  ASSUME NEW c \in Contents
  PROVE  /\ Len(c) \in Nat /\ \A k \in 1 .. Len(c) : c[k] \in Nat
         /\ c # <<>> <=> Len(c) > 0
  BY DEF Contents

LEMMA SameBytes ==
  ASSUME NEW c \in Contents, NEW e \in Contents, Len(c) = Len(e),
         \A k \in 1 .. Len(c) : c[k] = e[k]
  PROVE  c = e
  BY DEF Contents

LEMMA FunctionIs ==
  ASSUME NEW n \in Nat, NEW f, f = [k \in 1 .. n |-> f[k]], \A k \in 1 .. n : f[k] \in Nat
  PROVE  f \in Contents /\ Len(f) = n
  BY DEF Contents

LEMMA PartIs ==
  ASSUME NEW c \in Contents, NEW m \in Nat \ {0}, NEW n \in Int, n <= Len(c)
  PROVE  /\ SubSeq(c, m, n) \in Contents
         /\ Len(SubSeq(c, m, n)) = IF m <= n THEN n - m + 1 ELSE 0
         /\ \A i \in 1 .. n - m + 1 : SubSeq(c, m, n)[i] = c[m + i - 1]
<1>1. \A i \in m .. n : c[i] \in Nat
  BY DEF Contents
<1> QED
  BY <1>1, SubSeqProperties DEF Contents

LEMMA FromIs ==
  ASSUME NEW c \in Contents, NEW p \in Nat
  PROVE  /\ From(c, p) \in Contents
         /\ Len(From(c, p)) = IF p <= Len(c) THEN Len(c) - p ELSE 0
         /\ \A k \in 1 .. Len(c) - p : From(c, p)[k] = c[p + k]
<1> DEFINE n == Len(c)
<1>1. n \in Nat /\ p + 1 \in Nat \ {0}
  BY LengthIs
<1>2. From(c, p) = SubSeq(c, p + 1, n)
  BY DEF From
<1> DEFINE m == p + 1
<1> HIDE DEF n, m
<1>3. /\ SubSeq(c, m, n) \in Contents
      /\ Len(SubSeq(c, m, n)) = IF m <= n THEN n - m + 1 ELSE 0
      /\ \A i \in 1 .. n - m + 1 : SubSeq(c, m, n)[i] = c[m + i - 1]
  BY <1>1, PartIs DEF m, n
<1>4. /\ (m <= n <=> p <= n - 1) /\ n - m + 1 = n - p
      /\ \A k \in 1 .. n - p : m + k - 1 = p + k
  BY <1>1 DEF m
<1> QED
  BY <1>1, <1>2, <1>3, <1>4 DEF n, m

LEMMA JoinIs ==
  ASSUME NEW c \in Contents, NEW b \in Contents
  PROVE  /\ c \o b \in Contents /\ Len(c \o b) = Len(c) + Len(b)
         /\ \A k \in 1 .. Len(c) : (c \o b)[k] = c[k]
         /\ \A k \in Len(c) + 1 .. Len(c) + Len(b) : (c \o b)[k] = b[k - Len(c)]
  BY LengthIs, ConcatProperties DEF Contents

LEMMA JoinJoined ==
  ASSUME NEW a, NEW b, NEW c, a \in Contents, b \in Contents, c \in Contents
  PROVE  c \o (a \o b) = (c \o a) \o b
<1>1. a \in Seq(Nat) /\ b \in Seq(Nat) /\ c \in Seq(Nat)
  BY Zenon DEF Contents
<1> HIDE DEF Contents
<1>2. (c \o a) \o b = c \o (a \o b)
  BY ONLY SMTT(30), <1>1, ConcatAssociative
<1> QED
  BY ONLY <1>2, Zenon

LEMMA OverlayIs ==
  ASSUME NEW c \in Contents, NEW p \in Nat, NEW b \in Contents, b # <<>>
  PROVE  /\ Overlay(c, p, b) \in Contents
         /\ Len(Overlay(c, p, b)) = Longer(Len(c), p + Len(b))
         /\ \A k \in 1 .. Longer(Len(c), p + Len(b)) :
              Overlay(c, p, b)[k] = IF k > p /\ k <= p + Len(b) THEN b[k - p]
                                    ELSE IF k <= Len(c) THEN c[k] ELSE Hole
<1> DEFINE n == Longer(Len(c), p + Len(b))
           e(k) == IF k > p /\ k <= p + Len(b) THEN b[k - p]
                   ELSE IF k <= Len(c) THEN c[k] ELSE Hole
           f == [k \in 1 .. n |-> e(k)]
<1>1. n \in Nat
  BY LengthIs DEF Longer
<1>2. ASSUME NEW k \in 1 .. n PROVE e(k) \in Nat
  <2>1. k \in Nat /\ k > 0 /\ Len(c) \in Nat /\ Len(b) \in Nat
    BY <1>1, LengthIs
  <2>2. k > p /\ k <= p + Len(b) => b[k - p] \in Nat
    BY <2>1, LengthIs
  <2>3. k <= Len(c) => c[k] \in Nat
    BY <2>1, LengthIs
  <2> QED
    BY <2>2, <2>3 DEF Hole
<1>3. Overlay(c, p, b) = f
  BY DEF Overlay
<1> HIDE DEF n, e
<1>4. f \in Contents /\ Len(f) = n
  BY <1>1, <1>2, FunctionIs
<1> QED
  BY <1>3, <1>4 DEF n, e

LEMMA ResizeIs ==
  ASSUME NEW c \in Contents, NEW n \in Nat
  PROVE  Resize(c, n) \in Contents /\ Len(Resize(c, n)) = n
<1> DEFINE e(k) == IF k <= Len(c) THEN c[k] ELSE Hole
           f == [k \in 1 .. n |-> e(k)]
<1>1. ASSUME NEW k \in 1 .. n PROVE e(k) \in Nat
  BY LengthIs DEF Hole
<1>2. Resize(c, n) = f
  BY DEF Resize
<1> HIDE DEF e
<1>3. f \in Contents /\ Len(f) = n
  BY <1>1, FunctionIs
<1> QED
  BY <1>2, <1>3

-----------------------------------------------------------------------------
(***************************************************************************)
(* Streams.  `Fetched' is what a stream knows of a file that nothing else  *)
(* has touched: its unread bytes are the last ones of the file.            *)
(***************************************************************************)
Stream == [open : BOOLEAN, rd : BOOLEAN, wr : BOOLEAN, app : BOOLEAN,
           mode : {"idle", "get", "put"}, off : Nat, buf : Contents, eof : BOOLEAN, fail : BOOLEAN]

SoundStream(s) ==
  /\ s \in Stream
  /\ s.mode = "idle" => s.buf = <<>>
  /\ s.mode = "get"  => s.buf # <<>> /\ Len(s.buf) <= s.off
  /\ s.mode = "put"  => s.buf # <<>>

Fetched(s, c) == s.mode = "get" => s.off = Len(c) /\ s.buf = From(c, s.off - Len(s.buf))

Prolongs(c, e) == Len(c) <= Len(e) /\ \A k \in 1 .. Len(c) : e[k] = c[k]

\* the same stream, opened the same way
Alike(s, t) == t.open = s.open /\ t.rd = s.rd /\ t.wr = s.wr /\ t.app = s.app

\* A call on s over a file with content c has given r: what an appending stream held is
\* behind what the file had, or still held.
Saves(s, c, r) ==
  s.app /\ s.mode = "put" =>
    \/ Prolongs(c \o s.buf, r.data)
    \/ r.st.mode = "put" /\ Prolongs(s.buf, r.st.buf)

\* The call wrote nothing, but what was written before may have been drained.
Settles(s, c, r) ==
  /\ SoundStream(r.st) /\ r.data \in Contents /\ Alike(s, r.st)
  /\ Synced(r.st, r.data) = Synced(s, c)
  /\ s.app => Prolongs(c, r.data)
  /\ s.eof => r.st.eof
  /\ Saves(s, c, r)
  /\ Fetched(s, c) => Fetched(r.st, r.data)

LEMMA ProlongsSelf == ASSUME NEW c \in Contents PROVE Prolongs(c, c)
  BY LengthIs DEF Prolongs

LEMMA JoinProlongs ==
  ASSUME NEW c \in Contents, NEW b \in Contents
  PROVE  c \o b \in Contents /\ Prolongs(c, c \o b)
<1> DEFINE e == c \o b
<1>1. e \in Contents /\ Len(e) = Len(c) + Len(b) /\ \A k \in 1 .. Len(c) : e[k] = c[k]
  BY JoinIs
<1>2. Len(c) \in Nat /\ Len(b) \in Nat
  BY LengthIs
<1> HIDE DEF e
<1>3. Prolongs(c, e)
  BY <1>1, <1>2 DEF Prolongs
<1> QED
  BY <1>1, <1>3 DEF e

LEMMA SyncedIs ==
  ASSUME NEW s, SoundStream(s), NEW c \in Contents
  PROVE  /\ Synced(s, c) \in Contents
         /\ s.app => Prolongs(c, Synced(s, c))
         /\ s.mode = "put" /\ ~s.app => Len(Synced(s, c)) = Longer(Len(c), s.off + Len(s.buf))
         /\ s.mode # "put" => Synced(s, c) = c
<1>1. s.off \in Nat /\ s.buf \in Contents
  BY DEF SoundStream, Stream
<1>2. CASE s.mode # "put"
  BY <1>2, ProlongsSelf DEF Synced
<1>3. CASE s.mode = "put" /\ s.app
  <2>1. Synced(s, c) = c \o s.buf
    BY <1>3 DEF Synced
  <2>2. Synced(s, c) \in Contents /\ Prolongs(c, Synced(s, c))
    BY <1>1, <2>1, JoinProlongs
  <2> QED
    BY <1>3, <2>2
<1>4. CASE s.mode = "put" /\ ~s.app
  <2>1. Synced(s, c) = Overlay(c, s.off, s.buf)
    BY <1>4 DEF Synced
  <2>2. s.buf # <<>>
    BY <1>4 DEF SoundStream
  <2>3. Synced(s, c) \in Contents
    BY <1>1, <2>1, <2>2, OverlayIs
  <2> DEFINE o == s.off
             b == s.buf
  <2>4. o \in Nat /\ b \in Contents /\ b # <<>> /\ Synced(s, c) = Overlay(c, o, b)
    BY <1>1, <2>1, <2>2
  <2> HIDE DEF o, b
  <2>5. Len(Overlay(c, o, b)) = Longer(Len(c), o + Len(b))
    BY <2>4, OverlayIs
  <2> QED
    BY <1>4, <2>3, <2>4, <2>5 DEF o, b
<1> QED
  BY <1>2, <1>3, <1>4

LEMMA DrainedSaves ==
  ASSUME NEW s, SoundStream(s), NEW c \in Contents, NEW r, r.data = Synced(s, c)
  PROVE  Saves(s, c, r)
<1> SUFFICES ASSUME s.app, s.mode = "put" PROVE Prolongs(c \o s.buf, r.data)
  BY DEF Saves
<1>1. r.data = c \o s.buf
  BY DEF Synced
<1>2. r.data \in Contents
  BY SyncedIs
<1> QED
  BY <1>1, <1>2, ProlongsSelf

LEMMA HeldSaves ==
  ASSUME NEW s, SoundStream(s), NEW c, NEW r, r.st.mode = s.mode, r.st.buf = s.buf
  PROVE  Saves(s, c, r)
<1>1. s.buf \in Contents
  BY DEF SoundStream, Stream
<1> QED
  BY <1>1, ProlongsSelf DEF Saves

\* A drained stream: the file has what it had.
LEMMA DrainIs ==
  ASSUME NEW s, SoundStream(s), NEW c \in Contents
  PROVE  LET d == Drain(s, c) IN
         /\ SoundStream(d) /\ Alike(s, d) /\ d.mode # "put" /\ d.eof = s.eof /\ d.fail = s.fail
         /\ s.mode # "put" => d = s
         /\ s.mode = "put" => d.mode = "idle" /\ d.buf = <<>>
         /\ s.mode = "put" /\ ~s.app => d.off = s.off + Len(s.buf)
         /\ Fetched(s, c) => Fetched(d, Synced(s, c))
         /\ Settles(s, c, Result(d, Synced(s, c), TRUE))
<1> DEFINE d == Drain(s, c)
<1>1. CASE s.mode # "put"
  <2>1. d = s
    BY <1>1 DEF Drain
  <2>2. Synced(s, c) = c /\ Prolongs(c, c)
    BY <1>1, SyncedIs, ProlongsSelf
  <2>3. Saves(s, c, Result(d, Synced(s, c), TRUE))
    BY DrainedSaves DEF Result
  <2> QED
    BY <1>1, <2>1, <2>2, <2>3 DEF Settles, Result, Alike
<1>2. CASE s.mode = "put"
  <2> DEFINE o == IF s.buf = <<>> THEN s.off
                  ELSE IF s.app THEN Len(c) + Len(s.buf) ELSE s.off + Len(s.buf)
  <2>1. d = [s EXCEPT !.mode = "idle", !.buf = <<>>, !.off = o]
    BY <1>2 DEF Drain
  <2>2. s \in Stream /\ s.buf # <<>> /\ s.off \in Nat /\ s.buf \in Contents
    BY <1>2 DEF SoundStream, Stream
  <2>3. o \in Nat /\ (~s.app => o = s.off + Len(s.buf))
    BY <2>2, LengthIs
  <2> HIDE DEF o, d
  <2>4. d = [open |-> s.open, rd |-> s.rd, wr |-> s.wr, app |-> s.app, mode |-> "idle",
             off |-> o, buf |-> <<>>, eof |-> s.eof, fail |-> s.fail]
    BY <2>1, <2>2 DEF Stream
  <2>5. <<>> \in Contents
    BY DEF Contents
  <2>6. SoundStream(d)
    BY <2>2, <2>3, <2>4, <2>5 DEF SoundStream, Stream
  <2>7. Synced(s, c) \in Contents /\ (s.app => Prolongs(c, Synced(s, c)))
    BY SyncedIs
  <2>8. Synced(d, Synced(s, c)) = Synced(s, c)
    BY <2>4 DEF Synced
  <2>9. Fetched(d, Synced(s, c))
    BY <2>4 DEF Fetched
  <2>10. Alike(s, d) /\ d.mode = "idle" /\ d.eof = s.eof /\ d.fail = s.fail /\ d.off = o /\ d.buf = <<>>
    BY <2>4 DEF Alike
  <2>12. Saves(s, c, Result(d, Synced(s, c), TRUE))
    BY DrainedSaves DEF Result
  <2>11. Settles(s, c, Result(d, Synced(s, c), TRUE))
    BY <2>6, <2>7, <2>8, <2>9, <2>10, <2>12 DEF Settles, Result
  <2> QED
    BY <1>2, <2>3, <2>6, <2>9, <2>10, <2>11 DEF d
<1> QED
  BY <1>1, <1>2

\* A call that changes no more than the state bits
LEMMA BitsSettle ==
  ASSUME NEW s, SoundStream(s), NEW c \in Contents, NEW e \in BOOLEAN, NEW f \in BOOLEAN, NEW v,
         NEW t, t = [s EXCEPT !.fail = f, !.eof = e], s.eof => e
  PROVE  Settles(s, c, Result(t, c, v))
<1>1. s \in Stream
  BY DEF SoundStream
<1>2. t = [open |-> s.open, rd |-> s.rd, wr |-> s.wr, app |-> s.app, mode |-> s.mode,
           off |-> s.off, buf |-> s.buf, eof |-> e, fail |-> f]
  BY <1>1 DEF Stream
<1>3. SoundStream(t)
  BY <1>1, <1>2 DEF SoundStream, Stream
<1>4. Synced(t, c) = Synced(s, c) /\ Alike(s, t) /\ (Fetched(s, c) => Fetched(t, c))
  BY <1>2 DEF Synced, Alike, Fetched
<1>5. t.mode = s.mode /\ t.buf = s.buf /\ t.eof = e
  BY <1>2
<1>6. Saves(s, c, Result(t, c, v))
  BY <1>5, HeldSaves DEF Result
<1> QED
  BY <1>3, <1>4, <1>5, <1>6, ProlongsSelf DEF Settles, Result

LEMMA FlushSettles ==
  ASSUME NEW s, SoundStream(s), NEW c \in Contents, NEW older \in BOOLEAN
  PROVE  Settles(s, c, Flush(s, c, older))
<1>1. Settles(s, c, Result(s, c, FALSE))
  BY SyncedIs, ProlongsSelf, HeldSaves DEF Settles, Result, Alike
<1> QED
  BY <1>1, DrainIs DEF Flush

LEMMA SeekSettles ==
  ASSUME NEW s, SoundStream(s), NEW c \in Contents, NEW p \in Nat
  PROVE  Settles(s, c, Seek(s, c, p))
<1>1. CASE s.fail
  BY <1>1, SyncedIs, ProlongsSelf, HeldSaves DEF Seek, Settles, Result, Alike
<1>2. CASE ~s.fail
  <2> DEFINE t == [s EXCEPT !.mode = "idle", !.buf = <<>>, !.off = p]
  <2>1. Seek(s, c, p) = Result(t, Synced(s, c), TRUE)
    BY <1>2 DEF Seek
  <2>2. s \in Stream /\ <<>> \in Contents
    BY DEF SoundStream, Contents
  <2>0. t = [s EXCEPT !.mode = "idle", !.buf = <<>>, !.off = p]
    OBVIOUS
  <2> HIDE DEF t
  <2>3. t = [open |-> s.open, rd |-> s.rd, wr |-> s.wr, app |-> s.app, mode |-> "idle",
             off |-> p, buf |-> <<>>, eof |-> s.eof, fail |-> s.fail]
    BY <2>0, <2>2 DEF Stream
  <2>4. SoundStream(t)
    BY <2>2, <2>3 DEF SoundStream, Stream
  <2>5. /\ Synced(t, Synced(s, c)) = Synced(s, c) /\ Alike(s, t) /\ Fetched(t, Synced(s, c))
        /\ t.eof = s.eof
    BY <2>3 DEF Synced, Alike, Fetched
  <2>6. Saves(s, c, Result(t, Synced(s, c), TRUE))
    BY DrainedSaves DEF Result
  <2> QED
    BY <2>1, <2>4, <2>5, <2>6, SyncedIs DEF Settles, Result
<1> QED
  BY <1>1, <1>2

LEMMA FromFrom ==
  ASSUME NEW c \in Contents, NEW p \in Nat, NEW q \in Nat
  PROVE  From(From(c, p), q) = From(c, p + q)
<1> DEFINE a == From(c, p)
           e == From(a, q)
           f == From(c, p + q)
           n == Len(c)
<1>1. n \in Nat
  BY LengthIs
<1>2. a \in Contents /\ Len(a) = IF p <= n THEN n - p ELSE 0
  BY FromIs
<1>3. \A k \in 1 .. n - p : a[k] = c[p + k]
  BY FromIs
<1> HIDE DEF a
<1>4. e \in Contents /\ Len(e) = IF q <= Len(a) THEN Len(a) - q ELSE 0
  BY <1>2, FromIs
<1>5. \A k \in 1 .. Len(a) - q : e[k] = a[q + k]
  BY <1>2, FromIs
<1>6. p + q \in Nat
  OBVIOUS
<1>7. f \in Contents /\ Len(f) = IF p + q <= n THEN n - (p + q) ELSE 0
  BY <1>6, FromIs
<1>8. \A k \in 1 .. n - (p + q) : f[k] = c[p + q + k]
  BY <1>6, FromIs
<1> HIDE DEF e, f, n
<1>9. Len(e) = Len(f)
  BY <1>1, <1>2, <1>4, <1>7
<1>10. ASSUME NEW k \in 1 .. Len(e) PROVE e[k] = f[k]
  <2>1. k \in 1 .. Len(a) - q /\ q + k \in 1 .. n - p /\ k \in 1 .. n - (p + q)
    BY <1>1, <1>2, <1>4
  <2>2. e[k] = c[p + (q + k)]
    BY <1>3, <1>5, <2>1
  <2>3. f[k] = c[p + q + k] /\ p + (q + k) = p + q + k
    BY <1>8, <2>1
  <2> QED
    BY <2>2, <2>3
<1>11. e = f
  BY <1>4, <1>7, <1>9, <1>10, SameBytes
<1> QED
  BY <1>11 DEF a, e, f

LEMMA NothingFirst ==
  ASSUME NEW b \in Contents PROVE <<>> \o b = b /\ b \o <<>> = b
  BY ConcatEmptySeq DEF Contents

\* What a read leaves unread is still the last bytes of the file, if it was before.
LEMMA UnreadIs ==
  ASSUME NEW c \in Contents, NEW p \in Nat, NEW n \in Nat, From(From(c, p), n) # <<>>
  PROVE  /\ p + n < Len(c)
         /\ From(From(c, p), n) = From(c, Len(c) - Len(From(From(c, p), n)))
<1>1. From(From(c, p), n) = From(c, p + n)
  BY FromFrom
<1> DEFINE a == From(c, p + n)
           m == Len(c)
<1>2. p + n \in Nat /\ m \in Nat
  BY LengthIs
<1>3. a \in Contents /\ Len(a) = IF p + n <= m THEN m - (p + n) ELSE 0
  BY <1>2, FromIs
<1>4. Len(a) > 0
  BY <1>1, <1>3, LengthIs
<1> DEFINE x == Len(a)
<1>5. x = IF p + n <= m THEN m - (p + n) ELSE 0
  BY <1>3
<1>6. x > 0
  BY <1>4
<1> HIDE DEF a, m, x
<1>7. p + n < m /\ m - x = p + n
  BY <1>2, <1>5, <1>6
<1> QED
  BY <1>1, <1>7 DEF a, m, x

LEMMA ReadSettles ==
  ASSUME NEW s, SoundStream(s), NEW c \in Contents, NEW n \in Nat \ {0}
  PROVE  Settles(s, c, Read(s, c, n))
<1>1. CASE ~s.open \/ ~Good(s)
  <2> DEFINE e == s.eof \/ Good(s)
             t == [s EXCEPT !.fail = TRUE, !.eof = e]
  <2>1. Read(s, c, n) = Result(t, c, <<>>)
    BY <1>1 DEF Read
  <2>2. e \in BOOLEAN /\ (s.eof => e)
    BY DEF SoundStream, Stream, Good
  <2>3. t = [s EXCEPT !.fail = TRUE, !.eof = e]
    OBVIOUS
  <2> HIDE DEF e, t
  <2> QED
    BY <2>1, <2>2, <2>3, BitsSettle
<1>2. CASE s.open /\ Good(s)
  <2> DEFINE d    == Drain(s, c)
             file == Synced(s, c)
             more == d.rd /\ Len(d.buf) < n
             got  == IF more THEN d.buf \o From(file, d.off) ELSE d.buf
             off  == IF more THEN Longer(d.off, Len(file)) ELSE d.off
             rest == From(got, n)
             mode == IF rest = <<>> THEN "idle" ELSE "get"
             bit  == Len(got) < n
             t    == [d EXCEPT !.off = off, !.buf = rest, !.mode = mode, !.eof = bit, !.fail = bit]
             v    == SubSeq(got, 1, IF Len(got) < n THEN Len(got) ELSE n)
  <2>1. Read(s, c, n) = Result(t, file, v)
    BY <1>2 DEF Read
  <2>2. SoundStream(d) /\ Alike(s, d) /\ d.mode # "put"
    BY DrainIs
  <2>3. Fetched(s, c) => Fetched(d, file)
    BY DrainIs
  <2>4. file \in Contents /\ (s.app => Prolongs(c, file))
    BY SyncedIs
  <2>5. t = [d EXCEPT !.off = off, !.buf = rest, !.mode = mode, !.eof = bit, !.fail = bit]
    OBVIOUS
  <2> HIDE DEF d, file, t
  <2>6. d \in Stream /\ d.off \in Nat /\ d.buf \in Contents /\ Len(d.buf) \in Nat /\ Len(file) \in Nat
    BY <2>2, <2>4, LengthIs DEF SoundStream, Stream
  <2>7. /\ d.mode = "idle" => d.buf = <<>> /\ Len(d.buf) = 0
        /\ d.mode = "get" => Len(d.buf) <= d.off
        /\ d.mode = "idle" \/ d.mode = "get"
    BY <2>2, <2>6, LengthIs DEF SoundStream, Stream
  <2> DEFINE g == From(file, d.off)
  <2>8. g \in Contents /\ Len(g) = IF d.off <= Len(file) THEN Len(file) - d.off ELSE 0
    BY <2>4, <2>6, FromIs
  <2>9. got \in Contents /\ Len(got) \in Nat
    <3>1. CASE more
      <4>1. got = d.buf \o g
        BY <3>1
      <4> HIDE DEF got, g
      <4> QED
        BY <4>1, <2>6, <2>8, JoinIs, LengthIs
    <3>2. CASE ~more
      BY <3>2, <2>6
    <3> QED
      BY <3>1, <3>2
  <2>10. more => Len(got) = Len(d.buf) + Len(g)
    <3>1. ASSUME more PROVE Len(got) = Len(d.buf) + Len(g)
      <4>1. got = d.buf \o g
        BY <3>1
      <4> HIDE DEF got, g
      <4> QED
        BY <4>1, <2>6, <2>8, JoinIs
    <3> QED
      BY <3>1
  <2>11. ~more => got = d.buf /\ off = d.off
    OBVIOUS
  <2>12. more => off = Longer(d.off, Len(file)) /\ Len(d.buf) < n
    OBVIOUS
  <2>13. more /\ d.mode = "idle" => got = g
    BY <2>7, <2>8, NothingFirst
  <2>14. off \in Nat
    BY <2>6 DEF Longer
  <2> HIDE DEF got, g, off, more
  <2>15. rest \in Contents /\ Len(rest) = IF n <= Len(got) THEN Len(got) - n ELSE 0
    BY <2>9, FromIs
  <2>16. rest # <<>> <=> Len(rest) > 0
    BY <2>15, LengthIs
  <2> HIDE DEF rest
  <2>17. rest # <<>> => Len(rest) <= off
    <3>1. CASE more
      BY SMTT(30), <3>1, <2>6, <2>7, <2>8, <2>9, <2>10, <2>12, <2>15, <2>16 DEF Longer
    <3>2. CASE ~more
      BY <3>2, <2>6, <2>7, <2>9, <2>11, <2>15, <2>16
    <3> QED
      BY <3>1, <3>2
  <2>18. mode \in {"idle", "get"} /\ (mode = "get" <=> rest # <<>>) /\ bit \in BOOLEAN
    OBVIOUS
  <2> HIDE DEF mode, bit
  <2>19. t = [open |-> d.open, rd |-> d.rd, wr |-> d.wr, app |-> d.app, mode |-> mode,
              off |-> off, buf |-> rest, eof |-> bit, fail |-> bit]
    BY <2>5, <2>6 DEF Stream
  <2>20. SoundStream(t)
    BY <2>6, <2>14, <2>15, <2>17, <2>18, <2>19 DEF SoundStream, Stream
  <2>21. Alike(s, t) /\ Synced(t, file) = file
    BY <2>2, <2>18, <2>19 DEF Alike, Synced
  <2>22. ASSUME Fetched(s, c), rest # <<>>
         PROVE  off = Len(file) /\ rest = From(file, Len(file) - Len(rest))
    <3>1. Fetched(d, file)
      BY <2>3, <2>22
    <3>2. CASE d.mode = "get"
      <4> DEFINE p == d.off - Len(d.buf)
      <4>1. d.off = Len(file) /\ d.buf = From(file, p) /\ p \in Nat
        BY <2>6, <2>7, <3>1, <3>2 DEF Fetched
      <4>2. ~more
        BY <2>6, <2>8, <2>9, <2>10, <2>12, <2>15, <2>16, <2>22, <4>1
      <4>3. got = From(file, p)
        BY <2>11, <4>1, <4>2
      <4> HIDE DEF p
      <4>4. From(From(file, p), n) = rest /\ n \in Nat
        BY <4>3 DEF rest
      <4>5. rest = From(file, Len(file) - Len(rest))
        BY <2>4, <2>22, <4>1, <4>4, UnreadIs
      <4> QED
        BY <2>11, <4>1, <4>2, <4>5
    <3>3. CASE d.mode = "idle"
      <4>1. more
        BY <2>7, <2>11, <2>15, <2>16, <2>22, <3>3
      <4>2. From(From(file, d.off), n) = rest /\ n \in Nat
        BY <2>13, <3>3, <4>1 DEF rest, g
      <4>3. d.off + n < Len(file) /\ rest = From(file, Len(file) - Len(rest))
        BY <2>4, <2>6, <2>22, <4>2, UnreadIs
      <4>4. off = Len(file)
        BY <2>6, <2>12, <4>1, <4>2, <4>3 DEF Longer
      <4> QED
        BY <4>3, <4>4
    <3> QED
      BY <2>7, <3>2, <3>3
  <2>23. ASSUME Fetched(s, c) PROVE Fetched(t, file)
    <3>1. SUFFICES ASSUME t.mode = "get" PROVE t.off = Len(file) /\ t.buf = From(file, t.off - Len(t.buf))
      BY DEF Fetched
    <3>2. rest # <<>>
      BY <2>18, <2>19, <3>1
    <3>3. t.off = off /\ t.buf = rest
      BY <2>19
    <3>4. off = Len(file) /\ rest = From(file, Len(file) - Len(rest))
      BY <2>22, <2>23, <3>2
    <3> QED
      BY <3>3, <3>4
  <2>25. Saves(s, c, Result(t, file, v)) /\ ~s.eof
    BY <1>2, DrainedSaves DEF Result, file, Good
  <2>24. Settles(s, c, Result(t, file, v))
    BY <2>4, <2>20, <2>21, <2>23, <2>25 DEF Settles, Result, file
  <2> QED
    BY <2>1, <2>24
<1> QED
  BY <1>1, <1>2

LEMMA PeekSettles ==
  ASSUME NEW s, SoundStream(s), NEW c \in Contents
  PROVE  Settles(s, c, Peek(s, c))
<1>0. s \in Stream
  BY DEF SoundStream
<1>1. CASE ~Good(s)
  <2> DEFINE e == s.eof
             t == [s EXCEPT !.fail = TRUE]
  <2>1. Peek(s, c) = Result(t, c, Failed)
    BY <1>1 DEF Peek
  <2>2. e \in BOOLEAN /\ t = [s EXCEPT !.fail = TRUE, !.eof = e] /\ (s.eof => e)
    BY <1>0 DEF Stream
  <2> HIDE DEF e, t
  <2> QED
    BY <2>1, <2>2, BitsSettle
<1>2. CASE Good(s) /\ ~s.rd
  <2> DEFINE f == s.fail
             t == [s EXCEPT !.eof = TRUE]
  <2>1. Peek(s, c) = Result(t, c, Failed)
    BY <1>2 DEF Peek
  <2>2. f \in BOOLEAN /\ t = [s EXCEPT !.fail = f, !.eof = TRUE]
    BY <1>0 DEF Stream
  <2> HIDE DEF f, t
  <2> QED
    BY <2>1, <2>2, BitsSettle
<1>3. CASE Good(s) /\ s.rd
  <2> DEFINE d    == Drain(s, c)
             file == Synced(s, c)
             g    == From(file, d.off)
             got  == IF d.buf = <<>> THEN g ELSE d.buf
             off  == IF d.buf = <<>> THEN Len(file) ELSE d.off
             t1   == [d EXCEPT !.mode = "idle", !.eof = TRUE]
             t2   == [d EXCEPT !.mode = "get", !.buf = got, !.off = off]
  <2>1. Peek(s, c) = IF got = <<>> THEN Result(t1, file, Failed) ELSE Result(t2, file, got[1])
    BY <1>3 DEF Peek
  <2>2. SoundStream(d) /\ Alike(s, d) /\ d.mode # "put"
    BY DrainIs
  <2>3. Fetched(s, c) => Fetched(d, file)
    BY DrainIs
  <2>4. file \in Contents /\ (s.app => Prolongs(c, file))
    BY SyncedIs
  <2>5. /\ t1 = [d EXCEPT !.mode = "idle", !.eof = TRUE]
        /\ t2 = [d EXCEPT !.mode = "get", !.buf = got, !.off = off]
    OBVIOUS
  <2> HIDE DEF d, file, t1, t2
  <2>6. d \in Stream /\ d.off \in Nat /\ d.buf \in Contents /\ Len(d.buf) \in Nat /\ Len(file) \in Nat
    BY <2>2, <2>4, LengthIs DEF SoundStream, Stream
  <2>7. /\ d.mode = "idle" <=> d.buf = <<>>
        /\ d.mode = "get" => Len(d.buf) <= d.off
        /\ d.mode = "idle" \/ d.mode = "get"
    BY <2>2, <2>6 DEF SoundStream, Stream
  <2>8. g \in Contents /\ Len(g) = IF d.off <= Len(file) THEN Len(file) - d.off ELSE 0
    BY <2>4, <2>6, FromIs
  <2>9. g # <<>> <=> Len(g) > 0
    BY <2>8, LengthIs
  <2>10. /\ d.buf = <<>> => got = g /\ off = Len(file)
         /\ d.buf # <<>> => got = d.buf /\ off = d.off
    OBVIOUS
  <2>11. off \in Nat /\ got \in Contents
    BY <2>6, <2>8, <2>10
  <2> HIDE DEF got, off
  <2>12. CASE got = <<>>
    <3>1. d.buf = <<>> /\ d.mode = "idle"
      BY <2>7, <2>10, <2>12
    <3>2. t1 = [open |-> d.open, rd |-> d.rd, wr |-> d.wr, app |-> d.app, mode |-> "idle",
                off |-> d.off, buf |-> d.buf, eof |-> TRUE, fail |-> d.fail]
      BY <2>5, <2>6 DEF Stream
    <3>3. SoundStream(t1)
      BY <2>6, <3>1, <3>2 DEF SoundStream, Stream
    <3>4. Alike(s, t1) /\ Synced(t1, file) = file /\ Fetched(t1, file)
      BY <2>2, <3>2 DEF Alike, Synced, Fetched
    <3>6. Saves(s, c, Result(t1, file, Failed)) /\ ~s.eof
      BY <1>3, DrainedSaves DEF Result, file, Good
    <3>5. Settles(s, c, Result(t1, file, Failed))
      BY <2>4, <3>3, <3>4, <3>6 DEF Settles, Result, file
    <3> QED
      BY <2>1, <2>12, <3>5
  <2>13. CASE got # <<>>
    <3>1. t2 = [open |-> d.open, rd |-> d.rd, wr |-> d.wr, app |-> d.app, mode |-> "get",
                off |-> off, buf |-> got, eof |-> d.eof, fail |-> d.fail]
      BY <2>5, <2>6 DEF Stream
    <3>2. ASSUME d.buf = <<>>
          PROVE  Len(got) <= off /\ off = Len(file) /\ got = From(file, off - Len(got))
      <4> DEFINE a == Len(g)
                 m == Len(file)
      <4>1. a = IF d.off <= m THEN m - d.off ELSE 0
        BY <2>8
      <4>2. a > 0 /\ m \in Nat
        BY <2>6, <2>9, <2>10, <2>13, <3>2
      <4> HIDE DEF a, m
      <4>3. a <= m /\ m - a = d.off
        BY <2>6, <4>1, <4>2
      <4>4. got = g /\ off = m /\ Len(got) = a
        BY <2>10, <3>2 DEF a, m
      <4> QED
        BY <4>3, <4>4 DEF g, m
    <3>3. Len(got) <= off
      BY <2>7, <2>10, <3>2
    <3>4. SoundStream(t2)
      BY <2>6, <2>11, <2>13, <3>1, <3>3 DEF SoundStream, Stream
    <3>5. ASSUME Fetched(s, c) PROVE Fetched(t2, file)
      <4>1. off = Len(file) /\ got = From(file, off - Len(got))
        <5>1. CASE d.buf = <<>>
          BY <3>2, <5>1
        <5>2. CASE d.buf # <<>>
          BY <2>3, <2>7, <2>10, <3>5, <5>2 DEF Fetched
        <5> QED
          BY <5>1, <5>2
      <4>2. t2.off = off /\ t2.buf = got
        BY <3>1
      <4> QED
        BY <4>1, <4>2 DEF Fetched
    <3>6. Alike(s, t2) /\ Synced(t2, file) = file
      BY <2>2, <3>1 DEF Alike, Synced
    <3>8. Saves(s, c, Result(t2, file, got[1])) /\ ~s.eof
      BY <1>3, DrainedSaves DEF Result, file, Good
    <3>7. Settles(s, c, Result(t2, file, got[1]))
      BY <2>4, <3>4, <3>5, <3>6, <3>8 DEF Settles, Result, file
    <3> QED
      BY <2>1, <2>13, <3>7
  <2> QED
    BY <2>12, <2>13
<1> QED
  BY <1>1, <1>2, <1>3

\* close() leaves a stream that holds nothing, and a file that has everything.
LEMMA CloseIs ==
  ASSUME NEW s, SoundStream(s), NEW c \in Contents
  PROVE  LET r == Close(s, c) IN
         /\ SoundStream(r.st) /\ ~r.st.open
         /\ r.data = Synced(s, c)
<1> DEFINE e == s.eof
           f == s.fail
           t == [Closed EXCEPT !.eof = e, !.fail = f]
<1>1. Close(s, c) = Result(t, Synced(s, c), TRUE)
  BY DEF Close
<1>2. e \in BOOLEAN /\ f \in BOOLEAN /\ <<>> \in Contents
  BY DEF SoundStream, Stream, Contents
<1>3. t = [Closed EXCEPT !.eof = e, !.fail = f]
  OBVIOUS
<1> HIDE DEF e, f, t
<1>4. t = [open |-> FALSE, rd |-> FALSE, wr |-> FALSE, app |-> FALSE, mode |-> "idle",
           off |-> 0, buf |-> <<>>, eof |-> e, fail |-> f]
  BY <1>2, <1>3 DEF Closed
<1>5. SoundStream(t) /\ ~t.open
  BY <1>2, <1>4 DEF SoundStream, Stream
<1> QED
  BY <1>1, <1>5 DEF Result

LEMMA NewStreams ==
  /\ SoundStream(Closed) /\ SoundStream(Unopened) /\ ~Unopened.open /\ ~Closed.open
  /\ Closed.mode = "idle" /\ Unopened.mode = "idle"
  /\ \A flags : SoundStream(Fresh(flags)) /\ Fresh(flags).open /\ Fresh(flags).mode = "idle"
                /\ (Fresh(flags).app <=> "app" \in flags)
<1>1. <<>> \in Contents
  BY DEF Contents
<1>2. SoundStream(Closed) /\ ~Closed.open /\ Closed.mode = "idle"
  BY <1>1 DEF SoundStream, Stream, Closed
<1>3. SoundStream(Unopened) /\ ~Unopened.open /\ Unopened.mode = "idle"
  BY <1>1 DEF SoundStream, Stream, Unopened, Closed
<1>4. ASSUME NEW flags
      PROVE  /\ SoundStream(Fresh(flags)) /\ Fresh(flags).open /\ Fresh(flags).mode = "idle"
             /\ Fresh(flags).app <=> "app" \in flags
  <2> DEFINE r == "in" \in flags
             w == flags \cap {"out", "app"} # {}
             a == "app" \in flags
  <2>1. Fresh(flags) = [Closed EXCEPT !.open = TRUE, !.rd = r, !.wr = w, !.app = a]
    BY DEF Fresh
  <2>2. r \in BOOLEAN /\ w \in BOOLEAN /\ a \in BOOLEAN /\ (a <=> "app" \in flags)
    OBVIOUS
  <2> HIDE DEF r, w, a
  <2>3. Fresh(flags) = [open |-> TRUE, rd |-> r, wr |-> w, app |-> a,
                        mode |-> "idle", off |-> 0, buf |-> <<>>, eof |-> FALSE, fail |-> FALSE]
    BY <2>1, <2>2 DEF Closed
  <2>4. SoundStream(Fresh(flags)) /\ Fresh(flags).open /\ Fresh(flags).mode = "idle"
    BY <1>1, <2>2, <2>3 DEF SoundStream, Stream
  <2>5. Fresh(flags).app = a
    BY <2>3
  <2> QED
    BY <2>2, <2>4, <2>5
<1> QED
  BY <1>2, <1>3, <1>4

\* write(): what was accepted is in the file or goes there, and the file gets no longer
\* than the end of what was written.
LEMMA WriteIs ==
  ASSUME NEW s, SoundStream(s), NEW c \in Contents, NEW b \in Contents, b # <<>>,
         NEW spill \in BOOLEAN, NEW older \in BOOLEAN
  PROVE  LET r == Write(s, c, b, spill, older) IN
         /\ SoundStream(r.st) /\ r.data \in Contents /\ Alike(s, r.st)
         /\ s.app => Prolongs(c, r.data)
         /\ Fetched(s, c) => Fetched(r.st, r.data)
         /\ r.val => Tell(r.st) \in Nat
         /\ r.val /\ Good(s) /\ ~s.app =>
              Len(Synced(r.st, r.data)) = Longer(Len(Synced(s, c)), Tell(r.st))
         /\ ~r.val \/ ~Good(s) => Synced(r.st, r.data) = Synced(s, c)
         /\ s.eof => r.st.eof
         /\ Saves(s, c, r)
<1> DEFINE r == Write(s, c, b, spill, older)
<1>0. s \in Stream /\ s.off \in Nat /\ s.buf \in Contents /\ Len(s.buf) \in Nat /\ Len(b) \in Nat
  BY LengthIs DEF SoundStream, Stream
<1>1. CASE ~Good(s)
  <2> DEFINE e == s.eof
             f == s.fail \/ older
             t == [s EXCEPT !.fail = f]
  <2>1. r = Result(t, c, ~t.fail)
    BY <1>1 DEF Write
  <2>2. e \in BOOLEAN /\ f \in BOOLEAN /\ t = [s EXCEPT !.fail = f, !.eof = e] /\ (s.eof => e)
    BY <1>0 DEF Stream
  <2>3. t.fail = f /\ t.mode = s.mode /\ t.off = s.off /\ t.buf = s.buf
    BY <1>0 DEF Stream
  <2> HIDE DEF e, f, t, r
  <2>4. Settles(s, c, r)
    BY <2>1, <2>2, BitsSettle
  <2>5. r.st = t /\ r.val = ~f
    BY <2>1, <2>3 DEF Result
  <2>6. r.val => Tell(r.st) \in Nat
    <3> SUFFICES ASSUME r.val PROVE Tell(t) \in Nat
      BY <2>5
    <3>1. ~t.fail
      BY <2>2, <2>3, <2>5
    <3>2. t.mode \in {"idle", "get", "put"} /\ (t.mode = "get" => Len(t.buf) <= t.off)
      BY <1>0, <2>3 DEF SoundStream, Stream
    <3>3. t.off \in Nat /\ Len(t.buf) \in Nat
      BY <1>0, <2>3
    <3> QED
      BY <3>1, <3>2, <3>3 DEF Tell
  <2> QED
    BY <1>1, <2>4, <2>6 DEF r, Settles
<1>2. CASE Good(s) /\ ~s.wr
  <2> DEFINE f == TRUE
             e == s.eof
             t == [s EXCEPT !.fail = TRUE]
  <2>1. r = Result(t, c, FALSE)
    BY <1>2 DEF Write
  <2>2. e \in BOOLEAN /\ t = [s EXCEPT !.fail = TRUE, !.eof = e] /\ (s.eof => e)
    BY <1>0 DEF Stream
  <2> HIDE DEF e, t, r
  <2>3. Settles(s, c, r)
    BY <2>1, <2>2, BitsSettle
  <2>4. r.data = c /\ r.val = FALSE
    BY <2>1 DEF Result
  <2> QED
    BY <1>2, <2>3, <2>4 DEF r, Settles
<1>3. CASE Good(s) /\ s.wr
  <2> DEFINE o == IF s.mode = "get" THEN Tell(s) ELSE s.off
             w == IF s.mode = "put" THEN s.buf \o b ELSE b
             p == [s EXCEPT !.mode = "put", !.off = o, !.buf = w]
  <2>1. r = IF spill THEN Result(Drain(p, c), Synced(p, c), TRUE) ELSE Result(p, c, TRUE)
    BY <1>3 DEF Write
  <2>19. ~s.eof
    BY <1>3 DEF Good
  <2>2. p = [s EXCEPT !.mode = "put", !.off = o, !.buf = w]
    OBVIOUS
  <2>3. ~s.fail
    BY <1>3 DEF Good
  <2>4. o \in Nat
    BY <1>0, <2>3 DEF SoundStream, Tell
  <2>5. /\ w \in Contents /\ Len(w) > 0 /\ Len(w) \in Nat
        /\ s.mode = "put" => o = s.off /\ Len(w) = Len(s.buf) + Len(b)
    <3>1. Len(b) > 0
      BY LengthIs
    <3>2. CASE s.mode = "put"
      <4>1. w = s.buf \o b /\ o = s.off
        BY <3>2
      <4> HIDE DEF w
      <4>2. w \in Contents /\ Len(w) = Len(s.buf) + Len(b)
        BY <1>0, <4>1, JoinIs
      <4> QED
        BY <1>0, <3>1, <4>1, <4>2
    <3>3. CASE s.mode # "put"
      <4>1. w = b
        BY <3>3
      <4> QED
        BY <1>0, <3>1, <3>3, <4>1
    <3> QED
      BY <3>2, <3>3
  <2>6. w # <<>>
    BY <2>5, LengthIs
  <2> HIDE DEF o, w, p, r
  <2>7. p = [open |-> s.open, rd |-> s.rd, wr |-> s.wr, app |-> s.app, mode |-> "put",
             off |-> o, buf |-> w, eof |-> s.eof, fail |-> s.fail]
    BY <1>0, <2>2 DEF Stream
  <2>8. SoundStream(p)
    BY <1>0, <2>4, <2>5, <2>6, <2>7 DEF SoundStream, Stream
  <2>9. Alike(s, p) /\ p.mode = "put" /\ p.fail = FALSE /\ p.off = o /\ p.buf = w
    BY <2>3, <2>7, <1>0 DEF Alike, Stream
  <2> DEFINE d == Drain(p, c)
             S == Synced(p, c)
  <2>10. /\ SoundStream(d) /\ Alike(p, d) /\ d.mode = "idle" /\ d.fail = FALSE
         /\ ~p.app => d.off = o + Len(w)
    BY <2>8, <2>9, DrainIs
  <2>11. S \in Contents /\ (p.app => Prolongs(c, S))
    BY <2>8, SyncedIs
  <2>12. ~p.app => Len(S) = Longer(Len(c), o + Len(w))
    BY <2>8, <2>9, SyncedIs
  <2> HIDE DEF d, S
  <2>13. /\ SoundStream(r.st) /\ r.data \in Contents /\ r.val = TRUE
         /\ r.st.fail = FALSE /\ r.st.mode # "get" /\ Synced(r.st, r.data) = S
    <3>1. CASE spill
      <4>1. r.st = d /\ r.data = S /\ r.val = TRUE
        BY <2>1, <3>1 DEF Result, d, S
      <4>2. Synced(d, S) = S
        BY <2>10 DEF Synced
      <4> QED
        BY <2>10, <2>11, <4>1, <4>2
    <3>2. CASE ~spill
      <4>1. r.st = p /\ r.data = c /\ r.val = TRUE
        BY <2>1, <3>2 DEF Result
      <4> QED
        BY <2>8, <2>9, <4>1 DEF S
    <3> QED
      BY <3>1, <3>2
  <2>14. Alike(s, r.st) /\ (s.app => Prolongs(c, r.data))
    <3>1. CASE spill
      <4>1. r.st = d /\ r.data = S
        BY <2>1, <3>1 DEF Result, d, S
      <4> QED
        BY <2>9, <2>10, <2>11, <4>1 DEF Alike
    <3>2. CASE ~spill
      <4>1. r.st = p /\ r.data = c
        BY <2>1, <3>2 DEF Result
      <4> QED
        BY <2>9, <4>1, ProlongsSelf
    <3> QED
      BY <3>1, <3>2
  <2>15. Fetched(r.st, r.data)
    BY <2>13 DEF Fetched
  <2>16. Tell(r.st) \in Nat /\ (~s.app => Tell(r.st) = o + Len(w))
    <3>1. CASE spill
      <4>1. r.st = d
        BY <2>1, <3>1 DEF Result, d
      <4>2. Tell(r.st) = d.off /\ d.off \in Nat
        BY <2>10, <4>1 DEF Tell, SoundStream, Stream
      <4> QED
        BY <2>9, <2>10, <4>2 DEF Alike
    <3>2. CASE ~spill
      <4>1. r.st = p
        BY <2>1, <3>2 DEF Result
      <4>2. Tell(r.st) = o + Len(w)
        BY <2>9, <4>1 DEF Tell
      <4> QED
        BY <2>4, <2>5, <4>2
    <3> QED
      BY <3>1, <3>2
  <2>17. ~s.app => Len(S) = Longer(Len(Synced(s, c)), o + Len(w))
    <3>1. CASE s.mode = "put" /\ ~s.app
      <4> DEFINE m == Len(Synced(s, c))
                 k == Len(c)
                 x == Len(s.buf)
                 y == Len(w)
                 z == Len(b)
                 q == s.off
      <4>1. m = Longer(k, q + x)
        BY <3>1, SyncedIs
      <4>2. k \in Nat /\ x \in Nat /\ y \in Nat /\ z \in Nat /\ q \in Nat /\ y = x + z /\ o = q
        BY <1>0, <2>5, <3>1, LengthIs
      <4>3. Len(S) = Longer(k, o + y)
        BY <2>9, <2>12, <3>1 DEF Alike
      <4> HIDE DEF m, k, x, y, z, q
      <4>4. Longer(k, o + y) = Longer(m, o + y)
        BY <4>1, <4>2 DEF Longer
      <4> QED
        BY <4>3, <4>4 DEF m, y
    <3>2. CASE s.mode # "put" /\ ~s.app
      <4>1. Synced(s, c) = c
        BY <3>2, SyncedIs
      <4> QED
        BY <2>9, <2>12, <3>2, <4>1 DEF Alike
    <3> QED
      BY <3>1, <3>2
  <2>20. Saves(s, c, r)
    <3> SUFFICES ASSUME s.app, s.mode = "put"
                 PROVE  \/ Prolongs(c \o s.buf, r.data)
                        \/ r.st.mode = "put" /\ Prolongs(s.buf, r.st.buf)
      BY DEF Saves
    <3>1. w = s.buf \o b /\ p.app
      BY <2>9 DEF w, Alike
    <3>2. CASE spill
      <4>1. r.data = S
        BY <2>1, <3>2 DEF Result, S
      <4>2. S = c \o w
        BY <2>9, <3>1 DEF S, Synced
      <4>3. c \o w = (c \o s.buf) \o b
        BY <1>0, <3>1, JoinJoined
      <4>4. c \o s.buf \in Contents
        BY <1>0, JoinIs
      <4>5. Prolongs(c \o s.buf, (c \o s.buf) \o b)
        BY <4>4, JoinProlongs
      <4> QED
        BY <4>1, <4>2, <4>3, <4>5
    <3>3. CASE ~spill
      <4>1. r.st = p
        BY <2>1, <3>3 DEF Result
      <4>2. Prolongs(s.buf, s.buf \o b)
        BY <1>0, JoinProlongs
      <4> QED
        BY <2>9, <3>1, <4>1, <4>2
    <3> QED
      BY <3>2, <3>3
  <2>18. /\ SoundStream(r.st) /\ r.data \in Contents /\ Alike(s, r.st)
         /\ s.app => Prolongs(c, r.data)
         /\ Fetched(s, c) => Fetched(r.st, r.data)
         /\ r.val => Tell(r.st) \in Nat
         /\ r.val /\ ~s.app => Len(Synced(r.st, r.data)) = Longer(Len(Synced(s, c)), Tell(r.st))
         /\ r.val = TRUE
    BY <2>13, <2>14, <2>15, <2>16, <2>17
  <2> QED
    BY <1>3, <2>18, <2>19, <2>20 DEF r
<1> QED
  BY <1>1, <1>2, <1>3

-----------------------------------------------------------------------------
(***************************************************************************)
(* The invariant.  An object that is alone with its file knows the length  *)
(* of it and has fetched its last bytes; none but its own stream has the   *)
(* file open.                                                              *)
(***************************************************************************)
Object == [live : BOOLEAN, path : Path \cup {Null}, ino : Inode \cup {Null}, size : Nat,
           asked : BOOLEAN, st : Stream]

Objects(im) ==
  /\ im \in [Impl -> Object]
  /\ \A i \in Impl : SoundStream(im[i].st)
  /\ \A i \in Impl : im[i].st.open => /\ im[i].live /\ im[i].ino \in Inode
                                      /\ im[i].asked = im[i].st.app

\* What size() knows of the length of a file
Fits(size, s, c) ==
  ~s.app => Len(Synced(s, c)) <= size /\ (~s.eof => size = Len(Synced(s, c)))

Lone(im, i, dk) ==
  /\ \A j \in Impl : im[j].st.open /\ im[j].ino = im[i].ino => j = i
  /\ Fits(im[i].size, im[i].st, dk[im[i].ino])
  /\ Fetched(im[i].st, dk[im[i].ino])

Sane(hs, im, dk, names, al) ==
  /\ names \in [Path -> Inode \cup {Null}]
  /\ dk \in [Inode -> Contents]
  /\ hs \in [Handle -> Impl \cup {Null}]
  /\ al \in [Impl -> BOOLEAN]
  /\ Objects(im)
  /\ \A h \in Handle : hs[h] # Null => im[hs[h]].live
  /\ \A i \in Impl : al[i] /\ im[i].st.open => Lone(im, i, dk)

IInv ==
  /\ Sane(handle, impl, disk, inode, alone)
  /\ \A i \in Impl : impl[i].live => \E h \in Handle : handle[h] = i
  /\ killed \in BOOLEAN

LEMMA FreeIs == Free \in Object /\ SoundStream(Free.st) /\ ~Free.live /\ ~Free.st.open
<1> DEFINE c == Closed
<1>1. SoundStream(c) /\ ~c.open
  BY NewStreams
<1>2. Free = [live |-> FALSE, path |-> Null, ino |-> Null, size |-> 0, asked |-> FALSE, st |-> c]
  BY DEF Free
<1> HIDE DEF c
<1>3. c \in Stream
  BY <1>1 DEF SoundStream
<1>4. Free \in Object
  BY <1>2, <1>3 DEF Object
<1>5. Free.st = c /\ Free.live = FALSE
  BY <1>2
<1> QED
  BY <1>1, <1>4, <1>5

Closing(hs, im, n) == {i \in Unshared(hs, im) : im[i].st.open /\ im[i].ino = n}

\* A file that only appending streams have open, and what a step keeps of it: what the
\* host has, and what the streams hold
AppOnly(n) == \A i \in Impl : impl[i].st.open /\ impl[i].ino = n => impl[i].st.app

HeldLasts(i, n) ==
  impl[i].st.mode = "put" =>
    \/ Prolongs(disk[n] \o impl[i].st.buf, disk'[n])
    \/ impl'[i].ino = n /\ impl'[i].st.mode = "put" /\ Prolongs(impl[i].st.buf, impl'[i].st.buf)

AllLasts(n) ==
  /\ Prolongs(disk[n], disk'[n])
  /\ \A i \in Impl : impl[i].st.open /\ impl[i].ino = n => HeldLasts(i, n)

LEMMA SameLasts ==
  ASSUME NEW i \in Impl, SoundStream(impl[i].st), impl'[i] = impl[i], NEW n, impl[i].ino = n
  PROVE  HeldLasts(i, n)
<1>1. impl[i].st.buf \in Contents
  BY DEF SoundStream, Stream
<1> QED
  BY <1>1, ProlongsSelf DEF HeldLasts

LEMMA AloneDrained ==
  ASSUME NEW hs, NEW im, NEW dk, NEW n \in Inode, NEW i, Closing(hs, im, n) = {i}
  PROVE  DrainedBy(hs, im, dk)[n] = Synced(im[i].st, dk[n])
<1> DEFINE K == Closing(hs, im, n)
<1>1. DrainedBy(hs, im, dk)[n] = IF K = {} THEN dk[n] ELSE Synced(im[CHOOSE j \in K : TRUE].st, dk[n])
  BY DEF DrainedBy, Closing
<1>2. K = {i}
  OBVIOUS
<1> HIDE DEF K
<1>3. (CHOOSE j \in K : TRUE) = i
  BY <1>2
<1> QED
  BY <1>1, <1>2, <1>3

\* What the streams that close leave of a file
LEMMA DrainedIs ==
  ASSUME NEW hs, NEW im, Objects(im), NEW dk \in [Inode -> Contents], NEW n \in Inode
  PROVE  /\ DrainedBy(hs, im, dk)[n] \in Contents
         /\ Closing(hs, im, n) = {} => DrainedBy(hs, im, dk)[n] = dk[n]
         /\ (\A i \in Closing(hs, im, n) : im[i].st.app) => Prolongs(dk[n], DrainedBy(hs, im, dk)[n])
<1> DEFINE K == Closing(hs, im, n)
           d == DrainedBy(hs, im, dk)[n]
           c == dk[n]
<1>1. d = IF K = {} THEN c ELSE Synced(im[CHOOSE i \in K : TRUE].st, c)
  BY DEF DrainedBy, Closing
<1>2. c \in Contents
  OBVIOUS
<1>3. K \subseteq Impl
  BY DEF Closing, Unshared
<1> HIDE DEF K, d, c
<1>4. CASE K = {}
  <2>1. d = c
    BY <1>1, <1>4
  <2>2. Prolongs(c, d)
    BY <1>2, <2>1, ProlongsSelf
  <2> QED
    BY <1>2, <2>1, <2>2 DEF K, d, c
<1>5. CASE K # {}
  <2> DEFINE i == CHOOSE i \in K : TRUE
  <2>1. i \in K
    BY <1>5
  <2>2. d = Synced(im[i].st, c)
    BY <1>1, <1>5
  <2> HIDE DEF i
  <2>3. SoundStream(im[i].st)
    BY <1>3, <2>1 DEF Objects
  <2>4. d \in Contents
    BY <1>2, <2>2, <2>3, SyncedIs
  <2>5. im[i].st.app => Prolongs(c, d)
    BY <1>2, <2>2, <2>3, SyncedIs
  <2> QED
    BY <1>5, <2>1, <2>4, <2>5 DEF K, d, c
<1> QED
  BY <1>4, <1>5

\* Letting go of objects leaves a state that is sound if it was one.
LEMMA ReleaseSane ==
  ASSUME NEW hs, NEW im, NEW dk, NEW names, NEW al, Sane(hs, im, dk, names, al),
         killed \in BOOLEAN, Release(hs, im, dk, names, al)
  PROVE  IInv'
<1> DEFINE U   == Unshared(hs, im)
           im2 == Destroyed(hs, im)
           d2  == DrainedBy(hs, im, dk)
           d3  == Reclaimed(names, im2, d2)
           al2 == [i \in Impl |-> al[i] /\ i \notin U]
<1>1. /\ handle' = hs /\ inode' = names /\ impl' = im2 /\ disk' = d3 /\ alone' = al2
      /\ killed' = (killed /\ \A i \in Impl : ~impl'[i].st.open)
  BY DEF Release
<1>2. /\ names \in [Path -> Inode \cup {Null}] /\ dk \in [Inode -> Contents]
      /\ hs \in [Handle -> Impl \cup {Null}] /\ al \in [Impl -> BOOLEAN] /\ Objects(im)
      /\ \A h \in Handle : hs[h] # Null => im[hs[h]].live
      /\ \A i \in Impl : al[i] /\ im[i].st.open => Lone(im, i, dk)
  BY DEF Sane
<1>3. im2 = [i \in Impl |-> IF i \in U THEN Free ELSE im[i]]
  BY DEF Destroyed
<1>4. \A i : i \in U <=> i \in Impl /\ im[i].live /\ \A h \in Handle : hs[h] # i
  BY DEF Unshared
<1>5. im \in [Impl -> Object]
  BY <1>2 DEF Objects
<1> HIDE DEF U, im2
<1>6. \A i \in Impl : im2[i] = IF i \in U THEN Free ELSE im[i]
  BY <1>3
<1>7. im2 \in [Impl -> Object]
  BY <1>3, <1>5, FreeIs
<1>8. Objects(im2)
  <2>1. \A i \in Impl : SoundStream(im2[i].st)
    BY <1>2, <1>6, FreeIs DEF Objects
  <2>2. \A i \in Impl : im2[i].st.open => /\ im2[i].live /\ im2[i].ino \in Inode
                                         /\ im2[i].asked = im2[i].st.app
    BY <1>2, <1>6, FreeIs DEF Objects
  <2> QED
    BY <1>7, <2>1, <2>2 DEF Objects
<1>9. d2 = [n \in Inode |-> d2[n]] /\ \A n \in Inode : d2[n] \in Contents
  BY <1>2, DrainedIs DEF DrainedBy
<1>10. \A n \in Inode :
         d3[n] = IF \/ \E p \in Path : names[p] = n
                    \/ \E i \in Impl : im2[i].st.open /\ im2[i].ino = n
                 THEN d2[n] ELSE <<>>
  BY DEF Reclaimed
<1>11. d3 = [n \in Inode |-> d3[n]]
  BY DEF Reclaimed
<1>12. <<>> \in Contents
  BY DEF Contents
<1> DEFINE Kept(n) == \/ \E p \in Path : names[p] = n
                      \/ \E i \in Impl : im2[i].st.open /\ im2[i].ino = n
<1>13. \A n \in Inode : d3[n] = IF Kept(n) THEN d2[n] ELSE <<>>
  BY <1>10
<1>14. \A n \in Inode, i \in Impl : im2[i].st.open /\ im2[i].ino = n => Kept(n)
  OBVIOUS
<1> HIDE DEF d2, d3, Kept
<1>15. d3 \in [Inode -> Contents]
  BY <1>9, <1>11, <1>12, <1>13
<1>16. al2 \in [Impl -> BOOLEAN]
  OBVIOUS
<1>17. \A h \in Handle : hs[h] # Null => im2[hs[h]].live
  BY <1>2, <1>4, <1>6
<1>18. ASSUME NEW i \in Impl, al2[i], im2[i].st.open PROVE Lone(im2, i, d3)
  <2>1. al[i] /\ i \notin U /\ im2[i] = im[i] /\ im[i].st.open
    BY <1>6, <1>18
  <2>2. Lone(im, i, dk)
    BY <1>2, <2>1
  <2>3. \A j \in Impl : im2[j].st.open /\ im2[j].ino = im2[i].ino => j = i
    BY <1>6, <2>1, <2>2, FreeIs DEF Lone
  <2> DEFINE n == im[i].ino
  <2>4. n \in Inode
    BY <1>2, <2>1 DEF Objects
  <2>5. Closing(hs, im, n) = {}
    BY <1>4, <2>1, <2>2 DEF Lone, Closing, U, Unshared
  <2>6. d2[n] = dk[n]
    BY <1>2, <2>4, <2>5, DrainedIs DEF d2
  <2>7. Kept(n)
    BY <1>14, <1>18, <2>1, <2>4
  <2>8. d3[n] = dk[n]
    BY <1>13, <2>4, <2>6, <2>7
  <2> QED
    BY <2>1, <2>2, <2>3, <2>8 DEF Lone
<1> HIDE DEF al2
<1>19. Sane(handle, impl, disk, inode, alone)'
  BY <1>1, <1>2, <1>8, <1>15, <1>16, <1>17, <1>18 DEF Sane
<1>20. \A i \in Impl : im2[i].live => \E h \in Handle : hs[h] = i
  BY <1>4, <1>6, FreeIs
<1>21. killed' \in BOOLEAN
  BY <1>1
<1> QED
  BY <1>1, <1>19, <1>20, <1>21 DEF IInv

LEMMA ReleaseDrains ==
  ASSUME NEW hs, NEW im, NEW dk, NEW names, NEW al, Release(hs, im, dk, names, al),
         NEW n \in Inode, InUse(n)'
  PROVE  disk'[n] = DrainedBy(hs, im, dk)[n]
<1> DEFINE d2 == DrainedBy(hs, im, dk)
<1>1. inode' = names /\ impl' = Destroyed(hs, im) /\ disk' = Reclaimed(names, Destroyed(hs, im), d2)
  BY DEF Release
<1> HIDE DEF d2
<1>2. disk' = Reclaimed(inode', impl', d2)
  BY <1>1
<1>3. disk'[n] = d2[n]
  BY <1>2 DEF Reclaimed, InUse
<1> QED
  BY <1>3 DEF d2

\* A file that only appending streams closed keeps what it has.
LEMMA ReleaseKeeps ==
  ASSUME NEW hs, NEW im, NEW dk, NEW names, NEW al, Objects(im), dk \in [Inode -> Contents],
         Release(hs, im, dk, names, al), NEW n \in Inode,
         \A i \in Unshared(hs, im) : im[i].st.open /\ im[i].ino = n => im[i].st.app,
         InUse(n)'
  PROVE  Prolongs(dk[n], disk'[n])
<1> DEFINE d2 == DrainedBy(hs, im, dk)
<1>1. Prolongs(dk[n], d2[n])
  <2>1. \A i \in Closing(hs, im, n) : im[i].st.app
    BY DEF Closing
  <2> QED
    BY <2>1, DrainedIs
<1>4. disk'[n] = d2[n]
  BY ReleaseDrains
<1> QED
  BY <1>1, <1>4

-----------------------------------------------------------------------------
(***************************************************************************)
(* Calls on the stream of one object                                       *)
(***************************************************************************)
\* What such a call may do: r, and the size the object keeps, from a state of IInv.
Proper(i, r, size) ==
  /\ SoundStream(r.st) /\ r.data \in Contents /\ Alike(impl[i].st, r.st) /\ size \in Nat
  /\ impl[i].st.app => Prolongs(Content(i), r.data)
  /\ Fetched(impl[i].st, Content(i)) => Fetched(r.st, r.data)
  /\ alone[i] /\ impl[i].st.open => Fits(size, r.st, r.data)
  /\ impl[i].st.open \/ r.data = Content(i)
  /\ Saves(impl[i].st, Content(i), r)

LEMMA ObjectIs ==
  ASSUME IInv, NEW i \in Impl
  PROVE  /\ impl \in [Impl -> Object] /\ impl[i] \in Object /\ SoundStream(impl[i].st)
         /\ Content(i) \in Contents /\ impl[i].size \in Nat
         /\ impl[i].st.open => /\ impl[i].live /\ impl[i].ino \in Inode
                               /\ Content(i) = disk[impl[i].ino] /\ impl[i].asked = impl[i].st.app
<1>1. Objects(impl) /\ disk \in [Inode -> Contents]
  BY DEF IInv, Sane
<1>2. /\ impl \in [Impl -> Object] /\ impl[i] \in Object /\ SoundStream(impl[i].st)
      /\ impl[i].st.open => /\ impl[i].live /\ impl[i].ino \in Inode
                            /\ impl[i].asked = impl[i].st.app
  BY <1>1 DEF Objects
<1>3. impl[i].size \in Nat /\ impl[i].ino \in Inode \cup {Null}
  BY <1>2 DEF Object
<1>4. <<>> \in Contents
  BY DEF Contents
<1>5. Content(i) \in Contents
  BY <1>1, <1>3, <1>4 DEF Content
<1>6. impl[i].ino \in Inode => Content(i) = disk[impl[i].ino]
  BY NullAssumption DEF Content
<1> QED
  BY <1>2, <1>3, <1>5, <1>6

LEMMA LoneIs ==
  ASSUME IInv, NEW i \in Impl, alone[i], impl[i].st.open
  PROVE  /\ \A j \in Impl : impl[j].st.open /\ impl[j].ino = impl[i].ino => j = i
         /\ Fits(impl[i].size, impl[i].st, Content(i))
         /\ Fetched(impl[i].st, Content(i))
<1>1. Lone(impl, i, disk)
  BY DEF IInv, Sane
<1> QED
  BY <1>1, ObjectIs DEF Lone

\* An object after a call on its stream
Touched(o, t, size) ==
  [live |-> o.live, path |-> o.path, ino |-> o.ino, size |-> size, asked |-> o.asked, st |-> t]

LEMMA TouchSane ==
  ASSUME IInv, NEW i \in Impl, NEW r, NEW size, Proper(i, r, size), Touch(i, r, size)
  PROVE  IInv'
<1> DEFINE s == impl[i].st
           t == r.st
           n == impl[i].ino
           o == Touched(impl[i], t, size)
<1>1. /\ impl \in [Impl -> Object] /\ impl[i] \in Object /\ SoundStream(s)
      /\ Content(i) \in Contents
      /\ s.open => impl[i].live /\ n \in Inode /\ Content(i) = disk[n]
  BY ObjectIs
<1>2. /\ inode \in [Path -> Inode \cup {Null}] /\ disk \in [Inode -> Contents]
      /\ handle \in [Handle -> Impl \cup {Null}] /\ alone \in [Impl -> BOOLEAN] /\ Objects(impl)
      /\ \A h \in Handle : handle[h] # Null => impl[handle[h]].live
      /\ \A j \in Impl : alone[j] /\ impl[j].st.open => Lone(impl, j, disk)
      /\ \A j \in Impl : impl[j].live => \E h \in Handle : handle[h] = j
      /\ killed \in BOOLEAN
  BY DEF IInv, Sane
<1>3. /\ SoundStream(t) /\ r.data \in Contents /\ Alike(s, t) /\ size \in Nat
      /\ Fetched(s, Content(i)) => Fetched(t, r.data)
      /\ alone[i] /\ s.open => Fits(size, t, r.data)
      /\ s.open \/ r.data = Content(i)
  BY DEF Proper
<1>4. UNCHANGED <<inode, handle, alone, killed>>
  BY DEF Touch
<1>5. impl' = [impl EXCEPT ![i].st = t, ![i].size = size]
  BY DEF Touch
<1>6. disk' = IF n = Null THEN disk ELSE [disk EXCEPT ![n] = r.data]
  BY DEF Touch
<1>7. /\ impl[i].live \in BOOLEAN /\ impl[i].path \in Path \cup {Null} /\ n \in Inode \cup {Null}
      /\ impl[i].asked \in BOOLEAN
  BY <1>1 DEF Object
<1> HIDE DEF t
<1>8. impl'[i] = [impl[i] EXCEPT !.st = t, !.size = size]
  BY <1>1, <1>5
<1>9. t \in Stream
  BY <1>3 DEF SoundStream
<1>10. o \in Object
  BY <1>3, <1>7, <1>9 DEF Object, Touched
<1>11. o.st = t /\ o.live = impl[i].live /\ o.ino = n /\ o.size = size /\ o.asked = impl[i].asked
  BY DEF Touched
<1> HIDE DEF o
<1>12. impl'[i] = o /\ \A j \in Impl : j # i => impl'[j] = impl[j]
  <2>1. impl'[i] = o
    BY <1>1, <1>8 DEF Object, Touched, o
  <2> QED
    BY <1>1, <1>5, <2>1
<1>13. t.open = s.open /\ t.app = s.app
  BY <1>3 DEF Alike
<1>14. Objects(impl)'
  <2>0. impl' = [j \in Impl |-> impl'[j]]
    BY <1>1, <1>5
  <2>1. impl' \in [Impl -> Object]
    BY <1>1, <1>10, <1>12, <2>0
  <2>2. \A j \in Impl : SoundStream(impl'[j].st)
    BY <1>2, <1>3, <1>11, <1>12 DEF Objects
  <2>3. \A j \in Impl : impl'[j].st.open => /\ impl'[j].live /\ impl'[j].ino \in Inode
                                            /\ impl'[j].asked = impl'[j].st.app
    BY <1>1, <1>2, <1>11, <1>12, <1>13 DEF Objects
  <2> QED
    BY <2>1, <2>2, <2>3 DEF Objects
<1>15. \A j \in Impl : /\ impl'[j].live = impl[j].live /\ impl'[j].ino = impl[j].ino
                       /\ impl'[j].st.open = impl[j].st.open /\ impl'[j].st.app = impl[j].st.app
  BY <1>11, <1>12, <1>13
<1>16. disk' \in [Inode -> Contents]
  BY <1>2, <1>3, <1>6, <1>7
<1>17. n \in Inode => disk'[n] = r.data
  BY <1>2, <1>6, NullAssumption
<1>18. \A m \in Inode : m # n => disk'[m] = disk[m]
  BY <1>2, <1>6
<1>19. ASSUME NEW j \in Impl, alone[j], impl[j].st.open PROVE Lone(impl, j, disk)'
  <2>1. Lone(impl, j, disk)
    BY <1>2, <1>19
  <2>2. \A k \in Impl : impl'[k].st.open /\ impl'[k].ino = impl'[j].ino => k = j
    BY <1>15, <2>1 DEF Lone
  <2>3. CASE j = i
    <3>1. n \in Inode /\ Content(i) = disk[n] /\ disk'[n] = r.data
      BY <1>1, <1>17, <1>19, <2>3
    <3>2. Fetched(t, r.data)
      BY <1>3, <2>1, <2>3, <3>1 DEF Lone
    <3>3. Fits(size, t, r.data)
      BY <1>3, <1>19, <2>3
    <3> QED
      BY <1>11, <1>12, <2>2, <2>3, <3>1, <3>2, <3>3 DEF Lone
  <2>4. CASE j # i
    <3> DEFINE m == impl[j].ino
    <3>1. m \in Inode /\ impl'[j] = impl[j]
      BY <1>2, <1>12, <1>19, <2>4 DEF Objects
    <3>2. disk'[m] = disk[m]
      <4>1. CASE m # n
        BY <1>18, <3>1, <4>1
      <4>2. CASE m = n
        <5>1. ~s.open
          BY <2>1, <2>4, <4>2 DEF Lone
        <5>2. r.data = Content(i) /\ Content(i) = disk[n]
          BY <1>3, <3>1, <4>2, <5>1, NullAssumption DEF Content
        <5> QED
          BY <1>17, <3>1, <4>2, <5>2
      <4> QED
        BY <4>1, <4>2
    <3> QED
      BY <2>1, <2>2, <3>1, <3>2 DEF Lone
  <2> QED
    BY <2>3, <2>4
<1>20. \A h \in Handle : handle'[h] # Null => impl'[handle'[h]].live
  BY <1>2, <1>4, <1>15
<1>21. \A j \in Impl : alone'[j] /\ impl'[j].st.open => Lone(impl, j, disk)'
  BY <1>4, <1>15, <1>19
<1>22. \A j \in Impl : impl'[j].live => \E h \in Handle : handle'[h] = j
  BY <1>2, <1>4, <1>15
<1>23. Sane(handle, impl, disk, inode, alone)'
  BY <1>2, <1>4, <1>14, <1>16, <1>20, <1>21 DEF Sane
<1> QED
  BY <1>2, <1>4, <1>22, <1>23 DEF IInv

LEMMA TouchKeeps ==
  ASSUME IInv, NEW i \in Impl, NEW r, NEW size, Proper(i, r, size), Touch(i, r, size),
         NEW n \in Inode, AppOnly(n)
  PROVE  AllLasts(n)
<1>1. disk \in [Inode -> Contents] /\ disk[n] \in Contents /\ impl \in [Impl -> Object]
  BY DEF IInv, Sane, Objects
<1>2. /\ disk' = IF impl[i].ino = Null THEN disk ELSE [disk EXCEPT ![impl[i].ino] = r.data]
      /\ impl' = [impl EXCEPT ![i].st = r.st, ![i].size = size]
  BY DEF Touch
<1>3. \A j \in Impl : SoundStream(impl[j].st)
  BY ObjectIs
<1>4. \A j \in Impl : j # i => impl'[j] = impl[j]
  BY <1>1, <1>2
<1>5. CASE impl[i].ino # n
  <2>1. disk'[n] = disk[n]
    BY <1>1, <1>2, <1>5
  <2>2. ASSUME NEW j \in Impl, impl[j].ino = n PROVE HeldLasts(j, n)
    BY <1>3, <1>4, <1>5, <2>2, SameLasts
  <2> QED
    BY <1>1, <2>1, <2>2, ProlongsSelf DEF AllLasts
<1>6. CASE impl[i].ino = n
  <2>1. disk'[n] = r.data /\ Content(i) = disk[n]
    BY <1>1, <1>2, <1>6, NullAssumption DEF Content
  <2>2. Prolongs(disk[n], disk'[n])
    <3>1. CASE impl[i].st.open
      BY <1>6, <2>1, <3>1 DEF AppOnly, Proper
    <3>2. CASE ~impl[i].st.open
      <4>1. r.data = Content(i)
        BY <3>2 DEF Proper
      <4> QED
        BY <1>1, <2>1, <4>1, ProlongsSelf
    <3> QED
      BY <3>1, <3>2
  <2>3. impl'[i].st = r.st /\ impl'[i].ino = n
    <3>1. impl'[i] = [impl[i] EXCEPT !.st = r.st, !.size = size] /\ impl[i] \in Object
      BY <1>1, <1>2
    <3> QED
      BY <1>6, <3>1 DEF Object
  <2>4. ASSUME impl[i].st.open PROVE HeldLasts(i, n)
    <3>1. impl[i].st.app /\ Saves(impl[i].st, Content(i), r)
      BY <1>6, <2>4 DEF AppOnly, Proper
    <3> QED
      BY <2>1, <2>3, <3>1 DEF Saves, HeldLasts
  <2>5. ASSUME NEW j \in Impl, impl[j].st.open, impl[j].ino = n PROVE HeldLasts(j, n)
    <3>1. CASE j = i
      BY <2>4, <2>5, <3>1
    <3>2. CASE j # i
      BY <1>3, <1>4, <2>5, <3>2, SameLasts
    <3> QED
      BY <3>1, <3>2
  <2> QED
    BY <2>2, <2>5 DEF AllLasts
<1> QED
  BY <1>5, <1>6

LEMMA SettledIsProper ==
  ASSUME IInv, NEW i \in Impl, NEW r, Settles(impl[i].st, Content(i), r),
         impl[i].st.open \/ r.data = Content(i)
  PROVE  Proper(i, r, impl[i].size)
<1>1. impl[i].size \in Nat
  BY ObjectIs
<1>2. /\ SoundStream(r.st) /\ r.data \in Contents /\ Alike(impl[i].st, r.st)
      /\ impl[i].st.app => Prolongs(Content(i), r.data)
      /\ Fetched(impl[i].st, Content(i)) => Fetched(r.st, r.data)
      /\ Synced(r.st, r.data) = Synced(impl[i].st, Content(i))
  BY DEF Settles
<1>3. alone[i] /\ impl[i].st.open => Fits(impl[i].size, impl[i].st, Content(i))
  BY LoneIs
<1>4. (impl[i].st.eof => r.st.eof) /\ r.st.app = impl[i].st.app /\ Saves(impl[i].st, Content(i), r)
  BY DEF Settles, Alike
<1>5. alone[i] /\ impl[i].st.open => Fits(impl[i].size, r.st, r.data)
  BY <1>2, <1>3, <1>4 DEF Fits
<1> QED
  BY <1>1, <1>2, <1>4, <1>5 DEF Proper

LEMMA WriteIsProper ==
  ASSUME IInv, NEW i \in Impl, impl[i].st.open, NEW b \in Data, NEW spill \in BOOLEAN,
         NEW older \in BOOLEAN
  PROVE  LET r == Write(impl[i].st, Content(i), b, spill, older)
         IN  Proper(i, r, IF r.val /\ Tell(r.st) > impl[i].size THEN Tell(r.st) ELSE impl[i].size)
<1> DEFINE s    == impl[i].st
           c    == Content(i)
           r    == Write(s, c, b, spill, older)
           size == IF r.val /\ Tell(r.st) > impl[i].size THEN Tell(r.st) ELSE impl[i].size
<1>1. SoundStream(s) /\ c \in Contents /\ impl[i].size \in Nat
  BY ObjectIs
<1>2. b \in Contents /\ b # <<>>
  BY DataAssumption DEF Contents
<1>3. /\ SoundStream(r.st) /\ r.data \in Contents /\ Alike(s, r.st)
      /\ s.app => Prolongs(c, r.data)
      /\ Fetched(s, c) => Fetched(r.st, r.data)
      /\ s.eof => r.st.eof
      /\ Saves(s, c, r)
  BY <1>1, <1>2, WriteIs
<1>4. r.val => Tell(r.st) \in Nat
  BY <1>1, <1>2, WriteIs
<1>5. r.val /\ Good(s) /\ ~s.app =>
        Len(Synced(r.st, r.data)) = Longer(Len(Synced(s, c)), Tell(r.st))
  BY <1>1, <1>2, WriteIs
<1>6. ~r.val \/ ~Good(s) => Synced(r.st, r.data) = Synced(s, c)
  BY <1>1, <1>2, WriteIs
<1>7. size \in Nat /\ impl[i].size <= size /\ (~r.val => size = impl[i].size)
  BY <1>1, <1>4
<1>8. alone[i] => Fits(impl[i].size, s, c)
  BY LoneIs
<1>9. ASSUME alone[i], ~s.app
      PROVE  Len(Synced(r.st, r.data)) <= size /\ (~r.st.eof => size = Len(Synced(r.st, r.data)))
  <2> DEFINE old == Len(Synced(s, c))
             now == Len(Synced(r.st, r.data))
  <2>1. old \in Nat /\ old <= impl[i].size /\ (~s.eof => impl[i].size = old)
    BY <1>1, <1>8, <1>9, SyncedIs, LengthIs DEF Fits
  <2>2. CASE r.val /\ Good(s)
    <3>1. now = Longer(old, Tell(r.st)) /\ ~s.eof
      BY <1>5, <1>9, <2>2 DEF Good
    <3> DEFINE x == Tell(r.st)
               y == impl[i].size
    <3>2. x \in Nat /\ y = old /\ y \in Nat /\ size = IF x > y THEN x ELSE y
      BY <1>1, <1>4, <2>1, <2>2, <3>1
    <3> HIDE DEF x, y, old, now, size
    <3>3. now = Longer(old, x)
      BY <3>1 DEF x
    <3>4. size = now /\ now \in Nat
      BY <3>2, <3>3 DEF Longer
    <3> QED
      BY <3>4 DEF now
  <2>3. CASE ~r.val
    <3>1. now = old /\ size = impl[i].size
      BY <1>6, <1>7, <2>3
    <3> HIDE DEF old, size, r
    <3> QED
      BY <1>3, <2>1, <3>1
  <2>4. CASE r.val /\ ~Good(s)
    <3>1. now = old /\ old <= size
      <4>1. now = old
        BY <1>6, <2>4
      <4> HIDE DEF old, now, size
      <4> QED
        BY <1>1, <1>7, <2>1, <4>1
    <3>2. r.st.eof
      <4>1. s.eof \/ s.fail
        BY <2>4 DEF Good
      <4>2. ~s.fail
        <5>1. SUFFICES ASSUME s.fail PROVE ~r.val
          BY <2>4
        <5>2. r.val = ~[s EXCEPT !.fail = s.fail \/ older].fail
          BY <2>4, <5>1 DEF Write, Result
        <5>3. s \in Stream
          BY <1>1 DEF SoundStream
        <5> QED
          BY <5>1, <5>2, <5>3 DEF Stream
      <4> QED
        BY <1>3, <4>1, <4>2
    <3> QED
      BY <3>1, <3>2
  <2> QED
    BY <2>2, <2>3, <2>4
<1>11. r.st.app = s.app
  BY <1>3 DEF Alike
<1> HIDE DEF r, size
<1>12. alone[i] => Fits(size, r.st, r.data)
  BY <1>9, <1>11 DEF Fits
<1>10. Proper(i, r, size)
  BY <1>3, <1>7, <1>12 DEF Proper
<1> QED
  BY <1>10 DEF r, size

\* The calls that go to the stream
StreamCall(h) ==
  \/ \E b \in Data, spill, older \in BOOLEAN : WriteBuf(h, b, spill, older)
  \/ ReadByte(h)
  \/ \E n \in 2..MaxLen : ReadBuf(h, n)
  \/ PeekByte(h)
  \/ \E older \in BOOLEAN : FlushFile(h, older)
  \/ \E pos \in Offsets : SeekTo(h, pos)

LEMMA CallIsProper ==
  ASSUME IInv, NEW h \in Handle, StreamCall(h)
  PROVE  \E i \in Impl : \E r, size : Proper(i, r, size) /\ Touch(i, r, size)
<1> DEFINE i == handle[h]
           s == impl[i].st
           c == Content(i)
<1>1. i # Null
  BY DEF StreamCall, WriteBuf, ReadByte, ReadBuf, PeekByte, FlushFile, SeekTo
<1>2. i \in Impl
  BY <1>1 DEF IInv, Sane
<1>3. SoundStream(s) /\ c \in Contents /\ impl[i].size \in Nat
  BY <1>2, ObjectIs
<1>4. ASSUME NEW r, Settles(s, c, r), s.open \/ r.data = c, Touch(i, r, impl[i].size)
      PROVE  \E k \in Impl : \E q, size : Proper(k, q, size) /\ Touch(k, q, size)
  <2>1. Proper(i, r, impl[i].size)
    BY <1>2, <1>4, SettledIsProper
  <2> QED
    BY <1>2, <1>4, <2>1
<1>5. ASSUME NEW b \in Data, NEW spill \in BOOLEAN, NEW older \in BOOLEAN,
             WriteBuf(h, b, spill, older)
      PROVE  \E k \in Impl : \E q, size : Proper(k, q, size) /\ Touch(k, q, size)
  <2> DEFINE r    == Write(s, c, b, spill, older)
             size == IF r.val /\ Tell(r.st) > impl[i].size THEN Tell(r.st) ELSE impl[i].size
  <2>1. s.open /\ Touch(i, r, size)
    BY <1>5 DEF WriteBuf
  <2>2. Proper(i, r, size)
    BY <1>2, <2>1, WriteIsProper
  <2> HIDE DEF r, size
  <2> QED
    BY <1>2, <2>1, <2>2
<1>6. ASSUME NEW n \in Nat \ {0}, Touch(i, Read(s, c, n), impl[i].size)
      PROVE  \E k \in Impl : \E q, size : Proper(k, q, size) /\ Touch(k, q, size)
  <2> DEFINE r == Read(s, c, n)
  <2>1. Settles(s, c, r)
    BY <1>3, ReadSettles
  <2>2. s.open \/ r.data = c
    BY DEF Read, Result
  <2> HIDE DEF r
  <2>3. Touch(i, r, impl[i].size)
    BY <1>6 DEF r
  <2> HIDE DEF i, s, c
  <2> QED
    BY <1>4, <2>1, <2>2, <2>3
<1>7. ASSUME ReadByte(h)
      PROVE  \E k \in Impl : \E q, size : Proper(k, q, size) /\ Touch(k, q, size)
  BY <1>6, <1>7 DEF ReadByte
<1>8. ASSUME NEW n \in 2..MaxLen, ReadBuf(h, n)
      PROVE  \E k \in Impl : \E q, size : Proper(k, q, size) /\ Touch(k, q, size)
  <2>1. n \in Nat \ {0}
    BY LenAssumption
  <2> QED
    BY <1>6, <1>8, <2>1 DEF ReadBuf
<1>9. ASSUME PeekByte(h)
      PROVE  \E k \in Impl : \E q, size : Proper(k, q, size) /\ Touch(k, q, size)
  <2>1. s.open /\ Touch(i, Peek(s, c), impl[i].size)
    BY <1>9 DEF PeekByte
  <2>2. Settles(s, c, Peek(s, c))
    BY <1>3, PeekSettles
  <2> HIDE DEF i, s, c
  <2> QED
    BY <1>4, <2>1, <2>2
<1>10. ASSUME NEW older \in BOOLEAN, FlushFile(h, older)
       PROVE  \E k \in Impl : \E q, size : Proper(k, q, size) /\ Touch(k, q, size)
  <2>1. s.open /\ Touch(i, Flush(s, c, older), impl[i].size)
    BY <1>10 DEF FlushFile
  <2>2. Settles(s, c, Flush(s, c, older))
    BY <1>3, FlushSettles
  <2> HIDE DEF i, s, c
  <2> QED
    BY <1>4, <2>1, <2>2
<1>11. ASSUME NEW pos \in Offsets, SeekTo(h, pos)
       PROVE  \E k \in Impl : \E q, size : Proper(k, q, size) /\ Touch(k, q, size)
  <2>1. s.open /\ Touch(i, Seek(s, c, pos), impl[i].size)
    BY <1>11 DEF SeekTo
  <2>2. pos \in Nat
    BY OffsetsAssumption
  <2>3. Settles(s, c, Seek(s, c, pos))
    BY <1>3, <2>2, SeekSettles
  <2> HIDE DEF i, s, c
  <2> QED
    BY <1>4, <2>1, <2>3
<1> HIDE DEF i
<1> QED
  BY <1>5, <1>7, <1>8, <1>9, <1>10, <1>11 DEF StreamCall

-----------------------------------------------------------------------------
(***************************************************************************)
(* Steps on which File variables change what they share                    *)
(***************************************************************************)
Lets(hs, im, dk, names, al) ==
  /\ Sane(hs, im, dk, names, al)
  /\ Release(hs, im, dk, names, al)
  /\ \A i, j \in Unshared(hs, im) : im[i].st.open /\ im[j].st.open => i = j
  /\ \A n \in Inode : AppOnly(n) /\ AppOnly(n)' /\ InUse(n) =>
       /\ Prolongs(disk[n], dk[n])
       /\ \A i \in Unshared(hs, im) :
            im[i].st.open /\ im[i].ino = n => im[i].st.app /\ dk[n] = disk[n]
       /\ \A i \in Impl :
            impl[i].st.open /\ impl[i].ino = n =>
              \/ im[i] = impl[i]
              \/ impl[i].st.mode = "put" => Prolongs(disk[n] \o impl[i].st.buf, dk[n])

LEMMA ProlongsTransitive ==
  ASSUME NEW a \in Contents, NEW b \in Contents, NEW c, Prolongs(a, b), Prolongs(b, c), Len(c) \in Nat
  PROVE  Prolongs(a, c)
<1>1. Len(a) \in Nat /\ Len(b) \in Nat
  BY LengthIs
<1>2. Len(a) <= Len(b) /\ Len(b) <= Len(c) /\ \A k \in 1 .. Len(a) : b[k] = a[k]
  BY DEF Prolongs
<1>3. \A k \in 1 .. Len(b) : c[k] = b[k]
  BY DEF Prolongs
<1> DEFINE x == Len(a)
           y == Len(b)
           z == Len(c)
<1>4. x \in Nat /\ y \in Nat /\ z \in Nat /\ x <= y /\ y <= z
  BY <1>1, <1>2
<1> HIDE DEF x, y, z
<1>5. x <= z /\ \A k \in 1 .. x : k \in 1 .. y
  BY <1>4
<1>6. \A k \in 1 .. x : c[k] = a[k]
  BY <1>2, <1>3, <1>5 DEF x, y
<1> QED
  BY <1>5, <1>6 DEF Prolongs, x, z

LEMMA LetsKeeps ==
  ASSUME IInv, NEW hs, NEW im, NEW dk, NEW names, NEW al, Lets(hs, im, dk, names, al)
  PROVE  /\ IInv'
         /\ \A n \in Inode : AppOnly(n) /\ AppOnly(n)' /\ InUse(n) /\ InUse(n)' => AllLasts(n)
<1>1. Sane(hs, im, dk, names, al) /\ Release(hs, im, dk, names, al) /\ killed \in BOOLEAN
  BY DEF Lets, IInv
<1>2. IInv'
  BY <1>1, ReleaseSane
<1>3. Objects(im) /\ dk \in [Inode -> Contents]
  BY <1>1 DEF Sane
<1>4. disk \in [Inode -> Contents] /\ disk' \in [Inode -> Contents]
  BY <1>2 DEF IInv, Sane
<1>5. ASSUME NEW n \in Inode, AppOnly(n), AppOnly(n)', InUse(n), InUse(n)'
      PROVE  AllLasts(n)
  <2>1. Prolongs(disk[n], dk[n])
    BY <1>5 DEF Lets
  <2>2. Prolongs(dk[n], disk'[n])
    <3>1. \A i \in Unshared(hs, im) : im[i].st.open /\ im[i].ino = n => im[i].st.app
      BY <1>5 DEF Lets
    <3> QED
      BY <1>1, <1>3, <1>5, <3>1, ReleaseKeeps
  <2>3. disk[n] \in Contents /\ dk[n] \in Contents /\ Len(disk'[n]) \in Nat
    BY <1>3, <1>4, LengthIs
  <2>4. Prolongs(disk[n], disk'[n])
    BY <2>1, <2>2, <2>3, ProlongsTransitive
  <2>5. ASSUME NEW i \in Impl, impl[i].st.open, impl[i].ino = n, impl[i].st.mode = "put"
        PROVE  HeldLasts(i, n)
    <3> DEFINE held == disk[n] \o impl[i].st.buf
    <3>1. SoundStream(impl[i].st) /\ impl[i].st.buf \in Contents
      BY ObjectIs DEF SoundStream, Stream
    <3>2. held \in Contents
      BY <2>3, <3>1, JoinIs
    <3>3. CASE im[i] # impl[i]
      <4>1. Prolongs(held, dk[n])
        BY <1>5, <2>5, <3>3 DEF Lets
      <4> HIDE DEF held
      <4>2. Prolongs(held, disk'[n])
        BY <2>2, <2>3, <3>2, <4>1, ProlongsTransitive
      <4> QED
        BY <4>2 DEF HeldLasts, held
    <3>4. CASE im[i] = impl[i] /\ i \notin Unshared(hs, im)
      <4>1. impl'[i] = impl[i]
        BY <1>1, <3>4 DEF Release, Destroyed
      <4> QED
        BY <2>5, <3>1, <4>1, SameLasts
    <3>5. CASE im[i] = impl[i] /\ i \in Unshared(hs, im)
      <4>1. \A j \in Unshared(hs, im) : im[j].st.open => j = i
        BY <2>5, <3>5 DEF Lets
      <4>2. Closing(hs, im, n) = {i}
        BY <2>5, <3>5, <4>1 DEF Closing
      <4>3. im[i].st.app /\ dk[n] = disk[n]
        BY <1>5, <2>5, <3>5 DEF Lets
      <4>4. DrainedBy(hs, im, dk)[n] = held
        <5>1. DrainedBy(hs, im, dk)[n] = Synced(im[i].st, dk[n])
          BY ONLY <4>2, AloneDrained, n \in Inode
        <5>2. im[i].st = impl[i].st
          BY <3>5
        <5>3. Synced(im[i].st, dk[n]) = dk[n] \o im[i].st.buf
          BY <2>5, <4>3, <5>2 DEF Synced
        <5> QED
          BY <4>3, <5>1, <5>2, <5>3
      <4>5. disk'[n] = DrainedBy(hs, im, dk)[n]
        BY <1>1, <1>5, ReleaseDrains
      <4>6. Prolongs(held, disk'[n])
        BY <3>2, <4>4, <4>5, ProlongsSelf
      <4> QED
        BY <4>6 DEF HeldLasts
    <3> QED
      BY <3>3, <3>4, <3>5
  <2>6. ASSUME NEW i \in Impl, impl[i].st.open, impl[i].ino = n PROVE HeldLasts(i, n)
    <3>1. impl[i].st.mode = "put" => HeldLasts(i, n)
      BY <2>5, <2>6
    <3> QED
      BY <3>1 DEF HeldLasts
  <2> QED
    BY <2>4, <2>6 DEF AllLasts
<1> QED
  BY <1>2, <1>5

LEMMA InvariantIs ==
  ASSUME IInv
  PROVE  /\ inode \in [Path -> Inode \cup {Null}] /\ disk \in [Inode -> Contents]
         /\ handle \in [Handle -> Impl \cup {Null}] /\ alone \in [Impl -> BOOLEAN]
         /\ Objects(impl) /\ impl \in [Impl -> Object]
         /\ \A h \in Handle : handle[h] # Null => impl[handle[h]].live
         /\ \A j \in Impl : alone[j] /\ impl[j].st.open => Lone(impl, j, disk)
         /\ \A j \in Impl : impl[j].live => \E h \in Handle : handle[h] = j
         /\ killed \in BOOLEAN
  BY DEF IInv, Sane, Objects

\* g = h and the end of h: nothing changes but who shares what.
\* When one variable changes, what is let go of is what it had.
LEMMA OneLetsGo ==
  ASSUME IInv, NEW h \in Handle, NEW hs, \A k \in Handle : k # h => hs[k] = handle[k],
         NEW im, NEW i \in Unshared(hs, im), impl[i].live
  PROVE  i = handle[h]
<1>1. i \in Impl /\ \A k \in Handle : hs[k] # i
  BY DEF Unshared
<1>2. PICK k \in Handle : handle[k] = i
  BY <1>1, InvariantIs
<1> QED
  BY <1>1, <1>2

LEMMA SharingLets ==
  ASSUME IInv, NEW h \in Handle, NEW hs \in [Handle -> Impl \cup {Null}],
         \A k \in Handle : k # h => hs[k] = handle[k],
         hs[h] = Null \/ \E k \in Handle : hs[h] = handle[k],
         Release(hs, impl, disk, inode, alone)
  PROVE  Lets(hs, impl, disk, inode, alone)
<1>1. \A g \in Handle : hs[g] # Null => impl[hs[g]].live
  BY InvariantIs
<1>2. Sane(hs, impl, disk, inode, alone)
  BY <1>1, InvariantIs DEF Sane
<1>3. \A n \in Inode : Prolongs(disk[n], disk[n])
  BY InvariantIs, ProlongsSelf
<1>4. \A n \in Inode : AppOnly(n) =>
        \A i \in Unshared(hs, impl) : impl[i].st.open /\ impl[i].ino = n => impl[i].st.app
  BY DEF AppOnly, Unshared
<1>5. \A i \in Unshared(hs, impl) : i = handle[h]
  <2>1. \A i \in Unshared(hs, impl) : impl[i].live
    BY DEF Unshared
  <2> QED
    BY <2>1, OneLetsGo
<1> QED
  BY <1>2, <1>3, <1>4, <1>5 DEF Lets

LEMMA CopyLets ==
  ASSUME IInv, NEW h \in Handle, NEW g \in Handle, Copy(h, g)
  PROVE  \E hs, im, dk, names, al : Lets(hs, im, dk, names, al)
<1> DEFINE hs == [handle EXCEPT ![g] = handle[h]]
<1>1. Release(hs, impl, disk, inode, alone)
  BY DEF Copy
<1>2. /\ hs \in [Handle -> Impl \cup {Null}] /\ hs[g] = handle[h]
      /\ \A k \in Handle : k # g => hs[k] = handle[k]
  BY InvariantIs
<1> HIDE DEF hs
<1>4. Lets(hs, impl, disk, inode, alone)
  BY <1>1, <1>2, SharingLets
<1> QED
  BY <1>4

LEMMA DropLets ==
  ASSUME IInv, NEW h \in Handle, Drop(h)
  PROVE  \E hs, im, dk, names, al : Lets(hs, im, dk, names, al)
<1> DEFINE hs == [handle EXCEPT ![h] = Null]
<1>1. Release(hs, impl, disk, inode, alone)
  BY DEF Drop
<1>2. /\ hs \in [Handle -> Impl \cup {Null}] /\ hs[h] = Null
      /\ \A k \in Handle : k # h => hs[k] = handle[k]
  BY InvariantIs
<1> HIDE DEF hs
<1>4. Lets(hs, impl, disk, inode, alone)
  BY <1>1, <1>2, SharingLets
<1> QED
  BY <1>4

LEMMA CloseLets ==
  ASSUME IInv, NEW h \in Handle, CloseFile(h)
  PROVE  \E hs, im, dk, names, al : Lets(hs, im, dk, names, al)
<1> DEFINE i  == handle[h]
           s  == impl[i].st
           n  == impl[i].ino
           r  == Close(s, Content(i))
           hs == [handle EXCEPT ![h] = Null]
           im == [impl EXCEPT ![i].st = r.st]
           dk == IF s.open THEN [disk EXCEPT ![n] = r.data] ELSE disk
<1>1. i # Null /\ Release(hs, im, dk, inode, alone)
  BY DEF CloseFile
<1>2. i \in Impl
  BY <1>1, InvariantIs
<1>3. /\ impl \in [Impl -> Object] /\ impl[i] \in Object /\ SoundStream(s) /\ Content(i) \in Contents
      /\ s.open => n \in Inode /\ Content(i) = disk[n]
  BY <1>2, ObjectIs
<1>4. SoundStream(r.st) /\ ~r.st.open /\ r.data = Synced(s, Content(i))
  BY <1>3, CloseIs
<1>5. r.data \in Contents /\ (s.app => Prolongs(Content(i), r.data))
  BY <1>3, <1>4, SyncedIs
<1>6. hs \in [Handle -> Impl \cup {Null}] /\ \A k \in Handle : hs[k] = handle[k] \/ hs[k] = Null
  BY InvariantIs
<1>7. \A j \in Impl : j # i => im[j] = impl[j]
  BY <1>3
<1>8. im[i] = [impl[i] EXCEPT !.st = r.st] /\ im = [j \in Impl |-> im[j]]
  BY <1>2, <1>3
<1> DEFINE t == r.st
<1> HIDE DEF im, r, hs
<1>9. im[i] = [live |-> impl[i].live, path |-> impl[i].path, ino |-> impl[i].ino,
               size |-> impl[i].size, asked |-> impl[i].asked, st |-> t]
  BY <1>3, <1>8 DEF Object
<1>10. t \in Stream
  BY <1>4 DEF SoundStream
<1>11. im[i] \in Object
  BY <1>3, <1>9, <1>10 DEF Object
<1>12. im \in [Impl -> Object]
  BY <1>3, <1>7, <1>8, <1>11
<1>13. im[i].live = impl[i].live /\ im[i].st = t
  BY <1>9
<1>14. Objects(im)
  <2>1. \A j \in Impl : SoundStream(im[j].st)
    BY <1>4, <1>7, <1>13, InvariantIs DEF Objects
  <2>2. \A j \in Impl : im[j].st.open => /\ im[j].live /\ im[j].ino \in Inode
                                         /\ im[j].asked = im[j].st.app
    BY <1>4, <1>7, <1>13, InvariantIs DEF Objects
  <2> QED
    BY <1>12, <2>1, <2>2 DEF Objects
<1>15. \A g \in Handle : hs[g] # Null => im[hs[g]].live
  BY <1>6, <1>7, <1>13, InvariantIs
<1>16. \A j \in Impl : im[j].st.open => j # i /\ im[j] = impl[j]
  BY <1>4, <1>7, <1>13
<1>17. dk \in [Inode -> Contents]
  BY <1>3, <1>5, InvariantIs
<1>18. \A m \in Inode : m # n \/ ~s.open => dk[m] = disk[m]
  BY InvariantIs
<1>19. s.open => dk[n] = r.data
  BY <1>3, InvariantIs
<1> HIDE DEF dk
<1>20. ASSUME NEW j \in Impl, alone[j], im[j].st.open PROVE Lone(im, j, dk)
  <2>1. j # i /\ im[j] = impl[j] /\ Lone(impl, j, disk)
    BY <1>16, <1>20, InvariantIs
  <2>2. \A k \in Impl : im[k].st.open /\ im[k].ino = im[j].ino => k = j
    BY <1>16, <2>1 DEF Lone
  <2>3. impl[j].ino \in Inode
    BY <1>20, <2>1, InvariantIs DEF Objects
  <2>4. dk[impl[j].ino] = disk[impl[j].ino]
    BY <1>2, <1>18, <2>1, <2>3 DEF Lone
  <2> QED
    BY <2>1, <2>2, <2>4 DEF Lone
<1>21. Sane(hs, im, dk, inode, alone)
  BY <1>6, <1>14, <1>15, <1>17, <1>20, InvariantIs DEF Sane
<1>22. ASSUME NEW m \in Inode, AppOnly(m) PROVE Prolongs(disk[m], dk[m])
  <2>1. disk[m] \in Contents
    BY InvariantIs
  <2>2. CASE m # n \/ ~s.open
    BY <1>18, <2>1, <2>2, ProlongsSelf
  <2>3. CASE m = n /\ s.open
    <3>1. s.app
      BY <1>2, <1>22, <2>3 DEF AppOnly
    <3> QED
      BY <1>3, <1>5, <1>19, <2>3, <3>1
  <2> QED
    BY <2>2, <2>3
<1>23. \A j \in Unshared(hs, im) : ~im[j].st.open
  <2>1. ASSUME NEW j \in Unshared(hs, im) PROVE ~im[j].st.open
    <3>1. j \in Impl /\ im[j].live
      BY DEF Unshared
    <3>2. impl[j].live
      BY <1>7, <1>13, <3>1
    <3>3. \A k \in Handle : k # h => hs[k] = handle[k]
      BY InvariantIs DEF hs
    <3>4. j = i
      BY <3>2, <3>3, OneLetsGo
    <3> QED
      BY <1>4, <1>13, <3>4
  <2> QED
    BY <2>1
<1>25. ASSUME NEW m \in Inode, AppOnly(m), NEW j \in Impl, impl[j].st.open, impl[j].ino = m
       PROVE  \/ im[j] = impl[j]
              \/ impl[j].st.mode = "put" => Prolongs(disk[m] \o impl[j].st.buf, dk[m])
  <2>1. CASE j # i
    BY <1>7, <2>1
  <2>2. CASE j = i
    <3>1. s.app /\ s.open /\ m = n
      BY <1>25, <2>2 DEF AppOnly
    <3>2. s.mode = "put" => dk[m] = disk[m] \o s.buf
      BY <1>3, <1>4, <1>19, <3>1 DEF Synced
    <3>3. Prolongs(dk[m], dk[m])
      BY <1>17, ProlongsSelf
    <3> QED
      BY <2>2, <3>2, <3>3
  <2> QED
    BY <2>1, <2>2
<1>24. Lets(hs, im, dk, inode, alone)
  BY <1>1, <1>21, <1>22, <1>23, <1>25 DEF Lets, im, r, hs, dk
<1> QED
  BY <1>24

LEMMA NoAppendTruncates ==
  ASSUME NEW flags \in OpenableFlags, Truncates(flags)
  PROVE  "app" \notin flags
  BY DEF OpenableFlags, Truncates

LEMMA OpenLets ==
  ASSUME IInv, NEW h \in Handle, NEW p \in Path, NEW mode, Open(h, p, mode)
  PROVE  \E hs, im, dk, names, al : Lets(hs, im, dk, names, al)
<1> DEFINE flags == IosFlags(mode)
           ok    == Opens(flags, inode[p] # Null)
           ns    == IF inode[p] # Null THEN {inode[p]}
                    ELSE IF ok THEN {m \in Inode : ~InUse(m)} ELSE {Null}
           Data1(n) == IF n # Null /\ ok /\ (inode[p] = Null \/ Truncates(flags))
                       THEN [disk EXCEPT ![n] = <<>>] ELSE disk
           Names(n) == IF ok THEN [inode EXCEPT ![p] = n] ELSE inode
           Obj(n)   == [live |-> TRUE, path |-> p, ino |-> IF ok THEN n ELSE Null,
                        size |-> IF n = Null THEN 0 ELSE Len(Data1(n)[n]),
                        asked |-> "O_APPEND" \in mode,
                        st |-> IF ok THEN Fresh(flags) ELSE Unopened]
           Users(n) == {j \in Impl : ok /\ impl[j].st.open /\ impl[j].ino = n}
           Al(i, n) == [j \in Impl |-> IF j = i THEN ok /\ Users(n) = {} ELSE alone[j] /\ j \notin Users(n)]
<1>1. PICK i \in {j \in Impl : ~impl[j].live}, n \in ns :
        Release([handle EXCEPT ![h] = i], [impl EXCEPT ![i] = Obj(n)], Data1(n), Names(n), Al(i, n))
  BY DEF Open
<1>2. i \in Impl /\ ~impl[i].live /\ i # Null
  BY NullAssumption
<1>3. inode[p] \in Inode \cup {Null}
  BY InvariantIs
<1>4. /\ n \in Inode \cup {Null} /\ (ok => n \in Inode)
      /\ inode[p] = Null /\ ok => ~InUse(n)
      /\ inode[p] # Null => n = inode[p]
  BY <1>3
<1> DEFINE hs    == [handle EXCEPT ![h] = i]
           im    == [impl EXCEPT ![i] = Obj(n)]
           dk    == Data1(n)
           names == Names(n)
           al    == Al(i, n)
           obj   == Obj(n)
           users == Users(n)
           t     == IF ok THEN Fresh(flags) ELSE Unopened
           size  == IF n = Null THEN 0 ELSE Len(dk[n])
           ino   == IF ok THEN n ELSE Null
           asked == "O_APPEND" \in mode
<1>35. asked <=> "app" \in flags
  BY DEF IosFlags
<1>5. /\ SoundStream(t) /\ t.mode = "idle" /\ (t.open <=> ok)
      /\ ok => (t.app <=> "app" \in flags)
  BY NewStreams
<1>6. flags \in OpenableFlags \/ ~ok
  BY DEF Opens
<1>7. ok /\ Truncates(flags) => ~t.app
  BY <1>5, <1>6, NoAppendTruncates
<1> DEFINE cut == n # Null /\ ok /\ (inode[p] = Null \/ Truncates(flags))
<1>8. dk = IF cut THEN [disk EXCEPT ![n] = <<>>] ELSE disk
  OBVIOUS
<1>9. <<>> \in Contents
  BY DEF Contents
<1>10. names \in [Path -> Inode \cup {Null}]
  BY <1>4, InvariantIs
<1>11. al \in [Impl -> BOOLEAN]
  BY InvariantIs
<1>12. /\ al[i] => ok /\ users = {}
       /\ \A j \in Impl : j # i /\ al[j] => alone[j] /\ j \notin users
  BY <1>2
<1>13. \A j \in Impl : ok /\ impl[j].st.open /\ impl[j].ino = n => j \in users
  OBVIOUS
<1>14. Release(hs, im, dk, names, al)
  BY <1>1
<1>15. obj = [live |-> TRUE, path |-> p, ino |-> ino, size |-> size, asked |-> asked, st |-> t]
  OBVIOUS
<1>16. im = [impl EXCEPT ![i] = obj] /\ hs = [handle EXCEPT ![h] = i]
  OBVIOUS
<1>17. size = (IF n = Null THEN 0 ELSE Len(dk[n])) /\ ino = (IF ok THEN n ELSE Null)
  OBVIOUS
<1>18. cut => ok /\ (inode[p] = Null \/ Truncates(flags))
  OBVIOUS
<1>36. asked \in BOOLEAN
  OBVIOUS
<1> HIDE DEF flags, ok, ns, Data1, Names, Obj, Users, Al, hs, im, dk, names, al, obj, users, t, size,
             ino, cut, asked
<1>19. dk \in [Inode -> Contents]
  BY <1>8, <1>9, InvariantIs
<1>20. size \in Nat
  BY <1>4, <1>17, <1>19, LengthIs
<1>21. t \in Stream
  BY <1>5 DEF SoundStream
<1>22. ino \in Inode \cup {Null} /\ (ok => ino = n /\ ino \in Inode)
  BY <1>4, <1>17
<1>23. obj \in Object
  BY <1>15, <1>20, <1>21, <1>22, <1>36 DEF Object
<1>24. obj.live = TRUE /\ obj.st = t /\ obj.ino = ino /\ obj.size = size /\ obj.asked = asked
  BY <1>15
<1>37. t.open => obj.asked = t.app
  <2>1. t.app \in BOOLEAN
    BY <1>21 DEF Stream
  <2> QED
    BY <1>5, <1>24, <1>35, <1>36, <2>1
<1>25. im \in [Impl -> Object] /\ im[i] = obj /\ \A j \in Impl : j # i => im[j] = impl[j]
  BY <1>2, <1>16, <1>23, InvariantIs
<1>26. hs \in [Handle -> Impl \cup {Null}] /\ hs[h] = i /\ \A g \in Handle : g # h => hs[g] = handle[g]
  BY <1>2, <1>16, InvariantIs
<1>27. Objects(im)
  <2>1. \A j \in Impl : SoundStream(im[j].st)
    BY <1>5, <1>24, <1>25, InvariantIs DEF Objects
  <2>2. \A j \in Impl : im[j].st.open => /\ im[j].live /\ im[j].ino \in Inode
                                         /\ im[j].asked = im[j].st.app
    BY <1>5, <1>22, <1>24, <1>25, <1>37, InvariantIs DEF Objects
  <2> QED
    BY <1>25, <2>1, <2>2 DEF Objects
<1>28. \A g \in Handle : hs[g] # Null => im[hs[g]].live
  BY <1>2, <1>24, <1>25, <1>26, InvariantIs
<1>29. ASSUME NEW j \in Impl, al[j], im[j].st.open PROVE Lone(im, j, dk)
  <2>1. CASE j = i
    <3>1. ok /\ users = {} /\ im[j].ino = n /\ n \in Inode
      BY <1>12, <1>22, <1>24, <1>25, <1>29, <2>1
    <3>2. \A k \in Impl : im[k].st.open /\ im[k].ino = im[j].ino => k = j
      BY <1>13, <1>25, <2>1, <3>1
    <3>3. Synced(t, dk[n]) = dk[n] /\ Fetched(t, dk[n])
      BY <1>5 DEF Synced, Fetched
    <3>4. size = Len(dk[n])
      BY <1>17, <3>1, NullAssumption
    <3>5. Fits(size, t, dk[n])
      BY <1>20, <3>3, <3>4 DEF Fits
    <3> QED
      BY <1>24, <1>25, <2>1, <3>1, <3>2, <3>3, <3>5 DEF Lone
  <2>2. CASE j # i
    <3>1. alone[j] /\ j \notin users /\ im[j] = impl[j] /\ impl[j].st.open
      BY <1>12, <1>25, <1>29, <2>2
    <3>2. Lone(impl, j, disk) /\ impl[j].ino \in Inode
      BY <3>1, InvariantIs DEF Objects
    <3>3. ~(ok /\ impl[j].ino = n)
      BY <1>13, <3>1
    <3>4. \A k \in Impl : im[k].st.open /\ im[k].ino = im[j].ino => k = j
      BY <1>5, <1>22, <1>24, <1>25, <3>1, <3>2, <3>3 DEF Lone
    <3>5. dk[impl[j].ino] = disk[impl[j].ino]
      BY <1>8, <1>18, <3>2, <3>3, InvariantIs
    <3> QED
      BY <3>1, <3>2, <3>4, <3>5 DEF Lone
  <2> QED
    BY <2>1, <2>2
<1>30. Sane(hs, im, dk, names, al)
  BY <1>10, <1>11, <1>19, <1>26, <1>27, <1>28, <1>29 DEF Sane
<1>31. impl'[i] = obj
  <2>1. i \notin Unshared(hs, im)
    BY <1>26 DEF Unshared
  <2> QED
    BY <1>2, <1>14, <1>25, <2>1 DEF Release, Destroyed
<1>32. ASSUME NEW m \in Inode, AppOnly(m), AppOnly(m)', InUse(m)
       PROVE  dk[m] = disk[m] /\ Prolongs(disk[m], dk[m])
  <2>1. disk[m] \in Contents
    BY InvariantIs
  <2>2. CASE cut /\ m = n
    <3>1. Truncates(flags) /\ ok
      BY <1>4, <1>18, <1>32, <2>2
    <3>2. t.open /\ ~t.app
      BY <1>5, <1>7, <3>1
    <3>3. impl'[i].st.open /\ impl'[i].ino = m /\ ~impl'[i].st.app
      BY <1>22, <1>24, <1>31, <2>2, <3>1, <3>2
    <3> QED
      BY <1>2, <1>32, <3>3 DEF AppOnly
  <2>3. CASE ~cut \/ m # n
    <3>1. dk[m] = disk[m]
      BY <1>8, <2>3, InvariantIs
    <3> QED
      BY <2>1, <3>1, ProlongsSelf
  <2> QED
    BY <2>2, <2>3
<1>33. ASSUME NEW m \in Inode, AppOnly(m), NEW j \in Unshared(hs, im), im[j].st.open, im[j].ino = m
       PROVE  im[j].st.app
  <2>1. j \in Impl /\ j # i
    BY <1>26 DEF Unshared
  <2> QED
    BY <1>25, <1>33, <2>1 DEF AppOnly
<1>38. \A j \in Unshared(hs, im) : j = handle[h]
  <2>1. ASSUME NEW j \in Unshared(hs, im) PROVE j = handle[h]
    <3>1. j \in Impl /\ j # i /\ im[j].live
      BY <1>26 DEF Unshared
    <3>2. impl[j].live
      BY <1>25, <3>1
    <3> QED
      BY <1>26, <3>2, OneLetsGo
  <2> QED
    BY <2>1
<1>39. \A j \in Impl : impl[j].st.open => im[j] = impl[j]
  BY <1>2, <1>25, InvariantIs DEF Objects
<1>34. Lets(hs, im, dk, names, al)
  BY <1>14, <1>30, <1>32, <1>33, <1>38, <1>39 DEF Lets
<1> QED
  BY <1>34

-----------------------------------------------------------------------------
(***************************************************************************)
(* Steps beside the streams                                                *)
(***************************************************************************)
LEMMA TruncateSane ==
  ASSUME IInv, NEW h \in Handle, NEW k \in Offsets, Truncate(h, k)
  PROVE  IInv'
<1> DEFINE f == inode[impl[handle[h]].path]
           c == Resize(disk[f], k)
<1>1. /\ handle[h] # Null /\ f # Null
      /\ disk' = [disk EXCEPT ![f] = c]
      /\ alone' = [j \in Impl |-> alone[j] /\ impl[j].ino # f]
      /\ UNCHANGED <<inode, impl, handle, killed>>
  BY DEF Truncate
<1>2. k \in Nat
  BY OffsetsAssumption
<1>3. \A m \in Inode : Resize(disk[m], k) \in Contents
  BY <1>2, InvariantIs, ResizeIs
<1> DEFINE d == [disk EXCEPT ![f] = c]
<1>4. d \in [Inode -> Contents]
  <2>1. CASE f \in Inode
    BY <1>3, <2>1, InvariantIs
  <2>2. CASE f \notin Inode
    BY <2>2, InvariantIs
  <2> QED
    BY <2>1, <2>2
<1>5. \A m \in Inode : m # f => d[m] = disk[m]
  BY InvariantIs
<1> HIDE DEF c, f, d
<1>6. alone' \in [Impl -> BOOLEAN]
  BY <1>1
<1>7. \A j \in Impl : alone'[j] => alone[j] /\ impl[j].ino # f
  BY <1>1
<1>8. disk' = d
  BY <1>1 DEF d
<1>9. ASSUME NEW j \in Impl, alone'[j], impl[j].st.open PROVE Lone(impl, j, d)
  <2>1. Lone(impl, j, disk) /\ impl[j].ino \in Inode /\ impl[j].ino # f
    BY <1>7, <1>9, InvariantIs DEF Objects
  <2> QED
    BY <1>5, <2>1 DEF Lone
<1>10. Sane(handle, impl, d, inode, alone')
  BY <1>4, <1>6, <1>9, InvariantIs DEF Sane
<1> QED
  BY <1>1, <1>8, <1>10, InvariantIs DEF IInv

LEMMA RemoveSane ==
  ASSUME IInv, NEW p \in Path, Remove(p)
  PROVE  /\ IInv'
         /\ impl' = impl
         /\ \A n \in Inode : InUse(n)' => disk'[n] = disk[n]
<1>1. /\ inode' = [inode EXCEPT ![p] = Null]
      /\ disk' = Reclaimed(inode', impl, disk)
      /\ UNCHANGED <<impl, handle, alone, killed>>
  BY DEF Remove
<1>2. inode' \in [Path -> Inode \cup {Null}]
  BY <1>1, InvariantIs
<1>3. \A n \in Inode : disk'[n] = IF InUse(n)' THEN disk[n] ELSE <<>>
  BY <1>1 DEF Reclaimed, InUse
<1> DEFINE Kept(n) == \/ \E q \in Path : inode'[q] = n
                      \/ \E i \in Impl : impl[i].st.open /\ impl[i].ino = n
<1>4. \A n \in Inode : Kept(n) => disk'[n] = disk[n]
  BY <1>1 DEF Reclaimed
<1>5. disk' = [n \in Inode |-> disk'[n]]
  BY <1>1 DEF Reclaimed
<1>6. <<>> \in Contents
  BY DEF Contents
<1>7. disk' \in [Inode -> Contents]
  BY <1>3, <1>5, <1>6, InvariantIs
<1>8. ASSUME NEW j \in Impl, alone[j], impl[j].st.open PROVE Lone(impl, j, disk')
  <2>1. Lone(impl, j, disk) /\ impl[j].ino \in Inode
    BY <1>8, InvariantIs DEF Objects
  <2>2. Kept(impl[j].ino)
    BY <1>8
  <2>3. disk'[impl[j].ino] = disk[impl[j].ino]
    BY <1>4, <2>1, <2>2
  <2> QED
    BY <2>1, <2>3 DEF Lone
<1>9. Sane(handle, impl, disk', inode', alone)
  BY <1>2, <1>7, <1>8, InvariantIs DEF Sane
<1>10. IInv'
  BY <1>1, <1>9, InvariantIs DEF IInv
<1> QED
  BY <1>1, <1>3, <1>10

LEMMA CrashSane ==
  ASSUME IInv, Crash
  PROVE  /\ IInv'
         /\ \A n \in Inode : InUse(n)' => disk'[n] = disk[n]
<1>1. /\ handle' = [h \in Handle |-> Null]
      /\ impl' = [i \in Impl |-> Free]
      /\ alone' = [i \in Impl |-> FALSE]
      /\ killed' = (killed \/ \E i \in Impl : impl[i].st.open)
      /\ disk' = Reclaimed(inode, impl', disk)
      /\ UNCHANGED inode
  BY DEF Crash
<1>2. \A n \in Inode : disk'[n] = IF InUse(n)' THEN disk[n] ELSE <<>>
  BY <1>1 DEF Reclaimed, InUse
<1>3. disk' = [n \in Inode |-> disk'[n]]
  BY <1>1 DEF Reclaimed
<1>4. <<>> \in Contents
  BY DEF Contents
<1>5. disk' \in [Inode -> Contents]
  BY <1>2, <1>3, <1>4, InvariantIs
<1>6. \A i \in Impl : impl'[i] = Free
  BY <1>1
<1>7. Objects(impl')
  BY <1>1, <1>6, FreeIs DEF Objects
<1>8. \A h \in Handle : handle'[h] = Null
  BY <1>1
<1>9. Sane(handle', impl', disk', inode', alone')
  BY <1>1, <1>5, <1>6, <1>7, <1>8, FreeIs, InvariantIs DEF Sane
<1>10. killed' \in BOOLEAN
  BY <1>1, InvariantIs
<1>11. IInv'
  BY <1>6, <1>9, <1>10, FreeIs DEF IInv
<1> QED
  BY <1>2, <1>11

LEMMA InitSane == ASSUME Init PROVE IInv
<1>1. /\ inode = [p \in Path |-> Null] /\ disk = [n \in Inode |-> <<>>]
      /\ impl = [i \in Impl |-> Free] /\ handle = [h \in Handle |-> Null]
      /\ alone = [i \in Impl |-> FALSE] /\ killed = FALSE
  BY DEF Init
<1>2. <<>> \in Contents
  BY DEF Contents
<1>3. Objects(impl) /\ \A i \in Impl : impl[i] = Free
  BY <1>1, FreeIs DEF Objects
<1>4. Sane(handle, impl, disk, inode, alone)
  BY <1>1, <1>2, <1>3, FreeIs DEF Sane
<1> QED
  BY <1>1, <1>3, <1>4, FreeIs DEF IInv

\* What a step keeps of a file that only appending streams have open, the cuts by name
\* and a kill excepted
Keeps ==
  \A n \in Inode :
    AppOnly(n) /\ AppOnly(n)' /\ InUse(n) /\ InUse(n)' /\ ~CutByName /\ ~Crash => AllLasts(n)

LEMMA SameKeeps ==
  ASSUME IInv, impl' = impl, \A n \in Inode : InUse(n)' => disk'[n] = disk[n]
  PROVE  Keeps
<1>1. ASSUME NEW n \in Inode, disk'[n] = disk[n] PROVE AllLasts(n)
  <2>1. Prolongs(disk[n], disk'[n])
    BY <1>1, InvariantIs, ProlongsSelf
  <2>2. ASSUME NEW i \in Impl, impl[i].ino = n PROVE HeldLasts(i, n)
    BY <2>2, ObjectIs, SameLasts
  <2> QED
    BY <2>1, <2>2 DEF AllLasts
<1> QED
  BY <1>1 DEF Keeps

LEMMA StepSane == ASSUME IInv, [Next]_vars PROVE IInv' /\ Keeps
<1>2. ASSUME NEW h \in Handle, StreamCall(h) PROVE IInv' /\ Keeps
  <2>1. PICK i \in Impl : \E r, size : Proper(i, r, size) /\ Touch(i, r, size)
    BY <1>2, CallIsProper
  <2>2. PICK r, size : Proper(i, r, size) /\ Touch(i, r, size)
    BY <2>1
  <2>3. IInv'
    BY <2>2, TouchSane
  <2>4. \A n \in Inode : AppOnly(n) => AllLasts(n)
    BY <2>2, TouchKeeps
  <2> QED
    BY <2>3, <2>4 DEF Keeps
<1>3. ASSUME \E hs, im, dk, names, al : Lets(hs, im, dk, names, al) PROVE IInv' /\ Keeps
  <2>1. PICK hs, im, dk, names, al : Lets(hs, im, dk, names, al)
    BY <1>3
  <2>2. IInv'
    BY <2>1, LetsKeeps
  <2>3. \A n \in Inode : AppOnly(n) /\ AppOnly(n)' /\ InUse(n) /\ InUse(n)' => AllLasts(n)
    BY <2>1, LetsKeeps
  <2> QED
    BY <2>2, <2>3 DEF Keeps
<1>4. ASSUME NEW h \in Handle, NEW p \in Path, NEW mode \in OpenModes, Open(h, p, mode)
      PROVE  IInv' /\ Keeps
  BY <1>3, <1>4, OpenLets
<1>5. ASSUME NEW h \in Handle, CloseFile(h) PROVE IInv' /\ Keeps
  BY <1>3, <1>5, CloseLets
<1>6. ASSUME NEW h \in Handle, NEW g \in Handle, Copy(h, g) PROVE IInv' /\ Keeps
  BY <1>3, <1>6, CopyLets
<1>7. ASSUME NEW h \in Handle, Drop(h) PROVE IInv' /\ Keeps
  BY <1>3, <1>7, DropLets
<1>8. ASSUME NEW h \in Handle, NEW k \in Offsets, Truncate(h, k) PROVE IInv' /\ Keeps
  <2>1. IInv'
    BY <1>8, TruncateSane
  <2> QED
    BY <1>8, <2>1 DEF Keeps, CutByName
<1>9. ASSUME NEW p \in Path, Remove(p) PROVE IInv' /\ Keeps
  BY <1>9, RemoveSane, SameKeeps
<1>10. ASSUME Crash PROVE IInv' /\ Keeps
  BY <1>10, CrashSane DEF Keeps
<1>11. CASE UNCHANGED vars
  <2>1. UNCHANGED <<inode, disk, impl, handle, alone, killed>>
    BY <1>11 DEF vars
  <2>2. IInv'
    BY <2>1 DEF IInv, Sane, Objects, Lone
  <2> QED
    BY <2>1, <2>2, SameKeeps
<1>12. ASSUME NEW h \in Handle, Call(h) PROVE IInv' /\ Keeps
  BY <1>2, <1>4, <1>5, <1>6, <1>7, <1>8, <1>12 DEF Call, StreamCall
<1>13. CASE Next
  BY <1>9, <1>10, <1>12, <1>13 DEF Next
<1> QED
  BY <1>11, <1>13

\* The invariant holds in every state.
THEOREM Invariant == Spec => []IInv
<1>1. IInv /\ [Next]_vars => IInv'
  BY StepSane
<1> QED
  BY <1>1, InitSane, PTL DEF Spec

\* A LinuxFile lives exactly as long as some File shares it: no call, close, copy or
\* drop of one copy frees what another uses or leaks the last one, whatever the number
\* of variables, objects and files (File.cpp:36-47).
THEOREM Ownership == Spec => []SharedOwnership
<1>1. ASSUME IInv PROVE SharedOwnership
  <2>1. TypeOK
    <3>1. \A i \in Impl : impl[i] \in Object /\ impl[i].st \in Stream
      BY <1>1, InvariantIs DEF Objects, SoundStream
    <3>2. \A i \in Impl : /\ impl[i].live \in BOOLEAN
                          /\ impl[i].path \in Path \cup {Null}
                          /\ impl[i].ino \in Inode \cup {Null}
                          /\ impl[i].size \in Nat /\ impl[i].asked \in BOOLEAN
      BY <3>1 DEF Object
    <3>3. \A i \in Impl : /\ impl[i].st.mode \in {"idle", "get", "put"}
                          /\ impl[i].st.off \in Nat
                          /\ impl[i].st.buf \in Seq(Nat)
      BY <3>1 DEF Stream, Contents
    <3>4. \A i \in Impl : impl[i].st.open => impl[i].live /\ impl[i].ino \in Inode
      BY <1>1, InvariantIs DEF Objects
    <3> QED
      BY <1>1, <3>2, <3>3, <3>4, InvariantIs DEF TypeOK, Contents
  <2>2. \A i \in Impl : impl[i].live <=> \E h \in Handle : handle[h] = i
    BY <1>1, InvariantIs, NullAssumption
  <2> QED
    BY <2>1, <2>2 DEF SharedOwnership
<1> QED
  BY <1>1, Invariant, PTL

\* size() of an open file nothing else touched is its length, the unwritten bytes
\* included, whatever was read, written, peeked, sought and flushed before, until the
\* stream runs to the end of the file, and never less than that (LinuxFile.cpp:117-125).
THEOREM SizeIsTheEnd == Spec => []SizeIsEnd
<1>1. ASSUME IInv PROVE SizeIsEnd
  BY <1>1, LoneIs DEF SizeIsEnd, Fits
<1> QED
  BY <1>1, Invariant, PTL

\* The first byte of a content, alone
LEMMA FirstAlone ==
  ASSUME NEW e \in Contents, Len(e) > 0
  PROVE  SubSeq(e, 1, 1) = <<e[1]>>
<1> DEFINE f == SubSeq(e, 1, 1)
           g == <<e[1]>>
<1>1. e \in Seq(Nat) /\ Len(e) \in Nat /\ 1 \in 1 .. Len(e)
  BY LengthIs DEF Contents
<1>2. e[1] \in Nat
  BY <1>1
<1>3. g \in Contents /\ Len(g) = 1 /\ g[1] = e[1]
  BY <1>2 DEF Contents
<1>4. f \in Seq(Nat) /\ Len(f) = 1 /\ f[1] = e[1]
  BY <1>1
<1>5. \A k \in 1 .. 1 : f[k] = g[k]
  BY <1>3, <1>4
<1> HIDE DEF f, g
<1>6. f = g
  BY <1>3, <1>4, <1>5, SameBytes DEF Contents
<1> QED
  BY <1>6 DEF f, g

\* available() says 1 exactly when there is a byte behind the position, and the read()
\* that follows gets that byte (File.cpp:61-63, LinuxFile.cpp:128-138, 148-157).
THEOREM AvailableIsThere == Spec => []AvailableIsRead
<1>1. ASSUME IInv, NEW h \in Handle, handle[h] # Null, NEW i, i = handle[h],
             alone[i], impl[i].st.open, impl[i].st.rd, ~impl[i].st.app, Good(impl[i].st)
      PROVE  LET s     == impl[i].st
                 ahead == From(Synced(s, Content(i)), Tell(s))
             IN  IF ahead = <<>> THEN Available(h) = 0
                 ELSE Available(h) = 1 /\ Read(s, Content(i), 1).val = <<ahead[1]>>
  <2> DEFINE s     == impl[i].st
             c     == Content(i)
             S     == Synced(s, c)
             pos   == Tell(s)
             ahead == From(S, pos)
             a     == Len(ahead)
  <2>0. i \in Impl
    BY <1>1, InvariantIs
  <2>1. SoundStream(s) /\ c \in Contents
    BY <1>1, <2>0, ObjectIs
  <2>2. S \in Contents /\ Len(S) \in Nat
    BY <2>1, SyncedIs, LengthIs
  <2>3. impl[i].size = Len(S) /\ Fetched(s, c)
    BY <1>1, <2>0, LoneIs DEF Fits, Good
  <2>4. s \in Stream /\ ~s.fail /\ s.off \in Nat /\ s.buf \in Contents /\ Len(s.buf) \in Nat
    BY <1>1, <2>1, LengthIs DEF SoundStream, Stream, Good
  <2>5. pos \in Nat
    <3>1. s.mode \in {"idle", "get", "put"} /\ (s.mode = "get" => Len(s.buf) <= s.off)
      BY <2>1 DEF SoundStream, Stream
    <3> QED
      BY <2>4, <3>1 DEF Tell
  <2>6. ahead \in Contents /\ a = IF pos <= Len(S) THEN Len(S) - pos ELSE 0
    BY <2>2, <2>5, FromIs
  <2>7. Ahead(i) = IF pos > Len(S) THEN 0 ELSE AtMost(AvailableCap, Len(S) - pos)
    <3>1. pos # Failed
      BY <2>5 DEF Failed
    <3> QED
      BY <1>1, <2>3, <3>1 DEF Ahead
  <2>8. ahead # <<>> <=> a > 0
    BY <2>6, LengthIs
  <2> HIDE DEF S, pos, ahead, a
  <2>9. Ahead(i) # 0 <=> a > 0
    <3> DEFINE m == Len(S)
               n == Ahead(i)
    <3>1. m \in Nat /\ a = (IF pos <= m THEN m - pos ELSE 0)
          /\ n = IF pos > m THEN 0 ELSE AtMost(AvailableCap, m - pos)
      BY <2>2, <2>6, <2>7
    <3> HIDE DEF m, n
    <3>2. n # 0 <=> a > 0
      BY <2>5, <3>1 DEF AtMost, AvailableCap
    <3> QED
      BY <3>2 DEF n
  <2>11. Available(h) = IF a > 0 THEN 1 ELSE 0
    BY <1>1, <2>9 DEF Available
  <2>10. ASSUME ahead # <<>>
         PROVE  Read(s, c, 1).val = <<ahead[1]>>
    <3>1. a \in Nat /\ 1 <= a
      BY <2>6, <2>8, <2>10, LengthIs DEF a
    <3> DEFINE d    == Drain(s, c)
               more == d.rd /\ Len(d.buf) < 1
               got  == IF more THEN d.buf \o From(S, d.off) ELSE d.buf
    <3>2. Read(s, c, 1).val = SubSeq(got, 1, IF Len(got) < 1 THEN Len(got) ELSE 1)
      BY <1>1 DEF Read, Result, S
    <3>3. d.rd
      BY <1>1, <2>1, DrainIs DEF Alike
    <3>4. got = ahead
      <4>1. CASE s.mode = "get"
        <5>1. d = s /\ S = c
          BY <2>1, <4>1, DrainIs, SyncedIs DEF S
        <5>2. pos = s.off - Len(s.buf)
          BY <2>4, <4>1 DEF pos, Tell
        <5>3. s.buf = ahead
          BY <2>3, <4>1, <5>1, <5>2 DEF Fetched, ahead
        <5>4. ~more
          BY <2>4, <3>1, <5>1, <5>3 DEF a
        <5> QED
          BY <5>1, <5>3, <5>4
      <4>2. CASE s.mode # "get"
        <5>1. d.buf = <<>> /\ d.off = pos
          <6>1. CASE s.mode = "put"
            <7>1. d.buf = <<>> /\ d.off = s.off + Len(s.buf)
              BY <1>1, <2>1, <6>1, DrainIs
            <7> QED
              BY <2>4, <6>1, <7>1 DEF pos, Tell
          <6>2. CASE s.mode = "idle"
            <7>1. d = s
              BY <2>1, <6>2, DrainIs
            <7> QED
              BY <2>1, <2>4, <6>2, <7>1 DEF pos, Tell, SoundStream
          <6>3. s.mode \in {"idle", "get", "put"}
            BY <2>4 DEF Stream
          <6> QED
            BY <4>2, <6>1, <6>2, <6>3
        <5>2. Len(d.buf) = 0
          BY <5>1
        <5>3. more
          BY <3>3, <5>2
        <5>4. got = <<>> \o ahead
          BY <5>1, <5>3 DEF ahead
        <5> QED
          BY <2>6, <5>4, NothingFirst
      <4> QED
        BY <4>1, <4>2
    <3> HIDE DEF got
    <3>5. ~(Len(got) < 1)
      BY <3>1, <3>4 DEF a
    <3>6. SubSeq(ahead, 1, 1) = <<ahead[1]>>
      BY <2>6, <3>1, FirstAlone DEF a
    <3> QED
      BY <3>2, <3>4, <3>5, <3>6
  <2> QED
    BY <2>8, <2>10, <2>11 DEF S, pos, ahead, a
<1>2. ASSUME IInv PROVE AvailableIsRead
  BY <1>1, <1>2 DEF AvailableIsRead
<1> QED
  BY <1>2, Invariant, PTL

\* `Prolongs' is the prefix relation.
LEMMA ProlongsIs ==
  ASSUME NEW c \in Contents, NEW e \in Contents, Prolongs(c, e)
  PROVE  Extends(c, e)
<1> DEFINE m == Len(c)
           f == SubSeq(e, 1, m)
<1>1. m \in Nat /\ m <= Len(e) /\ \A k \in 1 .. m : e[k] = c[k]
  BY LengthIs DEF Prolongs
<1> HIDE DEF m
<1>2. /\ f \in Contents /\ Len(f) = (IF 1 <= m THEN m - 1 + 1 ELSE 0)
      /\ \A i \in 1 .. m - 1 + 1 : f[i] = e[1 + i - 1]
  BY <1>1, PartIs
<1> HIDE DEF f
<1>3. Len(f) = m /\ m - 1 + 1 = m
  BY <1>1, <1>2
<1>4. \A k \in 1 .. m : f[k] = c[k]
  <2>1. \A k \in 1 .. m : 1 + k - 1 = k
    BY <1>1
  <2> QED
    BY <1>1, <1>2, <1>3, <2>1
<1>5. c = f
  BY <1>2, <1>3, <1>4, SameBytes DEF m
<1> QED
  BY <1>1, <1>5 DEF m, f, Extends

\* What Files opened with O_APPEND write to a file is never lost or overwritten while
\* such Files alone have it open: the host's file only grows at its end, and what a
\* stream still holds stays with it or goes there, however the calls, opens, closes,
\* copies and reassignments of any number of Files interleave (LinuxFile.cpp:44-54,
\* 65-67; SD.h:18).
THEOREM AppendNeverLoses == Spec => AppendLosesNothing
<1>1. ASSUME IInv, [Next]_vars, NEW n \in Inode, Appended(n), Appended(n)', InUse(n), InUse(n)',
             ~CutByName, ~Crash
      PROVE  Lasts(n)
  <2>1. IInv' /\ Keeps
    BY <1>1, StepSane
  <2>2. AppOnly(n)
    BY <1>1, ObjectIs DEF Appended, AppOnly
  <2>3. AppOnly(n)'
    <3>1. Objects(impl)'
      BY <2>1 DEF IInv, Sane
    <3> QED
      BY <1>1, <3>1 DEF Appended, AppOnly, Objects
  <2>4. AllLasts(n)
    BY <1>1, <2>1, <2>2, <2>3 DEF Keeps
  <2>5. disk[n] \in Contents /\ disk'[n] \in Contents
    BY <1>1, <2>1, InvariantIs DEF IInv, Sane
  <2>6. Extends(disk[n], disk'[n])
    BY <2>4, <2>5, ProlongsIs DEF AllLasts
  <2>7. ASSUME NEW i \in Impl, impl[i].st.open, impl[i].ino = n
        PROVE  \/ Extends(disk[n] \o Held(i), disk'[n])
               \/ impl'[i].ino = n /\ Extends(Held(i), Held(i)')
    <3>1. impl[i].st.buf \in Contents /\ SoundStream(impl[i].st)
      BY <1>1, ObjectIs DEF SoundStream, Stream
    <3>2. CASE impl[i].st.mode # "put"
      <4>1. Held(i) = <<>>
        BY <3>2 DEF Held
      <4>2. disk[n] \o <<>> = disk[n]
        BY <2>5 DEF Contents
      <4> QED
        BY <2>6, <4>1, <4>2
    <3>3. CASE impl[i].st.mode = "put"
      <4>1. Held(i) = impl[i].st.buf
        BY <3>3 DEF Held
      <4>2. CASE Prolongs(disk[n] \o impl[i].st.buf, disk'[n])
        <5>1. disk[n] \o impl[i].st.buf \in Contents
          BY <2>5, <3>1, JoinIs
        <5> QED
          BY <2>5, <4>1, <4>2, <5>1, ProlongsIs
      <4>3. CASE impl'[i].ino = n /\ impl'[i].st.mode = "put" /\ Prolongs(impl[i].st.buf, impl'[i].st.buf)
        <5>1. Held(i)' = impl'[i].st.buf
          BY <4>3 DEF Held
        <5>2. impl'[i].st.buf \in Contents
          BY <2>1 DEF IInv, Sane, Objects, SoundStream, Stream
        <5>3. Extends(impl[i].st.buf, impl'[i].st.buf)
          BY <3>1, <4>3, <5>2, ProlongsIs
        <5> QED
          BY <4>1, <4>3, <5>1, <5>3
      <4> QED
        BY <2>4, <2>7, <3>3, <4>2, <4>3 DEF AllLasts, HeldLasts
    <3> QED
      BY <3>2, <3>3
  <2> QED
    BY <2>6, <2>7 DEF Lasts
<1>2. IInv /\ [Next]_vars =>
        [ \A n \in Inode : Appended(n) /\ Appended(n)' /\ InUse(n) /\ InUse(n)' =>
            Lasts(n) \/ CutByName \/ Crash ]_vars
  BY <1>1
<1> QED
  BY <1>2, Invariant, PTL DEF Spec, AppendLosesNothing

-----------------------------------------------------------------------------
(***************************************************************************)
(* LinuxFile implements ByteFile for a program with one File variable and  *)
(* one name: the buffer of the stream is invisible.                        *)
(***************************************************************************)
-----------------------------------------------------------------------------
(***************************************************************************)
(* Where a stream is in its file, whatever its state bits say              *)
(***************************************************************************)
Place(s) == IF s.mode = "get" THEN s.off - Len(s.buf)
            ELSE IF s.mode = "put" THEN s.off + Len(s.buf) ELSE s.off

LEMMA PlaceIs ==
  ASSUME NEW s, SoundStream(s)
  PROVE  /\ Place(s) \in Nat
         /\ Tell([s EXCEPT !.fail = FALSE]) = Place(s)
         /\ ~s.fail => Tell(s) = Place(s)
<1>1. /\ s \in Stream /\ s.off \in Nat /\ s.buf \in Contents /\ Len(s.buf) \in Nat
      /\ s.mode \in {"idle", "get", "put"} /\ (s.mode = "get" => Len(s.buf) <= s.off)
  BY LengthIs DEF SoundStream, Stream
<1>2. Place(s) \in Nat
  BY <1>1 DEF Place
<1>3. ~s.fail => Tell(s) = Place(s)
  BY <1>1 DEF Tell, Place
<1> DEFINE t == [s EXCEPT !.fail = FALSE]
<1>4. t = [s EXCEPT !.fail = FALSE]
  OBVIOUS
<1> HIDE DEF t
<1>5. t = [open |-> s.open, rd |-> s.rd, wr |-> s.wr, app |-> s.app, mode |-> s.mode,
           off |-> s.off, buf |-> s.buf, eof |-> s.eof, fail |-> FALSE]
  BY <1>1, <1>4 DEF Stream
<1>6. t.fail = FALSE /\ t.mode = s.mode /\ t.off = s.off /\ t.buf = s.buf
  BY <1>5
<1>7. Tell(t) = Place(s)
  BY <1>1, <1>6 DEF Tell, Place
<1> QED
  BY <1>2, <1>3, <1>7 DEF t

\* Bytes written behind one another are written as one.
LEMMA OverlayTwice ==
  ASSUME NEW c \in Contents, NEW p \in Nat, NEW a \in Contents, a # <<>>,
         NEW b \in Contents, b # <<>>
  PROVE  Overlay(Overlay(c, p, a), p + Len(a), b) = Overlay(c, p, a \o b)
<1> DEFINE x  == Len(a)
           y  == Len(b)
           z  == Len(c)
           o1 == Overlay(c, p, a)
           q  == p + x
           o2 == Overlay(o1, q, b)
           ab == a \o b
           o3 == Overlay(c, p, ab)
<1>1. x \in Nat /\ x > 0 /\ y \in Nat /\ y > 0 /\ z \in Nat /\ q \in Nat
  BY LengthIs
<1>2. ab \in Contents /\ Len(ab) = x + y
  BY JoinIs
<1>3. /\ \A k \in 1 .. x : ab[k] = a[k]
      /\ \A k \in x + 1 .. x + y : ab[k] = b[k - x]
  BY JoinIs
<1>4. o1 \in Contents /\ Len(o1) = Longer(z, q)
  BY OverlayIs
<1>5. \A k \in 1 .. Longer(z, q) :
        o1[k] = IF k > p /\ k <= q THEN a[k - p] ELSE IF k <= z THEN c[k] ELSE Hole
  BY OverlayIs
<1> HIDE DEF o1, ab, q
<1>6. o2 \in Contents /\ Len(o2) = Longer(Longer(z, q), q + y)
  BY <1>1, <1>4, OverlayIs
<1>7. \A k \in 1 .. Longer(Len(o1), q + y) :
        o2[k] = IF k > q /\ k <= q + y THEN b[k - q] ELSE IF k <= Len(o1) THEN o1[k] ELSE Hole
  BY <1>1, <1>4, OverlayIs
<1>8. ab # <<>>
  BY <1>1, <1>2, LengthIs
<1>9. o3 \in Contents /\ Len(o3) = Longer(z, p + (x + y))
  <2>1. o3 \in Contents /\ Len(o3) = Longer(z, p + Len(ab))
    BY <1>2, <1>8, OverlayIs
  <2> HIDE DEF o3, x, y, z
  <2> QED
    BY <1>2, <2>1
<1>10. \A k \in 1 .. Longer(z, p + Len(ab)) :
         o3[k] = IF k > p /\ k <= p + Len(ab) THEN ab[k - p] ELSE IF k <= z THEN c[k] ELSE Hole
  BY <1>2, <1>8, OverlayIs
<1> HIDE DEF o2, o3, x, y, z
<1>11. q = p + x
  BY DEF q, x
<1>12. Len(o2) = Len(o3) /\ Len(o3) \in Nat
  BY <1>1, <1>6, <1>9, <1>11 DEF Longer
<1>13. ASSUME NEW k \in 1 .. Len(o3) PROVE o2[k] = o3[k]
  <2>1. k \in Nat /\ k > 0
    BY <1>12
  <2>2. k \in 1 .. Longer(Len(o1), q + y) /\ k \in 1 .. Longer(z, p + Len(ab))
    BY <1>1, <1>2, <1>4, <1>6, <1>9, <1>11, <1>12
  <2>3. o2[k] = IF k > q /\ k <= q + y THEN b[k - q] ELSE IF k <= Len(o1) THEN o1[k] ELSE Hole
    BY <1>7, <2>2
  <2>4. o3[k] = IF k > p /\ k <= p + (x + y) THEN ab[k - p] ELSE IF k <= z THEN c[k] ELSE Hole
    BY <1>2, <1>10, <2>2
  <2>5. CASE k > q /\ k <= q + y
    <3>1. k - p \in x + 1 .. x + y /\ k - p - x = k - q
      BY <1>1, <1>11, <2>1, <2>5
    <3>2. ab[k - p] = b[k - q]
      BY <1>3, <3>1
    <3>3. k > p /\ k <= p + (x + y)
      BY <1>1, <1>11, <2>1, <2>5
    <3> QED
      BY <2>3, <2>4, <2>5, <3>2, <3>3
  <2>6. CASE k > p /\ k <= q
    <3>1. k - p \in 1 .. x /\ ~(k > q) /\ k <= p + (x + y) /\ k <= Len(o1) /\ k \in 1 .. Longer(z, q)
      BY <1>1, <1>4, <1>11, <2>1, <2>6 DEF Longer
    <3>2. o1[k] = a[k - p] /\ ab[k - p] = a[k - p]
      BY <1>3, <1>5, <2>6, <3>1
    <3> QED
      BY <2>3, <2>4, <2>6, <3>1, <3>2
  <2>7. CASE ~(k > p /\ k <= q + y)
    <3>1. ~(k > q /\ k <= q + y) /\ ~(k > p /\ k <= p + (x + y)) /\ ~(k > p /\ k <= q)
      BY <1>1, <1>11, <2>1, <2>7
    <3>2. k <= Len(o1) => o1[k] = IF k <= z THEN c[k] ELSE Hole
      BY <1>1, <1>4, <1>5, <2>1, <3>1
    <3>3. k <= z => k <= Len(o1)
      BY <1>1, <1>4, <2>1 DEF Longer
    <3> QED
      BY <2>3, <2>4, <3>1, <3>2, <3>3
  <2> QED
    BY <1>1, <1>11, <2>1, <2>5, <2>6, <2>7
<1>14. o2 = o3
  BY <1>6, <1>9, <1>12, <1>13, SameBytes
<1> QED
  BY <1>14 DEF o1, o2, o3, ab, q, x

-----------------------------------------------------------------------------
(***************************************************************************)
(* How far a call moves the place, and what it brings to the host          *)
(***************************************************************************)
LEMMA BitsStay ==
  ASSUME NEW s, SoundStream(s), NEW e \in BOOLEAN, NEW f \in BOOLEAN,
         NEW t, t = [s EXCEPT !.fail = f, !.eof = e]
  PROVE  Place(t) = Place(s)
<1>1. s \in Stream
  BY DEF SoundStream
<1>2. t.mode = s.mode /\ t.off = s.off /\ t.buf = s.buf
  BY <1>1 DEF Stream
<1> QED
  BY <1>2 DEF Place

LEMMA DrainStays ==
  ASSUME NEW s, SoundStream(s), ~s.app, NEW c \in Contents
  PROVE  Place(Drain(s, c)) = Place(s)
<1> DEFINE d == Drain(s, c)
<1>1. CASE s.mode = "put"
  <2>1. d.mode = "idle" /\ d.off = s.off + Len(s.buf)
    BY <1>1, DrainIs
  <2> QED
    BY <1>1, <2>1 DEF Place
<1>2. CASE s.mode # "put"
  BY <1>2, DrainIs
<1> QED
  BY <1>1, <1>2

LEMMA ReadMoves ==
  ASSUME NEW s, SoundStream(s), NEW c \in Contents, NEW n \in Nat \ {0}
  PROVE  LET r == Read(s, c, n) IN
         /\ r.data \in {c, Synced(s, c)}
         /\ ~s.app => Place(r.st) \in Place(s) .. Place(s) + n
<1>1. CASE ~s.open \/ ~Good(s)
  <2> DEFINE e == s.eof \/ Good(s)
             t == [s EXCEPT !.fail = TRUE, !.eof = e]
  <2>1. Read(s, c, n) = Result(t, c, <<>>)
    BY <1>1 DEF Read
  <2>2. e \in BOOLEAN /\ (s.eof => e)
    BY DEF SoundStream, Stream, Good
  <2>3. t = [s EXCEPT !.fail = TRUE, !.eof = e]
    OBVIOUS
  <2> HIDE DEF e, t
  <2>4. Place(t) = Place(s) /\ Place(s) \in Nat
    BY <2>2, <2>3, BitsStay, PlaceIs
  <2> QED
    BY <2>1, <2>4 DEF Result
<1>2. CASE s.open /\ Good(s)
  <2> DEFINE d    == Drain(s, c)
             file == Synced(s, c)
             more == d.rd /\ Len(d.buf) < n
             g    == From(file, d.off)
             got  == IF more THEN d.buf \o g ELSE d.buf
             off  == IF more THEN Longer(d.off, Len(file)) ELSE d.off
             rest == From(got, n)
             mode == IF rest = <<>> THEN "idle" ELSE "get"
             bit  == Len(got) < n
             t    == [d EXCEPT !.off = off, !.buf = rest, !.mode = mode, !.eof = bit, !.fail = bit]
             v    == SubSeq(got, 1, IF Len(got) < n THEN Len(got) ELSE n)
  <2>1. Read(s, c, n) = Result(t, file, v)
    BY <1>2 DEF Read
  <2>2. SoundStream(d) /\ d.mode # "put" /\ file \in Contents
    BY DrainIs, SyncedIs
  <2>3. ~s.app => Place(d) = Place(s)
    BY DrainStays
  <2>4. t = [d EXCEPT !.off = off, !.buf = rest, !.mode = mode, !.eof = bit, !.fail = bit]
    OBVIOUS
  <2> HIDE DEF d, file, t
  <2> DEFINE m == Len(file)
             l == Len(d.buf)
             o == d.off
  <2>5. /\ d \in Stream /\ o \in Nat /\ d.buf \in Contents /\ l \in Nat /\ m \in Nat
        /\ d.mode = "idle" => l = 0
        /\ d.mode = "get" => l <= o
        /\ d.mode = "idle" \/ d.mode = "get"
    BY <2>2, LengthIs DEF SoundStream, Stream
  <2>6. Place(d) = o - l
    BY <2>5 DEF Place
  <2>7. g \in Contents /\ Len(g) = IF o <= m THEN m - o ELSE 0
    BY <2>2, <2>5, FromIs
  <2>8. more => off = Longer(o, m) /\ l < n
    OBVIOUS
  <2>9. ~more => got = d.buf /\ off = o
    OBVIOUS
  <2>10. more => got = d.buf \o g
    OBVIOUS
  <2> HIDE DEF got, g, off, more, m, l, o
  <2>11. more => got \in Contents /\ Len(got) = l + Len(g)
    <3> DEFINE a == d.buf
    <3>1. a \in Contents /\ g \in Contents /\ l = Len(a)
      BY <2>5, <2>7 DEF l
    <3>2. more => got = a \o g
      BY <2>10
    <3> HIDE DEF a
    <3>3. a \o g \in Contents /\ Len(a \o g) = Len(a) + Len(g)
      BY ONLY <3>1, JoinIs, Zenon
    <3> QED
      BY ONLY <3>1, <3>2, <3>3
  <2>12. ~more => got \in Contents /\ Len(got) = l
    BY <2>5, <2>9 DEF l
  <2>13. got \in Contents /\ Len(got) \in Nat
    BY <2>11, <2>12, LengthIs
  <2>14. rest \in Contents /\ Len(rest) = IF n <= Len(got) THEN Len(got) - n ELSE 0
    BY <2>13, FromIs
  <2>15. rest # <<>> <=> Len(rest) > 0
    BY <2>14, LengthIs
  <2> HIDE DEF rest
  <2>16. mode = (IF rest = <<>> THEN "idle" ELSE "get") /\ bit \in BOOLEAN
    OBVIOUS
  <2> HIDE DEF mode, bit
  <2>17. t.mode = mode /\ t.off = off /\ t.buf = rest
    BY <2>4, <2>5 DEF Stream
  <2>18. Place(t) = off - Len(rest)
    <3>1. off \in Nat
      BY <2>5, <2>8, <2>9 DEF Longer
    <3>2. CASE rest = <<>>
      <4>1. t.mode = "idle" /\ t.off = off /\ Len(rest) = 0
        BY <2>16, <2>17, <3>2
      <4> QED
        BY <3>1, <4>1 DEF Place
    <3>3. CASE rest # <<>>
      BY <2>16, <2>17, <3>3 DEF Place
    <3> QED
      BY <3>2, <3>3
  <2> DEFINE a == Len(got)
             z == Len(rest)
             y == Len(g)
  <2>19. /\ a \in Nat /\ z = (IF n <= a THEN a - n ELSE 0) /\ y = (IF o <= m THEN m - o ELSE 0)
         /\ more => a = l + y
         /\ ~more => a = l
    BY <2>7, <2>11, <2>12, <2>13, <2>14
  <2> HIDE DEF a, z, y
  <2>20. CASE more
    <3>1. l < n /\ off = (IF o >= m THEN o ELSE m) /\ a = l + y
      BY <2>8, <2>19, <2>20 DEF Longer
    <3>2. off - z \in (o - l) .. (o - l) + n
      BY <2>5, <2>19, <3>1
    <3> QED
      BY <2>1, <2>3, <2>6, <2>18, <3>2 DEF Result, z, file
  <2>21. CASE ~more
    <3>1. off = o /\ a = l
      BY <2>9, <2>19, <2>21
    <3>2. off - z \in (o - l) .. (o - l) + n
      BY <2>5, <2>19, <3>1
    <3> QED
      BY <2>1, <2>3, <2>6, <2>18, <3>2 DEF Result, z, file
  <2> QED
    BY <2>20, <2>21
<1> QED
  BY <1>1, <1>2

LEMMA PeekStays ==
  ASSUME NEW s, SoundStream(s), NEW c \in Contents
  PROVE  LET r == Peek(s, c) IN
         /\ r.data \in {c, Synced(s, c)}
         /\ ~s.app => Place(r.st) = Place(s)
<1>0. s \in Stream
  BY DEF SoundStream
<1>1. CASE ~Good(s)
  <2> DEFINE e == s.eof
             t == [s EXCEPT !.fail = TRUE]
  <2>1. Peek(s, c) = Result(t, c, Failed)
    BY <1>1 DEF Peek
  <2>2. e \in BOOLEAN /\ t = [s EXCEPT !.fail = TRUE, !.eof = e]
    BY <1>0 DEF Stream
  <2> HIDE DEF e, t
  <2>3. Place(t) = Place(s)
    BY <2>2, BitsStay
  <2> QED
    BY <2>1, <2>3 DEF Result
<1>2. CASE Good(s) /\ ~s.rd
  <2> DEFINE f == s.fail
             t == [s EXCEPT !.eof = TRUE]
  <2>1. Peek(s, c) = Result(t, c, Failed)
    BY <1>2 DEF Peek
  <2>2. f \in BOOLEAN /\ t = [s EXCEPT !.fail = f, !.eof = TRUE]
    BY <1>0 DEF Stream
  <2> HIDE DEF f, t
  <2>3. Place(t) = Place(s)
    BY <2>2, BitsStay
  <2> QED
    BY <2>1, <2>3 DEF Result
<1>3. CASE Good(s) /\ s.rd
  <2> DEFINE d    == Drain(s, c)
             file == Synced(s, c)
             g    == From(file, d.off)
             got  == IF d.buf = <<>> THEN g ELSE d.buf
             off  == IF d.buf = <<>> THEN Len(file) ELSE d.off
             t1   == [d EXCEPT !.mode = "idle", !.eof = TRUE]
             t2   == [d EXCEPT !.mode = "get", !.buf = got, !.off = off]
  <2>1. Peek(s, c) = IF got = <<>> THEN Result(t1, file, Failed) ELSE Result(t2, file, got[1])
    BY <1>3 DEF Peek
  <2>2. SoundStream(d) /\ d.mode # "put" /\ file \in Contents
    BY DrainIs, SyncedIs
  <2>3. ~s.app => Place(d) = Place(s)
    BY DrainStays
  <2>4. /\ t1 = [d EXCEPT !.mode = "idle", !.eof = TRUE]
        /\ t2 = [d EXCEPT !.mode = "get", !.buf = got, !.off = off]
    OBVIOUS
  <2> HIDE DEF d, file, t1, t2
  <2>5. /\ d \in Stream /\ d.off \in Nat /\ d.buf \in Contents /\ Len(d.buf) \in Nat /\ Len(file) \in Nat
        /\ d.mode = "idle" <=> d.buf = <<>>
        /\ d.mode = "idle" \/ d.mode = "get"
    BY <2>2, LengthIs DEF SoundStream, Stream
  <2>6. g \in Contents /\ Len(g) = IF d.off <= Len(file) THEN Len(file) - d.off ELSE 0
    BY <2>2, <2>5, FromIs
  <2>7. g # <<>> <=> Len(g) > 0
    BY <2>6, LengthIs
  <2>8. /\ d.buf = <<>> => got = g /\ off = Len(file)
        /\ d.buf # <<>> => got = d.buf /\ off = d.off
    OBVIOUS
  <2> HIDE DEF got, off, g
  <2>9. CASE got = <<>>
    <3>1. d.mode = "idle"
      BY <2>5, <2>8, <2>9
    <3>2. t1.mode = "idle" /\ t1.off = d.off
      BY <2>4, <2>5 DEF Stream
    <3>3. Place(t1) = Place(d)
      BY <3>1, <3>2 DEF Place
    <3>4. Peek(s, c) = Result(t1, file, Failed)
      BY <2>1, <2>9
    <3> QED
      BY <2>3, <3>3, <3>4 DEF Result, file
  <2>10. CASE got # <<>>
    <3>1. t2.mode = "get" /\ t2.off = off /\ t2.buf = got
      BY <2>4, <2>5 DEF Stream
    <3>2. Place(t2) = off - Len(got)
      BY <3>1 DEF Place
    <3>3. off - Len(got) = Place(d)
      <4>1. CASE d.buf = <<>>
        <5> DEFINE a == Len(g)
                   m == Len(file)
        <5>1. /\ a = (IF d.off <= m THEN m - d.off ELSE 0) /\ a > 0 /\ m \in Nat
              /\ off = m /\ Len(got) = a /\ d.mode = "idle"
          BY <2>5, <2>6, <2>7, <2>8, <2>10, <4>1
        <5> HIDE DEF a, m
        <5> QED
          BY <2>5, <5>1 DEF Place
      <4>2. CASE d.buf # <<>>
        BY <2>5, <2>8, <4>2 DEF Place
      <4> QED
        BY <4>1, <4>2
    <3>4. Peek(s, c) = Result(t2, file, got[1])
      BY <2>1, <2>10
    <3> QED
      BY <2>3, <3>2, <3>3, <3>4 DEF Result, file
  <2> QED
    BY <2>9, <2>10
<1> QED
  BY <1>1, <1>2, <1>3

LEMMA WriteMoves ==
  ASSUME NEW s, SoundStream(s), NEW c \in Contents, NEW b \in Contents, b # <<>>,
         NEW spill \in BOOLEAN, NEW older \in BOOLEAN
  PROVE  LET r == Write(s, c, b, spill, older)
             takes == Good(s) /\ s.wr
         IN
         /\ ~takes => r.data = c /\ Place(r.st) = Place(s)
         /\ takes => r.data \in {c, Synced(r.st, r.data)}
         /\ takes /\ s.app => Synced(r.st, r.data) = Synced(s, c) \o b
         /\ takes /\ ~s.app => Synced(r.st, r.data) = Overlay(Synced(s, c), Place(s), b)
         /\ takes /\ ~s.app => Place(r.st) = Place(s) + Len(b)
<1> DEFINE r == Write(s, c, b, spill, older)
<1>0. s \in Stream /\ s.off \in Nat /\ s.buf \in Contents /\ Len(s.buf) \in Nat /\ Len(b) \in Nat
  BY LengthIs DEF SoundStream, Stream
<1>1. CASE ~Good(s)
  <2> DEFINE f == s.fail \/ older
             e == s.eof
             t == [s EXCEPT !.fail = s.fail \/ older]
  <2>1. r = Result(t, c, ~t.fail)
    BY <1>1 DEF Write
  <2>2. f \in BOOLEAN /\ e \in BOOLEAN /\ t = [s EXCEPT !.fail = f, !.eof = e]
    BY <1>0 DEF Stream
  <2> HIDE DEF e, f, t, r
  <2>3. Place(t) = Place(s)
    BY <2>2, BitsStay
  <2>4. r.st = t /\ r.data = c
    BY <2>1 DEF Result
  <2> QED
    BY <1>1, <2>3, <2>4 DEF r
<1>2. CASE Good(s) /\ ~s.wr
  <2> DEFINE e == s.eof
             t == [s EXCEPT !.fail = TRUE]
  <2>1. r = Result(t, c, FALSE)
    BY <1>2 DEF Write
  <2>2. e \in BOOLEAN /\ t = [s EXCEPT !.fail = TRUE, !.eof = e]
    BY <1>0 DEF Stream
  <2> HIDE DEF e, t, r
  <2>3. Place(t) = Place(s)
    BY <2>2, BitsStay
  <2>4. r.st = t /\ r.data = c
    BY <2>1 DEF Result
  <2> QED
    BY <1>2, <2>3, <2>4 DEF r
<1>3. CASE Good(s) /\ s.wr
  <2> DEFINE o == IF s.mode = "get" THEN Tell(s) ELSE s.off
             w == IF s.mode = "put" THEN s.buf \o b ELSE b
             p == [s EXCEPT !.mode = "put", !.off = o, !.buf = w]
  <2>1. r = IF spill THEN Result(Drain(p, c), Synced(p, c), TRUE) ELSE Result(p, c, TRUE)
    BY <1>3 DEF Write
  <2>2. p = [s EXCEPT !.mode = "put", !.off = o, !.buf = w]
    OBVIOUS
  <2>3. Tell(s) = Place(s) /\ Place(s) \in Nat
    BY <1>3, PlaceIs DEF Good
  <2>4. /\ s.mode = "get" => o = Place(s)
        /\ s.mode = "put" => o = s.off /\ w = s.buf \o b
        /\ s.mode # "put" => w = b
        /\ s.mode = "idle" => o = Place(s)
    BY <2>3 DEF Place
  <2>5. s.mode \in {"idle", "get", "put"} /\ (s.mode = "put" => s.buf # <<>>)
    BY DEF SoundStream, Stream
  <2> HIDE DEF o, w, p, r
  <2>6. o \in Nat
    BY <1>0, <2>3, <2>4, <2>5
  <2>7. w \in Contents /\ w # <<>>
    <3>1. CASE s.mode = "put"
      <4>1. w \in Contents /\ Len(w) = Len(s.buf) + Len(b)
        BY <1>0, <2>4, <3>1, JoinIs
      <4>2. Len(b) > 0
        BY LengthIs
      <4> QED
        BY <1>0, <4>1, <4>2, LengthIs
    <3>2. CASE s.mode # "put"
      BY <2>4, <3>2
    <3> QED
      BY <3>1, <3>2
  <2>8. p = [open |-> s.open, rd |-> s.rd, wr |-> s.wr, app |-> s.app, mode |-> "put",
             off |-> o, buf |-> w, eof |-> s.eof, fail |-> s.fail]
    BY <1>0, <2>2 DEF Stream
  <2>9. SoundStream(p)
    BY <1>0, <2>6, <2>7, <2>8 DEF SoundStream, Stream
  <2>10. p.app = s.app /\ p.mode = "put" /\ p.off = o /\ p.buf = w
    BY <2>8
  <2> DEFINE S == Synced(p, c)
  <2>11. S = IF s.app THEN c \o w ELSE Overlay(c, o, w)
    BY <2>10 DEF Synced
  <2> HIDE DEF S
  <2>12. s.app => S = Synced(s, c) \o b
    <3>1. CASE s.app /\ s.mode = "put"
      <4>1. Synced(s, c) = c \o s.buf
        BY <3>1 DEF Synced
      <4> DEFINE a == s.buf
      <4>2. a \in Contents
        BY <1>0
      <4> HIDE DEF a
      <4>3. c \o (a \o b) = (c \o a) \o b
        BY ONLY <4>2, c \in Contents, b \in Contents, JoinJoined, Zenon
      <4> QED
        BY <2>4, <2>11, <3>1, <4>1, <4>3 DEF a
    <3>2. CASE s.app /\ s.mode # "put"
      <4>1. Synced(s, c) = c
        BY <3>2 DEF Synced
      <4> QED
        BY <2>4, <2>11, <3>2, <4>1
    <3> QED
      BY <3>1, <3>2
  <2>13. ~s.app => S = Overlay(Synced(s, c), Place(s), b)
    <3>1. CASE ~s.app /\ s.mode = "put"
      <4>1. Synced(s, c) = Overlay(c, s.off, s.buf) /\ Place(s) = s.off + Len(s.buf)
        BY <3>1 DEF Synced, Place
      <4>2. Overlay(Overlay(c, s.off, s.buf), s.off + Len(s.buf), b) = Overlay(c, s.off, s.buf \o b)
        <5>1. s.off \in Nat /\ s.buf \in Contents /\ s.buf # <<>>
          BY <1>0, <2>5, <3>1
        <5> QED
          BY <5>1, OverlayTwice, Zenon
      <4> QED
        BY <2>4, <2>11, <3>1, <4>1, <4>2
    <3>2. CASE ~s.app /\ s.mode # "put"
      <4>1. Synced(s, c) = c
        BY <3>2 DEF Synced
      <4> QED
        BY <2>4, <2>5, <2>11, <3>2, <4>1
    <3> QED
      BY <3>1, <3>2
  <2>14. Place(p) = o + Len(w)
    BY <2>10 DEF Place
  <2>15. o + Len(w) = Place(s) + Len(b)
    <3>1. CASE s.mode = "put"
      <4>1. Len(w) = Len(s.buf) + Len(b)
        BY <1>0, <2>4, <3>1, JoinIs
      <4>2. o = s.off /\ Place(s) = s.off + Len(s.buf)
        BY <2>4, <3>1 DEF Place
      <4> QED
        BY <1>0, <4>1, <4>2
    <3>2. CASE s.mode # "put"
      BY <2>4, <2>5, <3>2
    <3> QED
      BY <3>1, <3>2
  <2>16. CASE spill
    <3> DEFINE d == Drain(p, c)
    <3>1. r.st = d /\ r.data = S /\ r.val = TRUE
      BY <2>1, <2>16 DEF Result, S
    <3>2. ~s.app => Place(d) = Place(p)
      BY <2>9, <2>10, DrainStays
    <3>3. d.mode # "put"
      BY <2>9, DrainIs
    <3> HIDE DEF d
    <3>4. Synced(d, S) = S
      BY <3>3 DEF Synced
    <3> QED
      BY <1>3, <2>12, <2>13, <2>14, <2>15, <3>1, <3>2, <3>4 DEF r
  <2>17. CASE ~spill
    <3>1. r.st = p /\ r.data = c /\ r.val = TRUE
      BY <2>1, <2>17 DEF Result
    <3> QED
      BY <1>3, <2>12, <2>13, <2>14, <2>15, <3>1 DEF r, S
  <2> QED
    BY <2>16, <2>17
<1> QED
  BY <1>1, <1>2, <1>3

LEMMA FlushStays ==
  ASSUME NEW s, SoundStream(s), NEW c \in Contents, NEW older \in BOOLEAN
  PROVE  LET r == Flush(s, c, older) IN
         \/ r.data = c /\ r.st = s
         \/ r.data = Synced(s, c) /\ (~s.app => Place(r.st) = Place(s))
<1>1. CASE Good(s) \/ older
  BY <1>1, DrainStays DEF Flush, Result
<1>2. CASE ~(Good(s) \/ older)
  BY <1>2 DEF Flush, Result
<1> QED
  BY <1>1, <1>2

LEMMA SeekMoves ==
  ASSUME NEW s, SoundStream(s), NEW c \in Contents, NEW p \in Nat
  PROVE  LET r == Seek(s, c, p) IN
         \/ r.data = c /\ r.st = s
         \/ r.data = Synced(s, c) /\ Place(r.st) = p
<1>1. CASE s.fail
  BY <1>1 DEF Seek, Result
<1>2. CASE ~s.fail
  <2> DEFINE t == [s EXCEPT !.mode = "idle", !.buf = <<>>, !.off = p]
  <2>1. Seek(s, c, p) = Result(t, Synced(s, c), TRUE)
    BY <1>2 DEF Seek
  <2>2. s \in Stream
    BY DEF SoundStream
  <2>3. t.mode = "idle" /\ t.off = p
    BY <2>2 DEF Stream
  <2> HIDE DEF t
  <2>4. Place(t) = p
    BY <2>3 DEF Place
  <2> QED
    BY <2>1, <2>4 DEF Result
<1> QED
  BY <1>1, <1>2

LEMMA BehindIs ==
  ASSUME NEW c \in Contents, NEW b \in Contents
  PROVE  From(c \o b, Len(c)) = b
<1> DEFINE m == Len(c)
           l == Len(b)
           j == c \o b
           e == From(j, m)
<1>1. j \in Contents /\ Len(j) = m + l /\ m \in Nat /\ l \in Nat
  BY JoinIs, LengthIs
<1>2. \A k \in m + 1 .. m + l : j[k] = b[k - m]
  BY JoinIs
<1> HIDE DEF j
<1>3. e \in Contents /\ Len(e) = IF m <= Len(j) THEN Len(j) - m ELSE 0
  BY <1>1, FromIs
<1>4. \A k \in 1 .. Len(j) - m : e[k] = j[m + k]
  BY <1>1, FromIs
<1> HIDE DEF e, m, l
<1>5. Len(e) = l /\ Len(j) - m = l
  BY <1>1, <1>3
<1>6. ASSUME NEW k \in 1 .. l PROVE e[k] = b[k]
  <2>1. m + k \in m + 1 .. m + l /\ m + k - m = k
    BY <1>1
  <2>2. e[k] = j[m + k]
    BY <1>4, <1>5
  <2> DEFINE q == m + k
  <2>3. q \in m + 1 .. m + l /\ q - m = k
    BY <1>1
  <2> HIDE DEF q
  <2>4. j[q] = b[k]
    BY <1>2, <2>3
  <2> QED
    BY <2>2, <2>4 DEF q
<1>7. e = b
  BY <1>3, <1>5, <1>6, SameBytes DEF l
<1> QED
  BY <1>7 DEF e, j, m

LEMMA OverlayCut ==
  ASSUME NEW c \in Contents, NEW n \in Nat, NEW o \in Nat, NEW b \in Contents, b # <<>>
  PROVE  LET old == Overlay(c, o, b)
             new == Overlay(Resize(c, n), o, b)
         IN  /\ Len(new) \in n .. Longer(n, Len(old))
             /\ \A k \in 1 .. Len(new) :
                  new[k] = Resize(old, Len(new))[k] \/ (k > n /\ new[k] = Hole)
<1> DEFINE cut == Resize(c, n)
           old == Overlay(c, o, b)
           new == Overlay(cut, o, b)
           m   == Len(c)
           l   == Len(b)
           x   == Len(new)
           y   == Len(old)
           rs  == Resize(old, x)
<1>1. cut \in Contents /\ Len(cut) = n
  BY ResizeIs
<1>2. \A k \in 1 .. n : cut[k] = IF k <= m THEN c[k] ELSE Hole
  BY DEF Resize
<1> HIDE DEF cut
<1>3. m \in Nat /\ l \in Nat
  BY LengthIs
<1>4. old \in Contents /\ y = Longer(m, o + l)
  BY OverlayIs
<1>5. new \in Contents /\ x = Longer(n, o + l)
  <2>1. new \in Contents
    BY <1>1, OverlayIs
  <2>2. x = Longer(Len(cut), o + l)
    BY <1>1, OverlayIs
  <2> QED
    BY <1>1, <2>1, <2>2
<1>6. \A k \in 1 .. Longer(m, o + l) :
        old[k] = IF k > o /\ k <= o + l THEN b[k - o] ELSE IF k <= m THEN c[k] ELSE Hole
  BY OverlayIs
<1>7. \A k \in 1 .. Longer(Len(cut), o + l) :
        new[k] = IF k > o /\ k <= o + l THEN b[k - o] ELSE IF k <= Len(cut) THEN cut[k] ELSE Hole
  BY <1>1, OverlayIs
<1>8. \A k \in 1 .. x : rs[k] = IF k <= y THEN old[k] ELSE Hole
  BY DEF Resize
<1> HIDE DEF old, new, x, y, rs, m, l
<1>9. x \in Nat /\ y \in Nat
  BY <1>3, <1>4, <1>5 DEF Longer
<1>10. x \in n .. Longer(n, y)
  BY <1>3, <1>4, <1>5 DEF Longer
<1>11. ASSUME NEW k \in 1 .. x PROVE new[k] = rs[k] \/ (k > n /\ new[k] = Hole)
  <2>1. k \in Nat /\ k > 0 /\ k \in 1 .. Longer(Len(cut), o + l)
    BY <1>1, <1>5, <1>9
  <2>2. new[k] = IF k > o /\ k <= o + l THEN b[k - o] ELSE IF k <= n THEN cut[k] ELSE Hole
    BY <1>1, <1>7, <2>1
  <2>3. rs[k] = IF k <= y THEN old[k] ELSE Hole
    BY <1>8
  <2>4. k <= y => old[k] = IF k > o /\ k <= o + l THEN b[k - o] ELSE IF k <= m THEN c[k] ELSE Hole
    BY <1>4, <1>6, <1>9, <2>1
  <2>5. k <= n => cut[k] = IF k <= m THEN c[k] ELSE Hole
    BY <1>2, <2>1
  <2>6. CASE k > o /\ k <= o + l
    <3>1. k <= y
      BY <1>3, <1>4, <2>1, <2>6 DEF Longer
    <3> QED
      BY <2>2, <2>3, <2>4, <2>6, <3>1
  <2>7. CASE ~(k > o /\ k <= o + l) /\ k <= n
    <3>1. k <= m => k <= y
      BY <1>3, <1>4, <2>1 DEF Longer
    <3> QED
      BY <2>2, <2>3, <2>4, <2>5, <2>7, <3>1
  <2>8. CASE ~(k > o /\ k <= o + l) /\ ~(k <= n)
    <3>1. k > n
      BY <2>1, <2>8
    <3> QED
      BY <2>2, <2>8, <3>1
  <2> QED
    BY <2>6, <2>7, <2>8
<1> QED
  BY <1>10, <1>11 DEF x, y, rs, old, new, cut

\* A file cut below a stream: what the stream holds lands behind the cut, or at its
\* own offsets.
LEMMA CutIs ==
  ASSUME NEW s, SoundStream(s), NEW c \in Contents, NEW n \in Nat
  PROVE  LET cut == Resize(c, n)
             old == Synced(s, c)
             new == Synced(s, cut)
         IN  /\ s.app => new = cut \o From(old, Len(c))
             /\ ~s.app =>
                  /\ Len(new) \in n .. Longer(n, Len(old))
                  /\ \A k \in 1 .. Len(new) :
                       new[k] = Resize(old, Len(new))[k] \/ (k > n /\ new[k] = Hole)
<1> DEFINE cut == Resize(c, n)
           old == Synced(s, c)
           new == Synced(s, cut)
           b   == s.buf
           o   == s.off
<1>1. cut \in Contents /\ Len(cut) = n
  BY ResizeIs
<1>2. b \in Contents /\ o \in Nat /\ Len(c) \in Nat
  BY LengthIs DEF SoundStream, Stream
<1>3. CASE s.mode # "put"
  <2>1. old = c /\ new = cut
    BY <1>3 DEF Synced
  <2>2. cut \o From(c, Len(c)) = cut
    <3> DEFINE e == From(c, Len(c))
    <3>1. e \in Contents /\ Len(e) = 0
      BY <1>2, FromIs
    <3>2. e = <<>>
      BY <3>1, LengthIs
    <3> QED
      BY <1>1, <3>2, NothingFirst
  <2>3. n \in n .. Longer(n, Len(c))
    BY <1>2 DEF Longer
  <2> HIDE DEF old, new, cut
  <2>4. new = cut \o From(old, Len(c))
    BY <2>1, <2>2
  <2>5. Len(new) \in n .. Longer(n, Len(old))
    BY <1>1, <2>1, <2>3
  <2>6. \A k \in 1 .. Len(new) : new[k] = Resize(old, Len(new))[k]
    BY <1>1, <2>1 DEF cut
  <2> QED
    BY <2>4, <2>5, <2>6 DEF old, new, cut
<1>4. CASE s.mode = "put" /\ s.app
  <2>1. old = c \o b /\ new = cut \o b
    BY <1>4 DEF Synced
  <2>2. From(c \o b, Len(c)) = b
    BY <1>2, BehindIs
  <2> HIDE DEF old, new, cut
  <2>3. new = cut \o From(old, Len(c))
    BY <2>1, <2>2
  <2> QED
    BY <1>4, <2>3 DEF old, new, cut
<1>5. CASE s.mode = "put" /\ ~s.app
  <2>1. old = Overlay(c, o, b) /\ new = Overlay(cut, o, b)
    BY <1>5 DEF Synced
  <2>2. b # <<>>
    BY <1>5 DEF SoundStream
  <2> HIDE DEF old, new, b, o
  <2>3. Len(new) \in n .. Longer(n, Len(old))
    BY <1>2, <2>1, <2>2, OverlayCut
  <2>4. \A k \in 1 .. Len(new) :
          new[k] = Resize(old, Len(new))[k] \/ (k > n /\ new[k] = Hole)
    BY <1>2, <2>1, <2>2, OverlayCut
  <2> QED
    BY <1>5, <2>3, <2>4 DEF old, new
<1> QED
  BY <1>3, <1>4, <1>5

-----------------------------------------------------------------------------
(***************************************************************************)
(* The refinement mapping, as operators of the objects, the files, the     *)
(* folder and the history, so that it can be read before and after a step  *)
(***************************************************************************)
UsingOf(im) == {i \in Impl : im[i].st.open}
UserOf(im)  == im[CHOOSE i \in UsingOf(im) : TRUE]
PhaseOf(im, kl) == IF UsingOf(im) # {} THEN "open" ELSE IF kl THEN "killed" ELSE "closed"
AppendingOf(im) == UsingOf(im) # {} /\ UserOf(im).st.app
NamedOf(names)  == names[TheFile] # Null
ContentOf(im, dk, names) ==
  IF UsingOf(im) # {} THEN Synced(UserOf(im).st, dk[UserOf(im).ino])
  ELSE IF NamedOf(names) THEN dk[names[TheFile]] ELSE <<>>
StableOf(im, dk, names) ==
  IF UsingOf(im) # {} THEN dk[UserOf(im).ino]
  ELSE IF NamedOf(names) THEN dk[names[TheFile]] ELSE <<>>
CursorOf(im) ==
  IF UsingOf(im) = {} \/ UserOf(im).st.app THEN 0 ELSE Tell([UserOf(im).st EXCEPT !.fail = FALSE])

\* What ByteFile is shown
Shows(im, dk, names, kl, ph, ap, nm, ct, sb, cr) ==
  /\ PhaseOf(im, kl) = ph /\ (AppendingOf(im) <=> ap) /\ (NamedOf(names) <=> nm)
  /\ ContentOf(im, dk, names) = ct /\ StableOf(im, dk, names) = sb /\ CursorOf(im) = cr

Now(ph, ap, nm, ct, sb, cr)  == Shows(impl, disk, inode, killed, ph, ap, nm, ct, sb, cr)
Next1(ph, ap, nm, ct, sb, cr) == Shows(impl', disk', inode', killed', ph, ap, nm, ct, sb, cr)

LEMMA ShownOpen ==
  ASSUME NEW im, NEW dk, NEW names, NEW kl, NEW i \in Impl, im[i].st.open,
         \A j \in Impl : im[j].st.open => j = i, SoundStream(im[i].st)
  PROVE  Shows(im, dk, names, kl, "open", im[i].st.app, names[TheFile] # Null,
               Synced(im[i].st, dk[im[i].ino]), dk[im[i].ino],
               IF im[i].st.app THEN 0 ELSE Place(im[i].st))
<1>1. UsingOf(im) = {i}
  BY DEF UsingOf
<1>2. UserOf(im) = im[i] /\ UsingOf(im) # {}
  BY <1>1 DEF UserOf
<1>3. Tell([im[i].st EXCEPT !.fail = FALSE]) = Place(im[i].st)
  BY PlaceIs
<1> QED
  BY <1>2, <1>3 DEF Shows, PhaseOf, AppendingOf, NamedOf, ContentOf, StableOf, CursorOf

LEMMA ShownClosed ==
  ASSUME NEW im, NEW dk, NEW names, NEW kl, \A j \in Impl : ~im[j].st.open
  PROVE  Shows(im, dk, names, kl, IF kl THEN "killed" ELSE "closed", FALSE, names[TheFile] # Null,
               IF names[TheFile] # Null THEN dk[names[TheFile]] ELSE <<>>,
               IF names[TheFile] # Null THEN dk[names[TheFile]] ELSE <<>>, 0)
<1>1. UsingOf(im) = {}
  BY DEF UsingOf
<1> QED
  BY <1>1 DEF Shows, PhaseOf, AppendingOf, NamedOf, ContentOf, StableOf, CursorOf

LEMMA MapsStutter ==
  ASSUME NEW ph, NEW ap, NEW nm, NEW ct, NEW sb, NEW cr,
         Now(ph, ap, nm, ct, sb, cr), Next1(ph, ap, nm, ct, sb, cr)
  PROVE  UNCHANGED Promise!vars
  BY DEF Now, Next1, Shows, Promise!vars, PhaseOf, AppendingOf, NamedOf, ContentOf, StableOf,
         CursorOf, UsingOf, UserOf, Using, User, Named

LEMMA MapsOpen ==
  ASSUME NEW ph, NEW ap, NEW nm, NEW ct, NEW ap2, NEW ct2, NEW sb, NEW cr,
         Now(ph, ap, nm, ct, sb, cr), ph # "open",
         Next1("open", ap2, TRUE, ct2, ct2, 0), ct2 \in {ct, <<>>}
  PROVE  Promise!Next
  BY DEF Now, Next1, Shows, Promise!Next, Promise!Open, PhaseOf, AppendingOf, NamedOf, ContentOf,
         StableOf, CursorOf, UsingOf, UserOf, Using, User, Named

\* The bytes are the same on both sides.
LEMMA SameOperators ==
  /\ \A c, p, b : Promise!Overlay(c, p, b) = Overlay(c, p, b)
  /\ \A c, n : Promise!Resize(c, n) = Resize(c, n)
  /\ \A c, p : Promise!From(c, p) = From(c, p)
  /\ \A m, n : Promise!Longer(m, n) = Longer(m, n)
  /\ Promise!Hole = Hole
<1>1. \A m, n : Promise!Longer(m, n) = Longer(m, n)
  BY DEF Promise!Longer, Longer
<1>2. Promise!Hole = Hole
  BY DEF Promise!Hole, Hole
<1>3. \A c, n : Promise!Resize(c, n) = Resize(c, n)
  BY <1>2 DEF Promise!Resize, Resize
<1>4. \A c, p : Promise!From(c, p) = From(c, p)
  BY DEF Promise!From, From
<1>5. \A c, p, b : Promise!Overlay(c, p, b) = Overlay(c, p, b)
  BY ZenonT(60), <1>1, <1>2 DEF Promise!Overlay, Overlay
<1> QED
  BY <1>1, <1>2, <1>3, <1>4, <1>5

LEMMA MapsWrite ==
  ASSUME NEW ap \in BOOLEAN, NEW nm, NEW ct, NEW sb, NEW cr, NEW ct2, NEW sb2, NEW cr2, NEW b \in Data,
         Now("open", ap, nm, ct, sb, cr), Next1("open", ap, nm, ct2, sb2, cr2),
         ct2 = IF ap THEN ct \o b ELSE Overlay(ct, cr, b),
         cr2 = IF ap THEN 0 ELSE cr + Len(b), sb2 \in {sb, ct2}
  PROVE  Promise!Next
<1> DEFINE phase == IF Using # {} THEN "open" ELSE IF killed THEN "killed" ELSE "closed"
           appending == Using # {} /\ User.st.app
           content == IF Using # {} THEN Synced(User.st, disk[User.ino])
                      ELSE IF Named THEN disk[inode[TheFile]] ELSE <<>>
           stable == IF Using # {} THEN disk[User.ino]
                     ELSE IF Named THEN disk[inode[TheFile]] ELSE <<>>
           cursor == IF Using = {} \/ User.st.app THEN 0 ELSE Tell([User.st EXCEPT !.fail = FALSE])
<1>1. /\ phase = "open" /\ (appending <=> ap) /\ (Named <=> nm)
      /\ content = ct /\ stable = sb /\ cursor = cr
  BY DEF Now, Shows, PhaseOf, AppendingOf, NamedOf, ContentOf,
       StableOf, CursorOf, UsingOf, UserOf, Using, User, Named
<1>2. /\ phase' = "open" /\ (appending' <=> ap) /\ (Named' <=> nm)
      /\ content' = ct2 /\ stable' = sb2 /\ cursor' = cr2
  BY DEF Next1, Shows, PhaseOf, AppendingOf, NamedOf, ContentOf,
       StableOf, CursorOf, UsingOf, UserOf, Using, User, Named
<1>3. Promise!Write
        <=> /\ phase = "open"
            /\ \E e \in Data :
                 /\ content' = IF appending THEN content \o e ELSE Overlay(content, cursor, e)
                 /\ cursor' = IF appending THEN 0 ELSE cursor + Len(e)
            /\ stable' \in {stable, content'}
            /\ phase' = phase /\ appending' = appending /\ Named' = Named
  BY SameOperators DEF Promise!Write
<1>4. appending' = appending /\ Named' = Named
  BY <1>1, <1>2 DEF Named
<1> HIDE DEF phase, appending, content, stable, cursor
<1>5. /\ content' = IF appending THEN content \o b ELSE Overlay(content, cursor, b)
      /\ cursor' = IF appending THEN 0 ELSE cursor + Len(b)
  BY <1>1, <1>2
<1>6. Promise!Write
  BY <1>1, <1>2, <1>3, <1>4, <1>5
<1> QED
  BY <1>6 DEF Promise!Next

LEMMA MapsRead ==
  ASSUME NEW ap \in BOOLEAN, NEW nm, NEW ct, NEW sb, NEW cr, NEW sb2, NEW cr2,
         Now("open", ap, nm, ct, sb, cr), Next1("open", ap, nm, ct, sb2, cr2),
         cr2 \in cr .. (cr + MaxLen), ap => cr2 = 0, sb2 \in {sb, ct}
  PROVE  Promise!Next
  BY DEF Now, Next1, Shows, Promise!Next, Promise!Read, PhaseOf, AppendingOf, NamedOf, ContentOf,
         StableOf, CursorOf, UsingOf, UserOf, Using, User, Named

LEMMA MapsSeek ==
  ASSUME NEW ap \in BOOLEAN, NEW nm, NEW ct, NEW sb, NEW cr, NEW cr2,
         Now("open", ap, nm, ct, sb, cr), Next1("open", ap, nm, ct, ct, cr2),
         cr2 \in IF ap THEN {0} ELSE Offsets
  PROVE  Promise!Next
  BY DEF Now, Next1, Shows, Promise!Next, Promise!Seek, PhaseOf, AppendingOf, NamedOf, ContentOf,
         StableOf, CursorOf, UsingOf, UserOf, Using, User, Named

LEMMA MapsFlush ==
  ASSUME NEW ap \in BOOLEAN, NEW nm, NEW ct, NEW sb, NEW cr,
         Now("open", ap, nm, ct, sb, cr), Next1("open", ap, nm, ct, ct, cr)
  PROVE  Promise!Next
  BY DEF Now, Next1, Shows, Promise!Next, Promise!Flush, PhaseOf, AppendingOf, NamedOf, ContentOf,
         StableOf, CursorOf, UsingOf, UserOf, Using, User, Named

LEMMA MapsTruncate ==
  ASSUME NEW n \in Offsets, NEW ph, NEW ap \in BOOLEAN, NEW ct, NEW sb, NEW cr, NEW ct2,
         Now(ph, ap, TRUE, ct, sb, cr), Next1(ph, ap, TRUE, ct2, Resize(sb, n), cr),
         ph # "open" => ct2 = Resize(sb, n),
         ph = "open" /\ ap => ct2 = Resize(sb, n) \o From(ct, Len(sb)),
         ph = "open" /\ ~ap =>
           /\ Len(ct2) \in n .. Longer(n, Len(ct))
           /\ \A k \in 1 .. Len(ct2) :
                ct2[k] = Resize(ct, Len(ct2))[k] \/ (k > n /\ ct2[k] = Hole)
  PROVE  Promise!Next
<1> DEFINE phase == IF Using # {} THEN "open" ELSE IF killed THEN "killed" ELSE "closed"
           appending == Using # {} /\ User.st.app
           content == IF Using # {} THEN Synced(User.st, disk[User.ino])
                      ELSE IF Named THEN disk[inode[TheFile]] ELSE <<>>
           stable == IF Using # {} THEN disk[User.ino]
                     ELSE IF Named THEN disk[inode[TheFile]] ELSE <<>>
           cursor == IF Using = {} \/ User.st.app THEN 0 ELSE Tell([User.st EXCEPT !.fail = FALSE])
<1>1. /\ phase = ph /\ (appending <=> ap) /\ (Named <=> TRUE)
      /\ content = ct /\ stable = sb /\ cursor = cr
  BY DEF Now, Shows, PhaseOf, AppendingOf, NamedOf, ContentOf,
       StableOf, CursorOf, UsingOf, UserOf, Using, User, Named
<1>2. /\ phase' = ph /\ (appending' <=> ap) /\ (Named' <=> TRUE)
      /\ content' = ct2 /\ stable' = Resize(sb, n) /\ cursor' = cr
  BY DEF Next1, Shows, PhaseOf, AppendingOf, NamedOf, ContentOf,
       StableOf, CursorOf, UsingOf, UserOf, Using, User, Named
<1>3. Promise!Truncate(n)
        <=> /\ Named
            /\ stable' = Resize(stable, n)
            /\ IF phase # "open" THEN content' = stable'
               ELSE IF appending THEN content' = stable' \o From(content, Len(stable))
               ELSE /\ Len(content') \in n..Longer(n, Len(content))
                    /\ \A k \in 1..Len(content') :
                         \/ content'[k] = Resize(content, Len(content'))[k]
                         \/ k > n /\ content'[k] = Hole
            /\ phase' = phase /\ appending' = appending /\ Named' = Named /\ cursor' = cursor
  BY SameOperators DEF Promise!Truncate
<1>4. appending' = appending /\ Named' = Named
  BY <1>1, <1>2 DEF Named
<1> HIDE DEF phase, appending, content, stable, cursor
<1>5. IF phase # "open" THEN content' = stable'
      ELSE IF appending THEN content' = stable' \o From(content, Len(stable))
      ELSE /\ Len(content') \in n..Longer(n, Len(content))
           /\ \A k \in 1..Len(content') :
                \/ content'[k] = Resize(content, Len(content'))[k]
                \/ k > n /\ content'[k] = Hole
  <2>1. CASE ph # "open"
    BY <1>1, <1>2, <2>1
  <2>2. CASE ph = "open" /\ ap
    BY <1>1, <1>2, <2>2
  <2>3. CASE ph = "open" /\ ~ap
    BY <1>1, <1>2, <2>3
  <2> QED
    BY <2>1, <2>2, <2>3
<1>6. Promise!Truncate(n)
  BY <1>1, <1>2, <1>3, <1>4, <1>5
<1> QED
  BY <1>6 DEF Promise!Next

LEMMA MapsClose ==
  ASSUME NEW ap \in BOOLEAN, NEW nm \in BOOLEAN, NEW ct, NEW sb, NEW cr,
         Now("open", ap, nm, ct, sb, cr),
         Next1("closed", FALSE, nm, IF nm THEN ct ELSE <<>>, IF nm THEN ct ELSE <<>>, 0)
  PROVE  Promise!Next
  BY DEF Now, Next1, Shows, Promise!Next, Promise!Close, PhaseOf, AppendingOf, NamedOf, ContentOf,
         StableOf, CursorOf, UsingOf, UserOf, Using, User, Named

LEMMA MapsRemove ==
  ASSUME NEW ph, NEW ap \in BOOLEAN, NEW ct, NEW sb, NEW cr,
         Now(ph, ap, TRUE, ct, sb, cr),
         Next1(ph, ap, FALSE, IF ph = "open" THEN ct ELSE <<>>, IF ph = "open" THEN sb ELSE <<>>, cr)
  PROVE  Promise!Next
  BY DEF Now, Next1, Shows, Promise!Next, Promise!Remove, PhaseOf, AppendingOf, NamedOf, ContentOf,
         StableOf, CursorOf, UsingOf, UserOf, Using, User, Named

LEMMA MapsCrash ==
  ASSUME NEW ap \in BOOLEAN, NEW nm \in BOOLEAN, NEW ct, NEW sb, NEW cr,
         Now("open", ap, nm, ct, sb, cr),
         Next1("killed", FALSE, nm, IF nm THEN sb ELSE <<>>, IF nm THEN sb ELSE <<>>, 0)
  PROVE  Promise!Next
  BY DEF Now, Next1, Shows, Promise!Next, Promise!Crash, PhaseOf, AppendingOf, NamedOf, ContentOf,
         StableOf, CursorOf, UsingOf, UserOf, Using, User, Named

LEMMA MapsInit ==
  ASSUME Now("closed", FALSE, FALSE, <<>>, <<>>, 0)
  PROVE  Promise!Init
  BY DEF Now, Shows, Promise!Init, PhaseOf, AppendingOf, NamedOf, ContentOf,
         StableOf, CursorOf, UsingOf, UserOf, Using, User, Named

-----------------------------------------------------------------------------
(***************************************************************************)
(* The invariant: a program with one File has at most one object, over the *)
(* file of the one name as long as the folder has it, and it was not       *)
(* killed since it opened it.                                              *)
(***************************************************************************)
OneUser == (\E h : Handle = {h}) /\ (\E p : Path = {p}) /\ ~MayReassign

Linked(im, names, kl) ==
  /\ \A i \in Impl : im[i].live => im[i].path = TheFile
  /\ \A i \in Impl : im[i].st.open => ~kl
  /\ \A i \in Impl : im[i].st.open /\ names[TheFile] # Null => names[TheFile] = im[i].ino

SInv == IInv /\ Linked(impl, inode, killed)

LEMMA OneObject ==
  ASSUME NEW h, Handle = {h}, IInv
  PROVE  /\ \A j \in Impl : impl[j].live => handle[h] = j
         /\ \A j \in Impl : impl[j].st.open => impl[j].live /\ handle[h] = j
<1>1. \A j \in Impl : impl[j].live => handle[h] = j
  BY InvariantIs
<1>2. \A j \in Impl : impl[j].st.open => impl[j].live
  BY InvariantIs DEF Objects
<1> QED
  BY <1>1, <1>2

LEMMA OneNext ==
  ASSUME NEW h, Handle = {h}, IInv'
  PROVE  \A j \in Impl : impl'[j].st.open => handle'[h] = j /\ SoundStream(impl'[j].st)
<1>1. \A j \in Impl : impl'[j].live => \E g \in Handle : handle'[g] = j
  BY DEF IInv
<1>2. \A j \in Impl : impl'[j].st.open => impl'[j].live /\ SoundStream(impl'[j].st)
  BY DEF IInv, Sane, Objects
<1> QED
  BY <1>1, <1>2

\* What ByteFile is shown while object i is open
LEMMA NowOpen ==
  ASSUME NEW h, Handle = {h}, IInv, NEW i \in Impl, impl[i].st.open
  PROVE  Now("open", impl[i].st.app, inode[TheFile] # Null,
             Synced(impl[i].st, disk[impl[i].ino]), disk[impl[i].ino],
             IF impl[i].st.app THEN 0 ELSE Place(impl[i].st))
<1>1. \A j \in Impl : impl[j].st.open => j = i
  BY OneObject
<1>2. SoundStream(impl[i].st)
  BY ObjectIs
<1> QED
  BY <1>1, <1>2, ShownOpen DEF Now

LEMMA NextOpen ==
  ASSUME NEW h, Handle = {h}, IInv', NEW i \in Impl, impl'[i].st.open
  PROVE  Next1("open", impl'[i].st.app, inode'[TheFile] # Null,
               Synced(impl'[i].st, disk'[impl'[i].ino]), disk'[impl'[i].ino],
               IF impl'[i].st.app THEN 0 ELSE Place(impl'[i].st))
<1>1. \A j \in Impl : impl'[j].st.open => j = i
  BY OneNext
<1>2. SoundStream(impl'[i].st)
  BY OneNext
<1> QED
  BY <1>1, <1>2, ShownOpen DEF Next1

\* and while none is
NamedBytes(dk, names) == IF names[TheFile] # Null THEN dk[names[TheFile]] ELSE <<>>

LEMMA NowClosed ==
  ASSUME \A j \in Impl : ~impl[j].st.open
  PROVE  Now(IF killed THEN "killed" ELSE "closed", FALSE, inode[TheFile] # Null,
             NamedBytes(disk, inode), NamedBytes(disk, inode), 0)
  BY ShownClosed DEF Now, NamedBytes

LEMMA NextClosed ==
  ASSUME \A j \in Impl : ~impl'[j].st.open
  PROVE  Next1(IF killed' THEN "killed" ELSE "closed", FALSE, inode'[TheFile] # Null,
               NamedBytes(disk', inode'), NamedBytes(disk', inode'), 0)
  BY ShownClosed DEF Next1, NamedBytes

\* What ByteFile is not shown does not matter to it.
LEMMA SameClosed ==
  ASSUME \A j \in Impl : ~impl[j].st.open, \A j \in Impl : ~impl'[j].st.open,
         inode' = inode, killed' <=> killed,
         inode[TheFile] # Null => disk'[inode[TheFile]] = disk[inode[TheFile]]
  PROVE  UNCHANGED Promise!vars
<1>1. NamedBytes(disk', inode') = NamedBytes(disk, inode)
  BY DEF NamedBytes
<1> DEFINE a == IF killed THEN "killed" ELSE "closed"
           b == IF killed' THEN "killed" ELSE "closed"
           c == NamedBytes(disk, inode)
           e == NamedBytes(disk', inode')
           m == inode[TheFile] # Null
           q == inode'[TheFile] # Null
<1>2. a = b /\ c = e /\ (m <=> q) /\ q \in BOOLEAN /\ m \in BOOLEAN
  BY <1>1
<1>3. Now(a, FALSE, m, c, c, 0)
  BY NowClosed
<1>4. Next1(b, FALSE, q, e, e, 0)
  BY NextClosed
<1> HIDE DEF a, b, c, e, m, q
<1>5. Next1(a, FALSE, m, c, c, 0)
  BY <1>2, <1>4
<1> QED
  BY <1>3, <1>5, MapsStutter

-----------------------------------------------------------------------------
(***************************************************************************)
(* Calls on the stream                                                     *)
(***************************************************************************)
LEMMA Touches ==
  ASSUME NEW h, Handle = {h}, SInv, NEW i \in Impl, handle[h] = i, NEW r, NEW size,
         Proper(i, r, size), Touch(i, r, size)
  PROVE  /\ Linked(impl', inode', killed')
         /\ ~impl[i].st.open => UNCHANGED Promise!vars
         /\ impl[i].st.open =>
              /\ Now("open", impl[i].st.app, inode[TheFile] # Null,
                     Synced(impl[i].st, Content(i)), Content(i),
                     IF impl[i].st.app THEN 0 ELSE Place(impl[i].st))
              /\ Next1("open", impl[i].st.app, inode[TheFile] # Null,
                       Synced(r.st, r.data), r.data,
                       IF impl[i].st.app THEN 0 ELSE Place(r.st))
<1> DEFINE s == impl[i].st
           n == impl[i].ino
<1>1. IInv /\ Linked(impl, inode, killed)
  BY DEF SInv
<1>2. IInv'
  BY <1>1, TouchSane
<1>3. /\ impl' = [impl EXCEPT ![i].st = r.st, ![i].size = size]
      /\ disk' = IF n = Null THEN disk ELSE [disk EXCEPT ![n] = r.data]
      /\ inode' = inode /\ killed' = killed
  BY DEF Touch
<1>4. /\ impl \in [Impl -> Object] /\ Objects(impl) /\ disk \in [Inode -> Contents]
      /\ n \in Inode \cup {Null}
      /\ inode \in [Path -> Inode \cup {Null}]
  <2>1. impl[i] \in Object
    BY <1>1, ObjectIs
  <2> QED
    BY <1>1, <2>1, InvariantIs DEF Object
<1>5. r.st.open = s.open /\ r.st.app = s.app /\ (s.open \/ r.data = Content(i))
  BY DEF Proper, Alike
<1>6. /\ impl'[i].st = r.st /\ impl'[i].ino = n /\ impl'[i].path = impl[i].path
      /\ impl'[i].live = impl[i].live
      /\ \A j \in Impl : j # i => impl'[j] = impl[j]
  BY <1>3, <1>4 DEF Object
<1>7. \A j \in Impl : impl[j].st.open => j = i
  BY <1>1, OneObject
<1>8. Linked(impl', inode', killed')
  BY ZenonT(60), <1>1, <1>3, <1>5, <1>6 DEF Linked
<1>9. ASSUME ~s.open PROVE UNCHANGED Promise!vars
  <2>1. \A j \in Impl : ~impl[j].st.open
    BY <1>7, <1>9
  <2>2. \A j \in Impl : ~impl'[j].st.open
    BY <1>5, <1>6, <1>9, <2>1
  <2>3. \A m \in Inode : disk'[m] = disk[m]
    <3>1. CASE n = Null
      BY <1>3, <3>1
    <3>2. CASE n # Null
      <4>1. r.data = disk[n]
        BY <1>5, <1>9, <3>2 DEF Content
      <4> QED
        BY <1>3, <1>4, <3>2, <4>1
    <3> QED
      BY <3>1, <3>2
  <2>4. inode[TheFile] # Null => disk'[inode[TheFile]] = disk[inode[TheFile]]
    <3>1. CASE inode[TheFile] \in Inode
      BY <2>3, <3>1
    <3>2. CASE inode[TheFile] \notin Inode
      <4>1. CASE n = Null
        BY <1>3, <4>1
      <4>2. CASE n # Null
        <5>1. n \in Inode /\ inode[TheFile] # n
          BY <1>4, <3>2, <4>2
        <5> QED
          BY <1>3, <1>4, <3>2, <5>1, <4>2
      <4> QED
        BY <4>1, <4>2
    <3> QED
      BY <3>1, <3>2
  <2> QED
    BY <1>3, <2>1, <2>2, <2>4, SameClosed
<1>10. ASSUME s.open
       PROVE  /\ Now("open", s.app, inode[TheFile] # Null, Synced(s, Content(i)), Content(i),
                     IF s.app THEN 0 ELSE Place(s))
              /\ Next1("open", s.app, inode[TheFile] # Null, Synced(r.st, r.data), r.data,
                       IF s.app THEN 0 ELSE Place(r.st))
  <2>1. n \in Inode /\ n # Null /\ Content(i) = disk[n]
    <3>1. n \in Inode
      BY <1>1, <1>10, InvariantIs DEF Objects
    <3> QED
      BY <3>1, NullAssumption DEF Content
  <2>2. disk'[n] = r.data
    BY <1>3, <1>4, <2>1
  <2>3. Now("open", s.app, inode[TheFile] # Null, Synced(s, disk[n]), disk[n],
            IF s.app THEN 0 ELSE Place(s))
    BY <1>1, <1>10, NowOpen
  <2>4. Next1("open", impl'[i].st.app, inode'[TheFile] # Null,
              Synced(impl'[i].st, disk'[impl'[i].ino]), disk'[impl'[i].ino],
              IF impl'[i].st.app THEN 0 ELSE Place(impl'[i].st))
    <3>1. impl'[i].st.open
      BY <1>5, <1>6, <1>10
    <3> QED
      BY <1>2, <3>1, NextOpen
  <2>5. Next1("open", s.app, inode[TheFile] # Null, Synced(r.st, r.data), r.data,
              IF s.app THEN 0 ELSE Place(r.st))
    BY <1>3, <1>5, <1>6, <2>2, <2>4
  <2> QED
    BY <2>1, <2>3, <2>5
<1> QED
  BY <1>8, <1>9, <1>10

LEMMA WriteMaps ==
  ASSUME NEW h, Handle = {h}, SInv, NEW i \in Impl, handle[h] = i, NEW b \in Data,
         NEW spill \in BOOLEAN, NEW older \in BOOLEAN, WriteBuf(h, b, spill, older)
  PROVE  Linked(impl', inode', killed') /\ (Promise!Next \/ UNCHANGED Promise!vars)
<1> DEFINE s    == impl[i].st
           c    == Content(i)
           r    == Write(s, c, b, spill, older)
           size == IF r.val /\ Tell(r.st) > impl[i].size THEN Tell(r.st) ELSE impl[i].size
           takes == Good(s) /\ s.wr
           nm   == inode[TheFile] # Null
           ct   == Synced(s, c)
           ct2  == Synced(r.st, r.data)
           cr   == IF s.app THEN 0 ELSE Place(s)
           cr2  == IF s.app THEN 0 ELSE Place(r.st)
<1>1. IInv /\ s.open /\ Touch(i, r, size)
  BY DEF WriteBuf, SInv
<1>2. Proper(i, r, size)
  BY <1>1, WriteIsProper
<1>3. SoundStream(s) /\ c \in Contents /\ s.app \in BOOLEAN
  BY <1>1, ObjectIs DEF SoundStream, Stream
<1>4. b \in Contents /\ b # <<>>
  BY DataAssumption DEF Contents
<1>5. /\ ~takes => r.data = c /\ Place(r.st) = Place(s)
      /\ takes => r.data \in {c, ct2}
      /\ takes /\ s.app => ct2 = ct \o b
      /\ takes /\ ~s.app => ct2 = Overlay(ct, Place(s), b)
      /\ takes /\ ~s.app => Place(r.st) = Place(s) + Len(b)
  BY SMTT(30), <1>3, <1>4, WriteMoves
<1>6. ~takes => ct2 = ct
  <2>1. Good(s) /\ ~s.wr => ~r.val
    BY DEF Write, Result
  <2> QED
    BY <1>3, <1>4, <2>1, WriteIs
<1> HIDE DEF r, size, takes
<1>7. Linked(impl', inode', killed')
  BY <1>1, <1>2, Touches
<1>8. Now("open", s.app, nm, ct, c, cr) /\ Next1("open", s.app, nm, ct2, r.data, cr2)
  BY <1>1, <1>2, Touches
<1>9. CASE ~takes
  <2>1. ct2 = ct /\ r.data = c /\ cr2 = cr
    BY <1>5, <1>6, <1>9
  <2> HIDE DEF s, c, nm, ct, ct2, cr, cr2
  <2>2. Next1("open", s.app, nm, ct, c, cr)
    BY <1>8, <2>1
  <2> QED
    BY <1>7, <1>8, <2>2, MapsStutter
<1>10. CASE takes
  <2>1. ct2 = IF s.app THEN ct \o b ELSE Overlay(ct, cr, b)
    BY <1>3, <1>5, <1>10
  <2>2. cr2 = IF s.app THEN 0 ELSE cr + Len(b)
    BY <1>3, <1>5, <1>10
  <2>3. r.data \in {c, ct2}
    BY <1>5, <1>10
  <2> HIDE DEF s, c, nm, ct, ct2, cr, cr2
  <2>4. Promise!Next
    BY <1>3, <1>8, <2>1, <2>2, <2>3, MapsWrite
  <2> QED
    BY <1>7, <2>4
<1> QED
  BY <1>9, <1>10

\* A read or a peek: the place moves by at most MaxLen, and what was written may be drained.
LEMMA FetchMaps ==
  ASSUME NEW h, Handle = {h}, SInv, NEW i \in Impl, handle[h] = i, NEW r,
         Touch(i, r, impl[i].size), Settles(impl[i].st, Content(i), r),
         impl[i].st.open \/ r.data = Content(i),
         r.data \in {Content(i), Synced(impl[i].st, Content(i))},
         ~impl[i].st.app => Place(r.st) \in Place(impl[i].st) .. Place(impl[i].st) + MaxLen
  PROVE  Linked(impl', inode', killed') /\ (Promise!Next \/ UNCHANGED Promise!vars)
<1> DEFINE s    == impl[i].st
           c    == Content(i)
           size == impl[i].size
           nm   == inode[TheFile] # Null
           ct   == Synced(s, c)
           ct2  == Synced(r.st, r.data)
           cr   == IF s.app THEN 0 ELSE Place(s)
           cr2  == IF s.app THEN 0 ELSE Place(r.st)
<1>1. IInv
  BY DEF SInv
<1>2. Proper(i, r, size)
  BY <1>1, SettledIsProper
<1>3. SoundStream(s) /\ s.app \in BOOLEAN
  BY <1>1, ObjectIs DEF SoundStream, Stream
<1>4. ct2 = ct
  BY DEF Settles
<1>5. Linked(impl', inode', killed') /\ (~s.open => UNCHANGED Promise!vars)
  BY <1>2, Touches
<1>6. CASE s.open
  <2>1. Now("open", s.app, nm, ct, c, cr) /\ Next1("open", s.app, nm, ct2, r.data, cr2)
    BY <1>2, <1>6, Touches
  <2>2. cr2 \in cr .. (cr + MaxLen) /\ (s.app => cr2 = 0)
    BY <1>3, LenAssumption
  <2>3. r.data \in {c, ct}
    OBVIOUS
  <2> HIDE DEF s, c, nm, ct, ct2, cr, cr2
  <2>4. Next1("open", s.app, nm, ct, r.data, cr2)
    BY <1>4, <2>1
  <2>5. Promise!Next
    BY <1>3, <2>1, <2>2, <2>3, <2>4, MapsRead
  <2> QED
    BY <1>5, <2>5
<1> QED
  BY <1>5, <1>6

LEMMA ReadMaps ==
  ASSUME NEW h, Handle = {h}, SInv, NEW i \in Impl, handle[h] = i, NEW n \in 1 .. MaxLen,
         Touch(i, Read(impl[i].st, Content(i), n), impl[i].size)
  PROVE  Linked(impl', inode', killed') /\ (Promise!Next \/ UNCHANGED Promise!vars)
<1> DEFINE s == impl[i].st
           c == Content(i)
           r == Read(s, c, n)
<1>1. SoundStream(s) /\ c \in Contents /\ n \in Nat \ {0} /\ n <= MaxLen /\ MaxLen \in Nat
  BY ObjectIs, LenAssumption DEF SInv
<1>2. Settles(s, c, r)
  BY <1>1, ReadSettles
<1>3. r.data \in {c, Synced(s, c)} /\ (~s.app => Place(r.st) \in Place(s) .. Place(s) + n)
  BY <1>1, ReadMoves
<1>4. s.open \/ r.data = c
  BY DEF Read, Result
<1>5. Place(s) \in Nat
  BY <1>1, PlaceIs
<1> HIDE DEF r
<1> DEFINE q == Place(r.st)
           p == Place(s)
<1>6. q \in p .. p + n => q \in p .. p + MaxLen
  <2> HIDE DEF p, q
  <2> QED
    BY <1>1, <1>5 DEF p
<1>7. Touch(i, r, impl[i].size)
  BY DEF r
<1> QED
  BY <1>2, <1>3, <1>4, <1>6, <1>7, FetchMaps

LEMMA PeekMaps ==
  ASSUME NEW h, Handle = {h}, SInv, NEW i \in Impl, handle[h] = i, impl[i].st.open,
         Touch(i, Peek(impl[i].st, Content(i)), impl[i].size)
  PROVE  Linked(impl', inode', killed') /\ (Promise!Next \/ UNCHANGED Promise!vars)
<1> DEFINE s == impl[i].st
           c == Content(i)
           r == Peek(s, c)
<1>1. SoundStream(s) /\ c \in Contents
  BY ObjectIs DEF SInv
<1>2. Settles(s, c, r)
  BY <1>1, PeekSettles
<1>3. r.data \in {c, Synced(s, c)} /\ (~s.app => Place(r.st) = Place(s))
  BY <1>1, PeekStays
<1>4. Place(s) \in Nat
  BY <1>1, PlaceIs
<1> HIDE DEF r
<1>5. ~s.app => Place(r.st) \in Place(s) .. Place(s) + MaxLen
  BY <1>3, <1>4, LenAssumption
<1>6. Touch(i, r, impl[i].size)
  BY DEF r
<1> QED
  BY <1>2, <1>3, <1>5, <1>6, FetchMaps

\* A flush or a seek: all or nothing
LEMMA SettleMaps ==
  ASSUME NEW h, Handle = {h}, SInv, NEW i \in Impl, handle[h] = i, NEW r, impl[i].st.open,
         Touch(i, r, impl[i].size), Settles(impl[i].st, Content(i), r),
         \/ r.data = Content(i) /\ r.st = impl[i].st
         \/ /\ r.data = Synced(impl[i].st, Content(i))
            /\ ~impl[i].st.app => Place(r.st) = Place(impl[i].st) \/ Place(r.st) \in Offsets
  PROVE  Linked(impl', inode', killed') /\ (Promise!Next \/ UNCHANGED Promise!vars)
<1> DEFINE s    == impl[i].st
           c    == Content(i)
           size == impl[i].size
           nm   == inode[TheFile] # Null
           ct   == Synced(s, c)
           ct2  == Synced(r.st, r.data)
           cr   == IF s.app THEN 0 ELSE Place(s)
           cr2  == IF s.app THEN 0 ELSE Place(r.st)
<1>1. IInv
  BY DEF SInv
<1>2. Proper(i, r, size)
  BY <1>1, SettledIsProper
<1>3. s.app \in BOOLEAN
  BY <1>1, ObjectIs DEF SoundStream, Stream
<1>4. ct2 = ct
  BY DEF Settles
<1>5. Linked(impl', inode', killed')
  BY <1>2, Touches
<1>6. Now("open", s.app, nm, ct, c, cr) /\ Next1("open", s.app, nm, ct2, r.data, cr2)
  BY <1>2, Touches
<1>7. \/ r.data = c /\ cr2 = cr
      \/ r.data = ct /\ cr2 = cr
      \/ r.data = ct /\ cr2 \in IF s.app THEN {0} ELSE Offsets
  BY <1>3
<1> HIDE DEF s, c, nm, ct, ct2, cr, cr2
<1>8. Next1("open", s.app, nm, ct, r.data, cr2)
  BY <1>4, <1>6
<1>9. CASE r.data = c /\ cr2 = cr
  BY <1>5, <1>6, <1>8, <1>9, MapsStutter
<1>10. CASE r.data = ct /\ cr2 = cr
  BY <1>3, <1>5, <1>6, <1>8, <1>10, MapsFlush
<1>11. CASE r.data = ct /\ cr2 \in IF s.app THEN {0} ELSE Offsets
  BY <1>3, <1>5, <1>6, <1>8, <1>11, MapsSeek
<1> QED
  BY <1>7, <1>9, <1>10, <1>11

LEMMA StreamCallMaps ==
  ASSUME NEW h, Handle = {h}, SInv, StreamCall(h)
  PROVE  Linked(impl', inode', killed') /\ (Promise!Next \/ UNCHANGED Promise!vars)
<1> DEFINE i == handle[h]
           s == impl[i].st
           c == Content(i)
<1>1. i \in Impl /\ h \in Handle
  <2>1. i # Null
    BY DEF StreamCall, WriteBuf, ReadByte, ReadBuf, PeekByte, FlushFile, SeekTo
  <2> QED
    BY <2>1, InvariantIs DEF SInv
<1>2. SoundStream(s) /\ c \in Contents
  BY <1>1, ObjectIs DEF SInv
<1>3. ASSUME NEW b \in Data, NEW spill \in BOOLEAN, NEW older \in BOOLEAN,
             WriteBuf(h, b, spill, older)
      PROVE  Linked(impl', inode', killed') /\ (Promise!Next \/ UNCHANGED Promise!vars)
  BY <1>1, <1>3, WriteMaps
<1>4. ASSUME ReadByte(h)
      PROVE  Linked(impl', inode', killed') /\ (Promise!Next \/ UNCHANGED Promise!vars)
  <2>1. 1 \in 1 .. MaxLen
    BY LenAssumption
  <2>2. Touch(i, Read(s, c, 1), impl[i].size)
    BY <1>4 DEF ReadByte
  <2> QED
    BY <1>1, <2>1, <2>2, ReadMaps
<1>5. ASSUME NEW n \in 2 .. MaxLen, ReadBuf(h, n)
      PROVE  Linked(impl', inode', killed') /\ (Promise!Next \/ UNCHANGED Promise!vars)
  <2>1. n \in 1 .. MaxLen
    BY LenAssumption
  <2>2. Touch(i, Read(s, c, n), impl[i].size)
    BY <1>5 DEF ReadBuf
  <2> QED
    BY <1>1, <2>1, <2>2, ReadMaps
<1>6. ASSUME PeekByte(h)
      PROVE  Linked(impl', inode', killed') /\ (Promise!Next \/ UNCHANGED Promise!vars)
  <2>1. s.open /\ Touch(i, Peek(s, c), impl[i].size)
    BY <1>6 DEF PeekByte
  <2> QED
    BY <1>1, <2>1, PeekMaps
<1>7. ASSUME NEW older \in BOOLEAN, FlushFile(h, older)
      PROVE  Linked(impl', inode', killed') /\ (Promise!Next \/ UNCHANGED Promise!vars)
  <2> DEFINE r == Flush(s, c, older)
  <2>1. s.open /\ Touch(i, r, impl[i].size)
    BY <1>7 DEF FlushFile
  <2>2. Settles(s, c, r)
    BY <1>2, FlushSettles
  <2>3. \/ r.data = c /\ r.st = s
        \/ r.data = Synced(s, c) /\ (~s.app => Place(r.st) = Place(s))
    BY <1>2, FlushStays
  <2> HIDE DEF r
  <2> QED
    BY <1>1, <2>1, <2>2, <2>3, SettleMaps
<1>8. ASSUME NEW pos \in Offsets, SeekTo(h, pos)
      PROVE  Linked(impl', inode', killed') /\ (Promise!Next \/ UNCHANGED Promise!vars)
  <2> DEFINE r == Seek(s, c, pos)
  <2>1. s.open /\ Touch(i, r, impl[i].size)
    BY <1>8 DEF SeekTo
  <2>2. pos \in Nat
    BY OffsetsAssumption
  <2>3. Settles(s, c, r)
    BY <1>2, <2>2, SeekSettles
  <2>4. \/ r.data = c /\ r.st = s
        \/ r.data = Synced(s, c) /\ Place(r.st) = pos
    BY <1>2, <2>2, SeekMoves
  <2> HIDE DEF r
  <2> QED
    BY <1>1, <2>1, <2>3, <2>4, SettleMaps
<1> HIDE DEF i
<1> QED
  BY <1>3, <1>4, <1>5, <1>6, <1>7, <1>8 DEF StreamCall

-----------------------------------------------------------------------------
(***************************************************************************)
(* The end of a File                                                       *)
(***************************************************************************)
LEMMA GoneIs ==
  ASSUME NEW h, Handle = {h}, Path = {TheFile}, NEW hs, hs[h] = Null, NEW im, Objects(im),
         NEW dk, NEW al, killed \in BOOLEAN, Release(hs, im, dk, inode, al)
  PROVE  /\ \A j \in Impl : ~impl'[j].live /\ ~impl'[j].st.open
         /\ inode' = inode /\ killed' = killed
         /\ \A n \in Inode : inode[TheFile] = n => disk'[n] = DrainedBy(hs, im, dk)[n]
         /\ \A j \in Impl : im[j].live => j \in Unshared(hs, im)
<1>1. /\ inode' = inode
      /\ impl' = Destroyed(hs, im)
      /\ disk' = Reclaimed(inode, Destroyed(hs, im), DrainedBy(hs, im, dk))
      /\ killed' = (killed /\ \A i \in Impl : ~impl'[i].st.open)
  BY DEF Release
<1>2. \A j \in Impl : im[j].live => j \in Unshared(hs, im)
  BY NullAssumption DEF Unshared
<1>3. \A j \in Impl : ~im[j].live => ~im[j].st.open
  BY DEF Objects
<1>4. ASSUME NEW j \in Impl PROVE ~impl'[j].live /\ ~impl'[j].st.open
  <2>1. CASE im[j].live
    <3>1. impl'[j] = Free
      BY <1>1, <1>2, <2>1 DEF Destroyed
    <3> QED
      BY <3>1, FreeIs
  <2>2. CASE ~im[j].live
    <3>1. impl'[j] = im[j]
      BY <1>1, <2>2 DEF Destroyed, Unshared
    <3> QED
      BY <1>3, <2>2, <3>1
  <2> QED
    BY <2>1, <2>2
<1>5. killed' = killed
  BY <1>1, <1>4
<1>6. \A n \in Inode : inode[TheFile] = n => disk'[n] = DrainedBy(hs, im, dk)[n]
  BY <1>1 DEF Reclaimed
<1> QED
  BY <1>1, <1>2, <1>4, <1>5, <1>6

LEMMA EndMaps ==
  ASSUME NEW h, Handle = {h}, Path = {TheFile}, SInv, NEW i \in Impl, handle[h] = i,
         \A j \in Impl : ~impl'[j].live /\ ~impl'[j].st.open, inode' = inode, killed' = killed,
         \A n \in Inode : inode[TheFile] = n =>
           disk'[n] = IF impl[i].st.open /\ impl[i].ino = n THEN Synced(impl[i].st, disk[n]) ELSE disk[n]
  PROVE  Linked(impl', inode', killed') /\ (Promise!Next \/ UNCHANGED Promise!vars)
<1>1. Linked(impl', inode', killed')
  BY DEF Linked
<1>2. IInv /\ Linked(impl, inode, killed) /\ inode[TheFile] \in Inode \cup {Null}
  BY InvariantIs DEF SInv
<1>3. \A j \in Impl : impl[j].st.open => j = i
  BY <1>2, OneObject
<1>4. CASE ~impl[i].st.open
  <2>1. \A j \in Impl : ~impl[j].st.open
    BY <1>3, <1>4
  <2>2. inode[TheFile] # Null => disk'[inode[TheFile]] = disk[inode[TheFile]]
    BY <1>2, <1>4
  <2>3. UNCHANGED Promise!vars
    BY <2>1, <2>2, SameClosed
  <2> QED
    BY <1>1, <2>3
<1>5. CASE impl[i].st.open
  <2> DEFINE s  == impl[i].st
             nm == inode[TheFile] # Null
             c  == disk[impl[i].ino]
             ct == Synced(s, c)
             cr == IF s.app THEN 0 ELSE Place(s)
             e  == NamedBytes(disk', inode')
             ph == IF killed' THEN "killed" ELSE "closed"
  <2>1. Now("open", s.app, nm, ct, c, cr)
    BY <1>2, <1>5, NowOpen
  <2>2. Next1(ph, FALSE, inode'[TheFile] # Null, e, e, 0)
    BY NextClosed
  <2>3. ph = "closed"
    BY <1>2, <1>5 DEF Linked
  <2>4. s.app \in BOOLEAN /\ nm \in BOOLEAN
    BY <1>2, ObjectIs DEF SoundStream, Stream
  <2>5. e = IF nm THEN ct ELSE <<>>
    <3>1. nm => inode[TheFile] = impl[i].ino /\ inode[TheFile] \in Inode
      BY <1>2, <1>5 DEF Linked
    <3> QED
      BY <1>5, <3>1 DEF NamedBytes
  <2>6. inode'[TheFile] # Null <=> nm
    OBVIOUS
  <2> DEFINE q == inode'[TheFile] # Null
  <2>7. q = nm
    BY <2>6
  <2> HIDE DEF s, nm, c, ct, cr, e, ph, q
  <2>8. Next1("closed", FALSE, nm, IF nm THEN ct ELSE <<>>, IF nm THEN ct ELSE <<>>, 0)
    BY <2>2, <2>3, <2>5, <2>7 DEF q
  <2>9. Promise!Next
    BY <2>1, <2>4, <2>8, MapsClose
  <2> QED
    BY <1>1, <2>9
<1> QED
  BY <1>4, <1>5

LEMMA DropMaps ==
  ASSUME NEW h, Handle = {h}, Path = {TheFile}, SInv, Drop(h)
  PROVE  Linked(impl', inode', killed') /\ (Promise!Next \/ UNCHANGED Promise!vars)
<1> DEFINE i  == handle[h]
           hs == [handle EXCEPT ![h] = Null]
<1>1. i # Null /\ Release(hs, impl, disk, inode, alone)
  BY DEF Drop
<1>2. i \in Impl /\ hs[h] = Null /\ Objects(impl) /\ killed \in BOOLEAN /\ impl[i].live
  BY <1>1, InvariantIs DEF SInv
<1>3. \A j \in Impl : impl[j].st.open => j = i
  BY OneObject DEF SInv
<1> HIDE DEF hs, i
<1>4. \A j \in Impl : ~impl'[j].live /\ ~impl'[j].st.open
  BY <1>1, <1>2, GoneIs
<1>5. inode' = inode /\ killed' = killed
  BY <1>1, <1>2, GoneIs
<1>6. i \in Unshared(hs, impl)
  BY <1>1, <1>2 DEF Unshared
<1>7. \A n \in Inode : inode[TheFile] = n => disk'[n] = DrainedBy(hs, impl, disk)[n]
  BY <1>1, <1>2, GoneIs
<1>8. ASSUME NEW n \in Inode
      PROVE  DrainedBy(hs, impl, disk)[n]
               = IF impl[i].st.open /\ impl[i].ino = n THEN Synced(impl[i].st, disk[n]) ELSE disk[n]
  <2> DEFINE closing == {j \in Unshared(hs, impl) : impl[j].st.open /\ impl[j].ino = n}
  <2>1. DrainedBy(hs, impl, disk)[n]
          = IF closing = {} THEN disk[n] ELSE Synced(impl[CHOOSE j \in closing : TRUE].st, disk[n])
    BY DEF DrainedBy
  <2>2. \A j \in closing : j \in Impl /\ impl[j].st.open /\ impl[j].ino = n
    BY DEF Unshared
  <2>3. CASE impl[i].st.open /\ impl[i].ino = n
    <3>1. closing = {i}
      BY <1>3, <1>6, <2>2, <2>3
    <3> HIDE DEF closing
    <3>2. (CHOOSE j \in closing : TRUE) = i /\ closing # {}
      BY <3>1
    <3> QED
      BY <2>1, <2>3, <3>2
  <2>4. CASE ~(impl[i].st.open /\ impl[i].ino = n)
    <3>1. closing = {}
      BY <1>3, <2>2, <2>4
    <3> QED
      BY <2>1, <2>4, <3>1
  <2> QED
    BY <2>3, <2>4
<1>9. \A n \in Inode : inode[TheFile] = n =>
        disk'[n] = IF impl[i].st.open /\ impl[i].ino = n THEN Synced(impl[i].st, disk[n]) ELSE disk[n]
  BY <1>7, <1>8
<1>10. handle[h] = i
  BY DEF i
<1> QED
  BY <1>2, <1>4, <1>5, <1>9, <1>10, EndMaps

LEMMA CloseMaps ==
  ASSUME NEW h, Handle = {h}, Path = {TheFile}, SInv, CloseFile(h)
  PROVE  Linked(impl', inode', killed') /\ (Promise!Next \/ UNCHANGED Promise!vars)
<1> DEFINE i  == handle[h]
           s  == impl[i].st
           n  == impl[i].ino
           r  == Close(s, Content(i))
           hs == [handle EXCEPT ![h] = Null]
           im == [impl EXCEPT ![i].st = r.st]
           dk == IF s.open THEN [disk EXCEPT ![n] = r.data] ELSE disk
<1>1. i # Null /\ Release(hs, im, dk, inode, alone)
  BY DEF CloseFile
<1>2. i \in Impl /\ hs[h] = Null /\ killed \in BOOLEAN /\ disk \in [Inode -> Contents] /\ IInv
  BY <1>1, InvariantIs DEF SInv
<1>3. /\ impl \in [Impl -> Object] /\ impl[i] \in Object /\ SoundStream(s) /\ Content(i) \in Contents
      /\ s.open => n \in Inode /\ Content(i) = disk[n]
      /\ Objects(impl)
  BY <1>2, ObjectIs, InvariantIs
<1>4. SoundStream(r.st) /\ ~r.st.open /\ r.data = Synced(s, Content(i))
  BY <1>3, CloseIs
<1>5. \A j \in Impl : impl[j].st.open => j = i
  BY OneObject DEF SInv
<1>6. im = [impl EXCEPT ![i].st = r.st] /\ dk = (IF s.open THEN [disk EXCEPT ![n] = r.data] ELSE disk)
  OBVIOUS
<1>7. handle[h] = i
  OBVIOUS
<1> HIDE DEF hs, im, dk, i, r
<1>8. /\ im[i] = Touched(impl[i], r.st, impl[i].size)
      /\ \A j \in Impl : j # i => im[j] = impl[j]
      /\ DOMAIN im = Impl /\ im = [j \in Impl |-> im[j]]
  BY <1>2, <1>3, <1>6 DEF Object, Touched
<1>9. im[i] \in Object /\ im[i].st = r.st
  <2>1. r.st \in Stream
    BY <1>4 DEF SoundStream
  <2> QED
    BY <1>3, <1>8, <2>1 DEF Object, Touched
<1>10. Objects(im)
  <2>1. im \in [Impl -> Object]
    BY <1>3, <1>8, <1>9
  <2>2. \A j \in Impl : SoundStream(im[j].st)
    BY <1>3, <1>4, <1>8, <1>9 DEF Objects
  <2>3. \A j \in Impl : ~im[j].st.open
    BY <1>4, <1>5, <1>8, <1>9
  <2> QED
    BY <2>1, <2>2, <2>3 DEF Objects
<1>11. \A j \in Impl : ~im[j].st.open
  BY <1>4, <1>5, <1>8, <1>9
<1>12. \A j \in Impl : ~impl'[j].live /\ ~impl'[j].st.open
  BY <1>1, <1>2, <1>10, GoneIs
<1>13. inode' = inode /\ killed' = killed
  BY <1>1, <1>2, <1>10, GoneIs
<1>14. \A m \in Inode : inode[TheFile] = m => disk'[m] = DrainedBy(hs, im, dk)[m]
  BY <1>1, <1>2, <1>10, GoneIs
<1>15. \A m \in Inode : DrainedBy(hs, im, dk)[m] = dk[m]
  BY <1>11 DEF DrainedBy, Unshared
<1>16. ASSUME NEW m \in Inode
       PROVE  dk[m] = IF s.open /\ n = m THEN Synced(s, disk[m]) ELSE disk[m]
  BY <1>2, <1>3, <1>4, <1>6
<1>17. \A m \in Inode : inode[TheFile] = m =>
         disk'[m] = IF s.open /\ n = m THEN Synced(s, disk[m]) ELSE disk[m]
  BY <1>14, <1>15, <1>16
<1> QED
  BY <1>2, <1>7, <1>12, <1>13, <1>17, EndMaps

-----------------------------------------------------------------------------
(***************************************************************************)
(* Opening, and the steps beside the streams                               *)
(***************************************************************************)
LEMMA OpenMaps ==
  ASSUME NEW h, Handle = {h}, Path = {TheFile}, ~MayReassign, SInv, NEW p \in Path, NEW mode,
         Open(h, p, mode)
  PROVE  Linked(impl', inode', killed') /\ (Promise!Next \/ UNCHANGED Promise!vars)
<1> DEFINE flags == IosFlags(mode)
           ok    == Opens(flags, inode[p] # Null)
           ns    == IF inode[p] # Null THEN {inode[p]}
                    ELSE IF ok THEN {m \in Inode : ~InUse(m)} ELSE {Null}
           Data1(n) == IF n # Null /\ ok /\ (inode[p] = Null \/ Truncates(flags))
                       THEN [disk EXCEPT ![n] = <<>>] ELSE disk
           Names(n) == IF ok THEN [inode EXCEPT ![p] = n] ELSE inode
           Obj(n)   == [live |-> TRUE, path |-> p, ino |-> IF ok THEN n ELSE Null,
                        size |-> IF n = Null THEN 0 ELSE Len(Data1(n)[n]),
                        asked |-> "O_APPEND" \in mode,
                        st |-> IF ok THEN Fresh(flags) ELSE Unopened]
           Users(n) == {j \in Impl : ok /\ impl[j].st.open /\ impl[j].ino = n}
           Al(i, n) == [j \in Impl |-> IF j = i THEN ok /\ Users(n) = {} ELSE alone[j] /\ j \notin Users(n)]
<1>1. PICK i \in {j \in Impl : ~impl[j].live}, n \in ns :
        Release([handle EXCEPT ![h] = i], [impl EXCEPT ![i] = Obj(n)], Data1(n), Names(n), Al(i, n))
  BY DEF Open
<1>2. handle[h] = Null
  BY DEF Open
<1>3. /\ IInv /\ p = TheFile /\ inode[p] \in Inode \cup {Null} /\ disk \in [Inode -> Contents]
      /\ impl \in [Impl -> Object] /\ inode \in [Path -> Inode \cup {Null}]
      /\ handle \in [Handle -> Impl \cup {Null}] /\ killed \in BOOLEAN
  BY InvariantIs DEF SInv
<1>4. \A j \in Impl : ~impl[j].live /\ ~impl[j].st.open
  BY <1>2, NullAssumption, OneObject DEF SInv
<1>5. i \in Impl /\ i # Null
  BY NullAssumption
<1>6. /\ n \in Inode \cup {Null} /\ (ok => n \in Inode /\ n # Null)
      /\ inode[p] # Null => n = inode[p]
  BY <1>3, NullAssumption
<1> DEFINE hs    == [handle EXCEPT ![h] = i]
           im    == [impl EXCEPT ![i] = Obj(n)]
           dk    == Data1(n)
           names == Names(n)
           al    == Al(i, n)
           obj   == Obj(n)
           t     == IF ok THEN Fresh(flags) ELSE Unopened
           ino   == IF ok THEN n ELSE Null
           cut   == n # Null /\ ok /\ (inode[p] = Null \/ Truncates(flags))
<1>7. SoundStream(t) /\ t.mode = "idle" /\ (t.open <=> ok) /\ (ok => t.off = 0)
  <2>1. Fresh(flags).off = 0
    BY DEF Fresh, Closed
  <2> QED
    BY <2>1, NewStreams
<1>8. Release(hs, im, dk, names, al)
  BY <1>1
<1>9. obj.live = TRUE /\ obj.path = p /\ obj.st = t /\ obj.ino = ino
  OBVIOUS
<1>10. im[i] = obj /\ \A j \in Impl : j # i => im[j] = impl[j]
  BY <1>3, <1>5
<1>11. /\ dk = IF cut THEN [disk EXCEPT ![n] = <<>>] ELSE disk
       /\ cut => n # Null /\ ok
       /\ ok /\ inode[p] = Null => cut
       /\ ino = IF ok THEN n ELSE Null
       /\ names = IF ok THEN [inode EXCEPT ![p] = n] ELSE inode
       /\ hs = [handle EXCEPT ![h] = i]
  BY <1>6
<1>12. ok \in BOOLEAN /\ cut \in BOOLEAN
  BY DEF Opens
<1> HIDE DEF flags, ok, ns, Data1, Names, Obj, Users, Al, hs, im, dk, names, al, obj, t, ino, cut
<1>13. hs[h] = i
  BY <1>3, <1>5, <1>11
<1>14. Unshared(hs, im) = {}
  <2>1. \A j \in Impl : j # i => ~im[j].live
    BY <1>4, <1>10
  <2> QED
    BY <1>13, <2>1 DEF Unshared
<1>15. \A j \in Impl : impl'[j] = im[j]
  BY <1>8, <1>14 DEF Release, Destroyed
<1>16. inode' = names /\ killed' = (killed /\ \A j \in Impl : ~impl'[j].st.open)
  BY <1>8 DEF Release
<1>17. \A m \in Inode : DrainedBy(hs, im, dk)[m] = dk[m]
  BY <1>14 DEF DrainedBy
<1>18. \A m \in Inode : names[TheFile] = m => disk'[m] = dk[m]
  BY <1>8, <1>17 DEF Release, Reclaimed
<1>19. names[TheFile] = IF ok THEN n ELSE inode[TheFile]
  BY <1>3, <1>6, <1>11
<1>20. CASE ~ok
  <2>1. \A j \in Impl : ~impl'[j].st.open
    BY <1>4, <1>7, <1>9, <1>10, <1>15, <1>20
  <2>2. inode' = inode /\ killed' = killed /\ dk = disk
    BY <1>3, <1>11, <1>16, <1>20, <2>1
  <2>3. inode[TheFile] # Null => disk'[inode[TheFile]] = disk[inode[TheFile]]
    BY <1>3, <1>16, <1>18, <2>2
  <2>4. UNCHANGED Promise!vars
    BY <1>4, <2>1, <2>2, <2>3, SameClosed
  <2>5. \A j \in Impl : impl'[j].live => impl'[j].path = TheFile
    BY <1>3, <1>4, <1>9, <1>10, <1>15
  <2> QED
    BY <2>1, <2>4, <2>5 DEF Linked
<1>21. CASE ok
  <2>1. impl'[i].st = t /\ impl'[i].ino = n /\ t.open /\ impl'[i].path = TheFile
    BY <1>3, <1>5, <1>7, <1>9, <1>10, <1>11, <1>15, <1>21
  <2>2. \A j \in Impl : j # i => ~impl'[j].live /\ ~impl'[j].st.open
    BY <1>4, <1>10, <1>15
  <2>3. inode'[TheFile] = n /\ n \in Inode /\ n # Null /\ disk'[n] = dk[n]
    BY <1>6, <1>16, <1>18, <1>19, <1>21
  <2>4. killed' = FALSE
    BY <1>5, <1>16, <2>1
  <2>5. Linked(impl', inode', killed')
    BY <2>1, <2>2, <2>3, <2>4 DEF Linked
  <2> DEFINE ph == IF killed THEN "killed" ELSE "closed"
             c  == NamedBytes(disk, inode)
             nm == inode[TheFile] # Null
             e  == dk[n]
  <2>6. Now(ph, FALSE, nm, c, c, 0) /\ ph # "open"
    BY <1>4, NowClosed
  <2>7. Place(t) = 0 /\ Synced(t, e) = e
    BY <1>7, <1>21 DEF Place, Synced
  <2>8. e \in {c, <<>>}
    <3>1. CASE cut
      BY <1>3, <1>11, <2>3, <3>1
    <3>2. CASE ~cut
      <4>1. nm /\ n = inode[TheFile] /\ dk = disk
        BY <1>3, <1>6, <1>11, <1>21, <3>2
      <4> QED
        BY <4>1 DEF NamedBytes
    <3> QED
      BY <3>1, <3>2
  <2>9. \A j \in Impl : impl'[j].st.open => j = i
    BY <2>2
  <2>10. Shows(impl', disk', inode', killed', "open", impl'[i].st.app, inode'[TheFile] # Null,
               Synced(impl'[i].st, disk'[impl'[i].ino]), disk'[impl'[i].ino],
               IF impl'[i].st.app THEN 0 ELSE Place(impl'[i].st))
    BY <1>5, <1>7, <2>1, <2>9, ShownOpen
  <2>11. (inode'[TheFile] # Null) = TRUE
    BY <2>3
  <2>12. Next1("open", t.app, TRUE, e, e, 0)
    BY <2>1, <2>3, <2>7, <2>10, <2>11 DEF Next1
  <2> HIDE DEF ph, c, nm, e
  <2>13. Promise!Next
    BY <2>6, <2>8, <2>12, MapsOpen
  <2> QED
    BY <2>5, <2>13
<1> QED
  BY <1>20, <1>21

LEMMA TruncateMaps ==
  ASSUME NEW h, Handle = {h}, Path = {TheFile}, SInv, NEW n \in Offsets, Truncate(h, n)
  PROVE  Linked(impl', inode', killed') /\ (Promise!Next \/ UNCHANGED Promise!vars)
<1> DEFINE i == handle[h]
           f == inode[TheFile]
           s == impl[i].st
<1>1. IInv /\ Linked(impl, inode, killed) /\ n \in Nat
  BY OffsetsAssumption DEF SInv
<1>2. i \in Impl /\ impl[i].path = TheFile
  <2>1. i # Null
    BY DEF Truncate
  <2>2. i \in Impl /\ impl[i].live
    BY <1>1, <2>1, InvariantIs
  <2> QED
    BY <1>1, <2>2 DEF Linked
<1>3. f # Null /\ f \in Inode /\ disk[f] \in Contents /\ disk' = [disk EXCEPT ![f] = Resize(@, n)]
  BY <1>1, <1>2, InvariantIs DEF Truncate
<1>4. UNCHANGED <<inode, impl, handle, killed>>
  BY DEF Truncate
<1>5. Linked(impl', inode', killed')
  BY <1>1, <1>4 DEF Linked
<1>6. disk'[f] = Resize(disk[f], n)
  BY <1>1, <1>3, InvariantIs
<1>7. \A j \in Impl : impl[j].st.open => j = i
  BY <1>1, OneObject
<1>8. (inode[TheFile] # Null) = TRUE /\ (inode'[TheFile] # Null) = TRUE
  BY <1>3, <1>4
<1>9. CASE s.open
  <2> DEFINE c   == disk[f]
             cut == Resize(c, n)
             ct  == Synced(s, c)
             ct2 == Synced(s, cut)
             cr  == IF s.app THEN 0 ELSE Place(s)
  <2>1. impl[i].ino = f /\ SoundStream(s) /\ s.app \in BOOLEAN
    BY <1>1, <1>2, <1>3, <1>9, ObjectIs DEF Linked, SoundStream, Stream
  <2>2. Now("open", s.app, TRUE, ct, c, cr)
    BY <1>1, <1>2, <1>8, <1>9, <2>1, NowOpen
  <2>3. IInv'
    BY <1>1, TruncateSane
  <2>4. Next1("open", impl'[i].st.app, inode'[TheFile] # Null,
              Synced(impl'[i].st, disk'[impl'[i].ino]), disk'[impl'[i].ino],
              IF impl'[i].st.app THEN 0 ELSE Place(impl'[i].st))
    BY <1>2, <1>4, <1>9, <2>3, NextOpen
  <2>5. Next1("open", s.app, TRUE, ct2, cut, cr)
    BY <1>4, <1>6, <1>8, <2>1, <2>4
  <2>6. s.app => ct2 = cut \o From(ct, Len(c))
    <3>1. n \in Nat /\ c \in Contents /\ SoundStream(s)
      BY <1>1, <1>3, <2>1
    <3> HIDE DEF s, c
    <3> QED
      BY <3>1, CutIs
  <2>7. ~s.app => Len(ct2) \in n .. Longer(n, Len(ct))
    BY <1>1, <1>3, <2>1, CutIs
  <2>8. ~s.app => \A k \in 1 .. Len(ct2) :
                    ct2[k] = Resize(ct, Len(ct2))[k] \/ (k > n /\ ct2[k] = Hole)
    BY <1>1, <1>3, <2>1, CutIs
  <2> HIDE DEF c, ct, ct2, cr, s
  <2>9. Promise!Next
    BY <2>1, <2>2, <2>5, <2>6, <2>7, <2>8, MapsTruncate DEF cut
  <2> QED
    BY <1>5, <2>9
<1>10. CASE ~s.open
  <2> DEFINE c  == disk[f]
             ph == IF killed THEN "killed" ELSE "closed"
  <2>1. \A j \in Impl : ~impl[j].st.open /\ ~impl'[j].st.open
    BY <1>4, <1>7, <1>10
  <2>2. NamedBytes(disk, inode) = c /\ NamedBytes(disk', inode') = Resize(c, n)
    BY <1>3, <1>4, <1>6 DEF NamedBytes
  <2>3. Now(ph, FALSE, TRUE, c, c, 0)
    BY <1>8, <2>1, <2>2, NowClosed
  <2>4. Next1(IF killed' THEN "killed" ELSE "closed", FALSE, TRUE, Resize(c, n), Resize(c, n), 0)
    BY <1>8, <2>1, <2>2, NextClosed
  <2>5. ph # "open" /\ Next1(ph, FALSE, TRUE, Resize(c, n), Resize(c, n), 0)
    BY <1>4, <2>4
  <2> HIDE DEF ph, c
  <2>6. Promise!Next
    BY <2>3, <2>5, MapsTruncate
  <2> QED
    BY <1>5, <2>6
<1> QED
  BY <1>9, <1>10

LEMMA RemoveMaps ==
  ASSUME NEW h, Handle = {h}, Path = {TheFile}, SInv, NEW p \in Path, Remove(p)
  PROVE  Linked(impl', inode', killed') /\ (Promise!Next \/ UNCHANGED Promise!vars)
<1>1. IInv /\ Linked(impl, inode, killed) /\ p = TheFile /\ inode \in [Path -> Inode \cup {Null}]
  BY InvariantIs DEF SInv
<1>2. /\ inode[p] # Null /\ inode' = [inode EXCEPT ![p] = Null]
      /\ disk' = Reclaimed(inode', impl, disk)
      /\ UNCHANGED <<impl, handle, alone, killed>>
  BY DEF Remove
<1>3. inode'[TheFile] = Null /\ (inode[TheFile] # Null) = TRUE /\ (inode'[TheFile] # Null) = FALSE
  BY <1>1, <1>2
<1>4. Linked(impl', inode', killed')
  BY <1>1, <1>2, <1>3 DEF Linked
<1>5. ASSUME NEW i \in Impl, impl[i].st.open PROVE Promise!Next
  <2> DEFINE s  == impl[i].st
             c  == disk[impl[i].ino]
             ct == Synced(s, c)
             cr == IF s.app THEN 0 ELSE Place(s)
  <2>1. s.app \in BOOLEAN /\ impl[i].ino \in Inode
    BY <1>1, <1>5, ObjectIs DEF SoundStream, Stream
  <2>2. disk'[impl[i].ino] = c
    BY <1>2, <1>5, <2>1 DEF Reclaimed
  <2>3. Now("open", s.app, TRUE, ct, c, cr)
    BY <1>1, <1>3, <1>5, NowOpen
  <2>4. IInv'
    BY <1>1, RemoveSane
  <2>5. Next1("open", impl'[i].st.app, inode'[TheFile] # Null,
              Synced(impl'[i].st, disk'[impl'[i].ino]), disk'[impl'[i].ino],
              IF impl'[i].st.app THEN 0 ELSE Place(impl'[i].st))
    BY <1>2, <1>5, <2>4, NextOpen
  <2>6. Next1("open", s.app, FALSE, ct, c, cr)
    BY <1>2, <1>3, <2>2, <2>5
  <2> HIDE DEF s, c, ct, cr
  <2> QED
    BY <2>1, <2>3, <2>6, MapsRemove
<1>6. ASSUME \A j \in Impl : ~impl[j].st.open PROVE Promise!Next
  <2> DEFINE c  == NamedBytes(disk, inode)
             ph == IF killed THEN "killed" ELSE "closed"
  <2>1. Now(ph, FALSE, TRUE, c, c, 0)
    BY <1>3, <1>6, NowClosed
  <2>2. NamedBytes(disk', inode') = <<>>
    BY <1>3 DEF NamedBytes
  <2>3. \A j \in Impl : ~impl'[j].st.open
    BY <1>2, <1>6
  <2>4. Next1(IF killed' THEN "killed" ELSE "closed", FALSE, FALSE, <<>>, <<>>, 0)
    BY <1>3, <2>2, <2>3, NextClosed
  <2>5. Next1(ph, FALSE, FALSE, <<>>, <<>>, 0) /\ ph # "open"
    BY <1>2, <2>4
  <2> HIDE DEF ph, c
  <2> QED
    BY <2>1, <2>5, MapsRemove
<1> QED
  BY <1>4, <1>5, <1>6

LEMMA CrashMaps ==
  ASSUME NEW h, Handle = {h}, Path = {TheFile}, SInv, Crash
  PROVE  Linked(impl', inode', killed') /\ (Promise!Next \/ UNCHANGED Promise!vars)
<1>1. IInv /\ Linked(impl, inode, killed) /\ killed \in BOOLEAN /\ inode[TheFile] \in Inode \cup {Null}
  BY InvariantIs DEF SInv
<1>2. /\ impl' = [i \in Impl |-> Free]
      /\ killed' = (killed \/ \E i \in Impl : impl[i].st.open)
      /\ disk' = Reclaimed(inode, impl', disk)
      /\ inode' = inode
  BY DEF Crash
<1>3. \A j \in Impl : ~impl'[j].live /\ ~impl'[j].st.open
  BY <1>2, FreeIs
<1>4. Linked(impl', inode', killed')
  BY <1>3 DEF Linked
<1>5. inode[TheFile] # Null => disk'[inode[TheFile]] = disk[inode[TheFile]]
  BY <1>1, <1>2 DEF Reclaimed
<1>6. ASSUME NEW i \in Impl, impl[i].st.open PROVE Promise!Next
  <2> DEFINE s  == impl[i].st
             nm == inode[TheFile] # Null
             c  == disk[impl[i].ino]
             ct == Synced(s, c)
             cr == IF s.app THEN 0 ELSE Place(s)
             e  == NamedBytes(disk', inode')
             q  == inode'[TheFile] # Null
             ph == IF killed' THEN "killed" ELSE "closed"
  <2>1. s.app \in BOOLEAN /\ nm \in BOOLEAN
    BY <1>1, ObjectIs DEF SoundStream, Stream
  <2>2. Now("open", s.app, nm, ct, c, cr)
    BY <1>1, <1>6, NowOpen
  <2>3. Next1(ph, FALSE, q, e, e, 0)
    BY <1>3, NextClosed
  <2>4. ph = "killed"
    BY <1>2, <1>6
  <2>5. q = nm
    BY <1>2
  <2>6. e = IF nm THEN c ELSE <<>>
    BY <1>1, <1>2, <1>5, <1>6 DEF NamedBytes, Linked
  <2> HIDE DEF s, nm, c, ct, cr, e, q, ph
  <2>7. Next1("killed", FALSE, nm, IF nm THEN c ELSE <<>>, IF nm THEN c ELSE <<>>, 0)
    BY <2>3, <2>4, <2>5, <2>6
  <2> QED
    BY <2>1, <2>2, <2>7, MapsCrash
<1>7. ASSUME \A j \in Impl : ~impl[j].st.open PROVE UNCHANGED Promise!vars
  <2>1. killed' = killed
    BY <1>1, <1>2, <1>7
  <2> QED
    BY <1>2, <1>3, <1>5, <1>7, <2>1, SameClosed
<1> QED
  BY <1>4, <1>6, <1>7

-----------------------------------------------------------------------------
LEMMA StepMaps ==
  ASSUME OneUser, SInv, [Next]_vars
  PROVE  SInv' /\ (Promise!Next \/ UNCHANGED Promise!vars)
<1>1. PICK h : Handle = {h}
  BY DEF OneUser
<1>2. Path = {TheFile}
  BY DEF OneUser, TheFile
<1>3. ~MayReassign
  BY DEF OneUser
<1>4. IInv'
  BY StepSane DEF SInv
<1>5. ASSUME NEW p \in Path, NEW mode \in OpenModes, Open(h, p, mode)
      PROVE  Linked(impl', inode', killed') /\ (Promise!Next \/ UNCHANGED Promise!vars)
  BY <1>1, <1>2, <1>3, <1>5, OpenMaps
<1>6. ASSUME StreamCall(h)
      PROVE  Linked(impl', inode', killed') /\ (Promise!Next \/ UNCHANGED Promise!vars)
  BY <1>1, <1>6, StreamCallMaps
<1>7. ASSUME NEW n \in Offsets, Truncate(h, n)
      PROVE  Linked(impl', inode', killed') /\ (Promise!Next \/ UNCHANGED Promise!vars)
  BY <1>1, <1>2, <1>7, TruncateMaps
<1>8. ASSUME CloseFile(h)
      PROVE  Linked(impl', inode', killed') /\ (Promise!Next \/ UNCHANGED Promise!vars)
  BY <1>1, <1>2, <1>8, CloseMaps
<1>9. ASSUME Drop(h)
      PROVE  Linked(impl', inode', killed') /\ (Promise!Next \/ UNCHANGED Promise!vars)
  BY <1>1, <1>2, <1>9, DropMaps
<1>10. ASSUME NEW g \in Handle, Copy(h, g) PROVE FALSE
  BY <1>1, <1>10 DEF Copy
<1>11. ASSUME NEW p \in Path, Remove(p)
       PROVE  Linked(impl', inode', killed') /\ (Promise!Next \/ UNCHANGED Promise!vars)
  BY <1>1, <1>2, <1>11, RemoveMaps
<1>12. ASSUME Crash
       PROVE  Linked(impl', inode', killed') /\ (Promise!Next \/ UNCHANGED Promise!vars)
  BY <1>1, <1>2, <1>12, CrashMaps
<1>13. CASE UNCHANGED vars
  <2>1. UNCHANGED <<inode, disk, impl, handle, alone, killed>>
    BY <1>13 DEF vars
  <2>2. Linked(impl', inode', killed')
    BY <2>1 DEF SInv
  <2>3. UNCHANGED Promise!vars
    BY <2>1 DEF Promise!vars, Using, User, Named
  <2> QED
    BY <1>4, <2>2, <2>3 DEF SInv, Linked
<1>14. ASSUME Call(h)
       PROVE  Linked(impl', inode', killed') /\ (Promise!Next \/ UNCHANGED Promise!vars)
  BY <1>5, <1>6, <1>7, <1>8, <1>9, <1>10, <1>14 DEF Call, StreamCall
<1>15. CASE Next
  <2>1. Linked(impl', inode', killed') /\ (Promise!Next \/ UNCHANGED Promise!vars)
    BY <1>1, <1>11, <1>12, <1>14, <1>15 DEF Next
  <2> QED
    BY <1>4, <2>1 DEF SInv, Linked
<1> QED
  BY <1>13, <1>15

LEMMA InitMaps == ASSUME OneUser, Init PROVE SInv /\ Promise!Init
<1>1. Path = {TheFile}
  BY DEF OneUser, TheFile
<1>2. /\ inode = [p \in Path |-> Null] /\ impl = [i \in Impl |-> Free] /\ killed = FALSE
  BY DEF Init
<1>3. \A i \in Impl : ~impl[i].live /\ ~impl[i].st.open
  BY <1>2, FreeIs
<1>4. inode[TheFile] = Null
  BY <1>1, <1>2
<1>5. SInv
  BY <1>3, InitSane DEF SInv, Linked
<1>6. NamedBytes(disk, inode) = <<>> /\ (inode[TheFile] # Null) = FALSE
  BY <1>4 DEF NamedBytes
<1>7. Now("closed", FALSE, FALSE, <<>>, <<>>, 0)
  BY <1>2, <1>3, <1>6, NowClosed
<1> QED
  BY <1>5, <1>7, MapsInit

\* With one File variable, one name and no open() into a File in use, every behaviour of
\* LinuxFile over any data, modes and offsets is one of ByteFile: the buffer is invisible,
\* through failed calls, end of file, cuts, removal, close, destruction and a crash.
THEOREM BufferingIsInvisible == ASSUME OneUser PROVE Spec => KeepsPromise
<1>1. Init => SInv /\ Promise!Init
  BY InitMaps
<1>2. SInv /\ [Next]_vars => SInv' /\ [Promise!Next]_(Promise!vars)
  BY StepMaps
<1> QED
  BY <1>1, <1>2, PTL DEF Spec, KeepsPromise, Promise!Spec
=============================================================================

------------------------------ MODULE FStream ------------------------------
(***************************************************************************)
(* The std::fstream that LinuxFile keeps in its member `mockFile'          *)
(* (src/src/SD.h:113), seen from the calls LinuxFile makes on it, together *)
(* with the bytes of the host file below it.  The library is not part of   *)
(* the repository: its behaviour is what g++'s libstdc++ does with those   *)
(* calls, observed on the compiled program.  Where its releases differ, on *)
(* a stream that ran to the end of its file, `older' picks the one.        *)
(*                                                                         *)
(* A stream is in one of three modes.  "idle": its buffer is empty.        *)
(* "get": `buf' is the unread rest of what was last fetched, and the file  *)
(* offset `off' is behind it.  "put": `buf' holds bytes accepted by        *)
(* write() that the file does not have yet, and they go at `off'.          *)
(***************************************************************************)
EXTENDS Bytes

Failed == -1   \* what tellp(), read() and peek() return on failure

(***************************************************************************)
(* Opening.  The combinations of std::ios flags that basic_filebuf::open   *)
(* maps to an fopen() mode; every other one makes open() fail.             *)
(***************************************************************************)
OpenableFlags ==
  { {"in"}, {"out"}, {"out", "trunc"}, {"out", "app"}, {"app"}, {"in", "out"},
    {"in", "out", "trunc"}, {"in", "out", "app"}, {"in", "app"} }

Truncates(flags) == "trunc" \in flags \/ flags = {"out"}
Creates(flags)   == Truncates(flags) \/ "app" \in flags
Opens(flags, exists) == flags \in OpenableFlags /\ (exists \/ Creates(flags))

Closed == [open |-> FALSE, rd |-> FALSE, wr |-> FALSE, app |-> FALSE,
           mode |-> "idle", off |-> 0, buf |-> <<>>, eof |-> FALSE, fail |-> FALSE]

Fresh(flags) ==
  [Closed EXCEPT !.open = TRUE,
                 !.rd = "in" \in flags,
                 !.wr = flags \cap {"out", "app"} # {},
                 !.app = "app" \in flags]

\* fstream::open() that did not open: the failbit is set
Unopened == [Closed EXCEPT !.fail = TRUE]

Good(s) == ~s.eof /\ ~s.fail

\* tellp(): the logical position, before the unread and behind the unwritten
Tell(s) == IF s.fail THEN Failed
           ELSE CASE s.mode = "get"  -> s.off - Len(s.buf)
                  [] s.mode = "put"  -> s.off + Len(s.buf)
                  [] s.mode = "idle" -> s.off

\* what the file holds once the stream's unwritten bytes are in it
Synced(s, c) == IF s.mode # "put" THEN c
                ELSE IF s.app THEN c \o s.buf ELSE Overlay(c, s.off, s.buf)

(***************************************************************************)
(* Calls.  Each takes a stream s over a file with content c and gives the  *)
(* stream, the content and, as `val', what the call returns.               *)
(***************************************************************************)
Result(s, c, v) == [st |-> s, data |-> c, val |-> v]

\* the unwritten bytes go to the file: at its end if it was opened to append
Drain(s, c) ==
  IF s.mode # "put" THEN s
  ELSE [s EXCEPT !.mode = "idle", !.buf = <<>>,
                 !.off = IF s.buf = <<>> THEN s.off
                         ELSE IF s.app THEN Len(c) + Len(s.buf)
                         ELSE s.off + Len(s.buf)]

\* ostream::write(): the bytes join the unwritten ones, and when they do not
\* fit in the buffer (`spill') everything unwritten goes to the file at once.
\* `val' is what the stream tests afterwards.  A stream that is not good takes
\* nothing; if only its eofbit is set, an older library makes that a failure,
\* and for a newer one (libstdc++ 12) it still tests true.
Write(s, c, b, spill, older) ==
  IF ~Good(s) THEN LET t == [s EXCEPT !.fail = @ \/ older] IN Result(t, c, ~t.fail)
  ELSE IF ~s.wr THEN Result([s EXCEPT !.fail = TRUE], c, FALSE)
  ELSE LET p == [s EXCEPT !.mode = "put",
                          !.off = IF s.mode = "get" THEN Tell(s) ELSE s.off,
                          !.buf = IF s.mode = "put" THEN s.buf \o b ELSE b]
       IN  IF spill THEN Result(Drain(p, c), Synced(p, c), TRUE)
                    ELSE Result(p, c, TRUE)

\* istream::read() of n > 0 bytes: `val' is the bytes it got.  It drains
\* first; an end of file on the way sets eofbit and failbit.
Read(s, c, n) ==
  IF ~s.open \/ ~Good(s)
  THEN Result([s EXCEPT !.fail = TRUE, !.eof = @ \/ Good(s)], c, <<>>)
  ELSE LET d    == Drain(s, c)
           file == Synced(s, c)
           more == d.rd /\ Len(d.buf) < n       \* has to fetch from the file
           got  == IF more THEN d.buf \o From(file, d.off) ELSE d.buf
           off  == IF more THEN Longer(d.off, Len(file)) ELSE d.off
           rest == From(got, n)
       IN  Result([d EXCEPT !.off = off, !.buf = rest,
                            !.mode = IF rest = <<>> THEN "idle" ELSE "get",
                            !.eof = Len(got) < n, !.fail = Len(got) < n],
                  file, SubSeq(got, 1, IF Len(got) < n THEN Len(got) ELSE n))

\* istream::peek(): on a stream that cannot read it sets eofbit and does not
\* drain
Peek(s, c) ==
  IF ~Good(s) THEN Result([s EXCEPT !.fail = TRUE], c, Failed)
  ELSE IF ~s.rd THEN Result([s EXCEPT !.eof = TRUE], c, Failed)
  ELSE LET d    == Drain(s, c)
           file == Synced(s, c)
           got  == IF d.buf = <<>> THEN From(file, d.off) ELSE d.buf
       IN  IF got = <<>> THEN Result([d EXCEPT !.mode = "idle", !.eof = TRUE], file, Failed)
           ELSE Result([d EXCEPT !.mode = "get", !.buf = got,
                                 !.off = IF d.buf = <<>> THEN Len(file) ELSE d.off],
                       file, got[1])

\* ostream::flush(): nothing unless the stream is good; an older library does
\* not ask
Flush(s, c, older) == IF Good(s) \/ older THEN Result(Drain(s, c), Synced(s, c), TRUE)
                                         ELSE Result(s, c, FALSE)

\* ostream::seekp(p): nothing after a failure; eofbit stays as it is
Seek(s, c, p) ==
  IF s.fail THEN Result(s, c, FALSE)
  ELSE Result([s EXCEPT !.mode = "idle", !.buf = <<>>, !.off = p], Synced(s, c), TRUE)

\* fstream::close(): drains whatever the state bits say
Close(s, c) == Result([Closed EXCEPT !.eof = s.eof, !.fail = s.fail], Synced(s, c), TRUE)
=============================================================================

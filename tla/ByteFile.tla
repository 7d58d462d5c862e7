------------------------------ MODULE ByteFile ------------------------------
(***************************************************************************)
(* What a program that is the only user of a file is promised by File:     *)
(* an unbuffered array of bytes with a cursor.  How much of what was       *)
(* written is already in the host's file (`stable') is left open, except   *)
(* that all of it is once the file is closed.                              *)
(***************************************************************************)
EXTENDS Bytes

CONSTANTS
  Data,         \* what a write may pass
  MaxLen,       \* bound: the longest content
  Offsets       \* where a seek goes to and a truncate cuts

VARIABLES
  phase,        \* "open" through a stream, "closed", or "killed" with the program
  appending,    \* was the file opened to append?
  named,        \* does the folder have the file?
  content,      \* the bytes the program has made the file of
  stable,       \* the bytes the host has: what is left after a crash
  cursor        \* where the next access goes, 0 when appending

vars == <<phase, appending, named, content, stable, cursor>>

Init ==
  /\ phase = "closed" /\ appending = FALSE /\ named = FALSE
  /\ content = <<>> /\ stable = <<>> /\ cursor = 0

\* The file is there, kept or emptied, and the cursor is at its start.
Open ==
  /\ phase # "open"
  /\ phase' = "open"
  /\ appending' \in BOOLEAN
  /\ named' = TRUE
  /\ content' \in {content, <<>>}
  /\ stable' = content'
  /\ cursor' = 0

\* Bytes are in the content at once, and in the host's file now or later.
Write ==
  /\ phase = "open"
  /\ \E b \in Data :
       /\ content' = IF appending THEN content \o b ELSE Overlay(content, cursor, b)
       /\ cursor' = IF appending THEN 0 ELSE cursor + Len(b)
  /\ stable' \in {stable, content'}
  /\ UNCHANGED <<phase, appending, named>>

\* Reading moves the cursor, and may bring the host up to date.
Read ==
  /\ phase = "open"
  /\ cursor' \in cursor..(cursor + MaxLen)
  /\ appending => cursor' = 0
  /\ stable' \in {stable, content}
  /\ UNCHANGED <<phase, appending, named, content>>

Seek ==
  /\ phase = "open"
  /\ cursor' \in IF appending THEN {0} ELSE Offsets
  /\ stable' = content
  /\ UNCHANGED <<phase, appending, named, content>>

Flush ==
  /\ phase = "open"
  /\ stable' = content
  /\ UNCHANGED <<phase, appending, named, content, cursor>>

\* The host's file is cut to n bytes by its name.  What the program wrote and
\* the host does not have yet survives the cut: appended bytes land behind
\* it, others at their own offsets; the first n bytes are what they were.
Truncate(n) ==
  /\ named
  /\ stable' = Resize(stable, n)
  /\ IF phase # "open" THEN content' = stable'
     ELSE IF appending THEN content' = stable' \o From(content, Len(stable))
     ELSE /\ Len(content') \in n..Longer(n, Len(content))
          /\ \A k \in 1..Len(content') :
               \/ content'[k] = Resize(content, Len(content'))[k]
               \/ k > n /\ content'[k] = Hole
  /\ UNCHANGED <<phase, appending, named, cursor>>

\* A file that lost its name is gone when it is closed.
Close ==
  /\ phase = "open"
  /\ phase' = "closed" /\ appending' = FALSE /\ cursor' = 0
  /\ content' = IF named THEN content ELSE <<>>
  /\ stable' = content'
  /\ UNCHANGED named

Remove ==
  /\ named
  /\ named' = FALSE
  /\ content' = IF phase = "open" THEN content ELSE <<>>
  /\ stable' = IF phase = "open" THEN stable ELSE <<>>
  /\ UNCHANGED <<phase, appending, cursor>>

\* The program dies: what the host has is what is left.
Crash ==
  /\ phase = "open"
  /\ phase' = "killed" /\ appending' = FALSE /\ cursor' = 0
  /\ content' = IF named THEN stable ELSE <<>>
  /\ stable' = content'
  /\ UNCHANGED named

Next ==
  \/ Open \/ Write \/ Read \/ Seek \/ Flush \/ Close \/ Remove \/ Crash
  \/ \E n \in Offsets : Truncate(n)

Spec == Init /\ [][Next]_vars
=============================================================================

----------------------------- MODULE MCSdFolder -----------------------------
(***************************************************************************)
(* SdFolder with two names: the process works in /c; the folder is a       *)
(* relative or an absolute path called "a"; names below it may be called   *)
(* "a" too, which is when prefixes of paths coincide, and one of them      *)
(* starts with a slash.                                                    *)
(***************************************************************************)
EXTENDS SdListing

Rel(s) == [abs |-> FALSE, comps |-> s]
Abs(s) == [abs |-> TRUE, comps |-> s]

MCNames   == {"a", "b", "c"}
MCCwd     == <<"c">>
MCFolders == {EmptyString, Rel(<<"a">>), Abs(<<"a">>)}
MCFiles   == {EmptyString, Rel(<<"a">>), Abs(<<"a", "b">>)}
=============================================================================

----------------------------- MODULE MCCallFilter -----------------------------
(***************************************************************************)
(* TLC instance of CallFilter: a line that calls write in two ways, an     *)
(* address that is not a phone number, and two prefixes of the first form, *)
(* one within the other; the longer one is a number too.                   *)
(***************************************************************************)
EXTENDS CallFilter

CONSTANTS international, national, sip, short, long

MCNumber == { international, national, sip, long }
MCPrefix == { short, long }

\* Every text starts with itself.
MCBegins ==
    { << t, short >> : t \in { international, long, short } } \cup
    { << t, long >> : t \in { international, long } }

\* Nothing matches an address that is not a phone number, except exactly.
MCSameLine ==
    { international, national } \X { international, national } \cup { << long, long >> }
=============================================================================

----------------------------- MODULE MCTelepathy -----------------------------
(***************************************************************************)
(* TLC instances of TelepathyProvider: one account with SIP calls, or one  *)
(* with cellular calls and their conference.                               *)
(***************************************************************************)
EXTENDS TelepathyProvider, FiniteSets, TLC

CONSTANTS a1, h1, h2, h3, noCall

MCSymmetry == Permutations(Handler)

\* Bound: clients ask something of one call at a time.
OneRequestAtATime == Cardinality(accepting) + Cardinality(hangingUp) <= 1

\* Bound: no filter is installed.
Unfiltered == ~isCallFiltering
=============================================================================

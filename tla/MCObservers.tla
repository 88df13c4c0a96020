----------------------------- MODULE MCObservers -----------------------------
(***************************************************************************)
(* TLC instance of Observers: one provider that may come, go and come back *)
(* with its calls, two handlers.                                           *)
(***************************************************************************)
EXTENDS Observers, TLC

CONSTANTS p1, h1, h2, noCall

MCStatus == { "NULL", "ACTIVE", "INCOMING", "IGNORED", "REJECTED" }

MCSymmetry == Permutations(Handler)
=============================================================================

------------------------- MODULE MCVoiceCallManager -------------------------
(***************************************************************************)
(* TLC instance of VoiceCallManager: two providers, two or three handlers. *)
(***************************************************************************)
EXTENDS VoiceCallManager, TLC

CONSTANTS p1, p2, h1, h2, h3, noCall

MCStatus == { "NULL", "ACTIVE", "INCOMING", "IGNORED", "REJECTED" }

MCSymmetry == Permutations(Provider) \cup Permutations(Handler)
=============================================================================

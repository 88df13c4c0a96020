------------------------------- MODULE MCOfono -------------------------------
(***************************************************************************)
(* TLC instances of OfonoVoiceCallProvider: one or two modems, two call    *)
(* paths, and as many handler objects as the run says.                     *)
(***************************************************************************)
EXTENDS OfonoVoiceCallProvider, TLC

CONSTANTS m1, noCall, c1, c2, h1, h2, h3

MCSymmetry == Permutations(Path) \cup Permutations(Handler)
=============================================================================

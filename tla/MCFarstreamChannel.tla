-------------------------- MODULE MCFarstreamChannel --------------------------
(***************************************************************************)
(* TLC instance of FarstreamChannel: a call with two audio contents, so    *)
(* that one can be added or removed while the other sends, and a video     *)
(* content.                                                                *)
(***************************************************************************)
EXTENDS FarstreamChannel, TLC

CONSTANTS a1, a2, v1, none

MCSymmetry == Permutations(Audio)
=============================================================================

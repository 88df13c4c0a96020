----------------------- MODULE MCVoiceCallAudioRecorder -----------------------
(***************************************************************************)
(* TLC instance of VoiceCallAudioRecorder: enough recordings, so that one  *)
(* can be started from a handler while another one ends.                   *)
(***************************************************************************)
EXTENDS VoiceCallAudioRecorder, TLC

CONSTANTS r1, r2, r3, r4, noRecording

MCSymmetry == Permutations(Recording)
=============================================================================

-------------------------- MODULE MCSpeechSegmenter --------------------------
(***************************************************************************)
(* Small thresholds for SpeechSegmenter.  MinSpeechFrames is above         *)
(* SpeechThreshold so that bursts are discarded, which the default         *)
(* configuration (8, 50, 5) never does; chunks span up to three frames and *)
(* end inside one.                                                         *)
(***************************************************************************)
EXTENDS SpeechSegmenter
=============================================================================

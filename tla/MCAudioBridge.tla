--------------------------- MODULE MCAudioBridge ---------------------------
(***************************************************************************)
(* Model values for AudioBridge: two task identities, so that a second     *)
(* pipeline could start, two transcripts, so that one can repeat the other *)
(* or not, and a queue that two turns fill.                                *)
(***************************************************************************)
EXTENDS AudioBridge
=============================================================================

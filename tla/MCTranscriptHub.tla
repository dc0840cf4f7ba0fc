--------------------------- MODULE MCTranscriptHub ---------------------------
(***************************************************************************)
(* TranscriptHub with two rooms and as many sockets as it takes for an old *)
(* one to be still registered while a new one is opened.                   *)
(***************************************************************************)
EXTENDS TranscriptHub
=============================================================================

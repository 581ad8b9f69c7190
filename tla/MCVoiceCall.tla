---------------------------- MODULE MCVoiceCall ----------------------------
(* Three requests and four other clicks. *)
EXTENDS VoiceCall
=============================================================================

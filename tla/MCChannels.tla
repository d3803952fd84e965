----------------------------- MODULE MCChannels -----------------------------
(* Channels with values for its constants. *)
EXTENDS Channels
=============================================================================

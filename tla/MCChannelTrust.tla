---------------------------- MODULE MCChannelTrust -----------------------------
(* Instances of ChannelTrust: its parameters are numbers, set in the cfgs. *)
EXTENDS ChannelTrust
=============================================================================

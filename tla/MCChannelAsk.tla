----------------------------- MODULE MCChannelAsk -----------------------------
(* Instances of ChannelAsk: the constants come from the configurations.      *)
EXTENDS ChannelAsk
=============================================================================

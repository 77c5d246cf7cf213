---------------------------- MODULE MCBotPoller ----------------------------
(* The instance of BotPoller for TLC. *)
EXTENDS BotPoller
=============================================================================

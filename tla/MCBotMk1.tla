---- MODULE MCBotMk1 ----
(* One bot, a few lines from its program, and turns without end. *)
EXTENDS BotMk1
====

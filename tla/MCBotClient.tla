---------------------------- MODULE MCBotClient ----------------------------
(* A block of four cells, each with two neighbors and two walls. *)
EXTENDS BotClient

Block == (1 .. 2) \X (1 .. 2)
Corner == <<1, 1>>
=============================================================================

---------------------------- MODULE MCSimEngine ----------------------------
(* Three clients for a world of one bot; the program may stop by itself. *)
EXTENDS SimEngine

MCClients == <<"c1", "c2", "c3">>
=============================================================================

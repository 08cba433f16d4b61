---------------------------- MODULE MCTcpSocket ----------------------------
(* The calls the engine and the bot programs make, in small. *)
EXTENDS TcpSocket

MCEol == <<"a", "a", "b">>
MCPayload == <<"a", "b", "a">>
AllCalls == {[op |-> "put", maxlen |-> 0, timeout |-> 2],
             [op |-> "get", maxlen |-> 2, timeout |-> 0],
             [op |-> "get", maxlen |-> 2, timeout |-> 2],
             [op |-> "get", maxlen |-> 2, timeout |-> -1],
             [op |-> "getln", maxlen |-> 0, timeout |-> 2],
             [op |-> "getln", maxlen |-> 4, timeout |-> 2],
             [op |-> "getln", maxlen |-> 2, timeout |-> 0],
             [op |-> "getln", maxlen |-> 0, timeout |-> -1]}
OneLine == {[op |-> "getln", maxlen |-> 0, timeout |-> 1]}
=============================================================================

------------------------------ MODULE MCKeyCache ------------------------------
(* A small instance of KeyCache for TLC. *)
EXTENDS KeyCache

CONSTANTS s1, s2

(* One is only in the local index, the others are asked for. *)
MCOrders == {<<"alice", "bob">>, <<"carol", "alice">>}

MCSources == <<"direct", "keyserver">>
=============================================================================

---------------------------- MODULE DeliveryAttempt ----------------------------
(***************************************************************************)
(* One delivery offered to the remote server, as the sessions of the relay *)
(* see it: the server may take it once, for all its recipients, and the    *)
(* attempt ends in success only after that.  It may end in failure at any  *)
(* time before; a delivery that was not taken then may still be.           *)
(***************************************************************************)
CONSTANT Recipients   \* the recipients of the delivery

VARIABLES
  taken,    \* whom the server took the delivery for; {} until it did
  outcome   \* "pending", "ok" or "failed"

Init == taken = {} /\ outcome = "pending"

Take    == taken = {} /\ taken' = Recipients /\ UNCHANGED outcome
Confirm == outcome = "pending" /\ taken = Recipients /\ outcome' = "ok" /\ UNCHANGED taken
Fail    == outcome = "pending" /\ outcome' = "failed" /\ UNCHANGED taken

Next == Take \/ Confirm \/ Fail

Spec == Init /\ [][Next]_<<taken, outcome>>
=============================================================================

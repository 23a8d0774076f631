---------------------------- MODULE MCSmtpListener ----------------------------
(* Small instances of SmtpListener for TLC. *)
EXTENDS SmtpListener

CONSTANTS c1, c2

(* A mailbox in another spelling than its name, two exceptions of which   *)
(* one allows a split, and the empty path of RCPT TO:<>.                  *)
MCAddress == {"ALICE", "list", "fax", ""}
MCName    == {"alice", "list", "fax", ""}
MCNormalizeEmail == [a \in MCAddress |-> IF a = "ALICE" THEN "alice" ELSE a]
MCUnencryptedRecipients == [a \in {"list", "fax"} |-> a = "list"]

(* No recipient header, and one naming an exception. *)
MCHeaders == {{}, {"list"}}

(* The instances with more messages tell fewer recipients apart. *)
MCTwoAddress == {"alice", "list"}
MCTwoNormalizeEmail == [a \in MCTwoAddress |-> a]
MCTwoHeaders == {{"alice", "list"}}
=============================================================================

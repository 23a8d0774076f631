-------------------------- MODULE MCEncryptedDelivery --------------------------
(* Small instances of EncryptedDelivery for TLC. *)
EXTENDS EncryptedDelivery

CONSTANT MaxLines   \* lines of a message

MCName == {"alice", "bob", "root"}
MCAddressable == {"alice", "bob"}

Cert(fingerprint, edition, emails, usable) ==
  [fingerprint |-> fingerprint, edition |-> edition, emails |-> emails, usable |-> usable]

Alice    == Cert("A", 1, {"alice"}, TRUE)
NewAlice == Cert("A", 2, {"alice"}, TRUE)
Shared   == Cert("A", 3, {"alice", "bob"}, TRUE)   \* her key, which bob now uses, too
Both     == Cert("B", 1, {"alice", "bob"}, TRUE)
Bob      == Cert("C", 1, {"bob"}, TRUE)
Expired  == Cert("D", 1, {"bob"}, FALSE)

KeyFile(kind, sound, all) == [kind |-> kind, sound |-> sound, certs |-> all]
Answer(status, all) == [status |-> status, certs |-> all]

(* A message to two recipients, one in the index and one a service knows. *)
Usual ==
  [files |-> <<KeyFile("regular", TRUE, <<Alice>>), KeyFile("regular", TRUE, <<NewAlice>>),
               KeyFile("symlink", TRUE, <<Bob>>)>>,
   key_files |-> <<2>>,
   key_directories |-> <<{1, 3}>>,
   answers |-> [s \in ToSet(KeyServices) |-> Answer("ok", <<Bob, Alice>>)],
   recipients |-> <<"alice", "bob">>,
   lines |-> <<"allowed", "empty", "text">>,
   unparsed |-> {},
   mode |-> "pgp_mime_body"]

Stores ==
  {[Usual EXCEPT !.files[1] = KeyFile("regular", sound, one), !.files[2].certs = two,
                 !.recipients = recipients] :
     sound \in BOOLEAN,
     one \in {<<>>, <<Alice>>, <<Both, Expired>>, <<NewAlice, Both, Bob>>},
     two \in {<<Alice>>, <<NewAlice, Alice>>, <<Both, Bob>>},
     recipients \in {<<>>, <<"alice">>, <<"root">>, <<"bob", "alice">>, <<"alice", "root">>}}

Services ==
  LET some == {Answer("none", <<>>), Answer("error", <<>>), Answer("disabled", <<>>),
               Answer("ok", <<Alice>>), Answer("ok", <<Both, Bob, Alice>>),
               Answer("ok", <<Shared>>),
               Answer("ok", <<Expired>>)}
  IN  {[Usual EXCEPT !.answers = answers] : answers \in [ToSet(KeyServices) -> some]}

(* In a shorter message one recipient field may be no list of addresses, at *)
(* position i; there is none at position 0.                                 *)
Unparsed ==
  {<<lines, i>> \in BoundedSeq(Lines, MaxLines) \X (0 .. MaxLines - 2) :
     i = 0 \/ (Len(lines) <= MaxLines - 2 /\ i <= Len(lines) /\ lines[i] \in {"allowed", "other"})}

Messages ==
  {[Usual EXCEPT !.lines = message[1], !.unparsed = {message[2]} \ {0}, !.mode = mode] :
     message \in Unparsed, mode \in Modes}

MCCases == Stores \cup Services \cup Messages
=============================================================================

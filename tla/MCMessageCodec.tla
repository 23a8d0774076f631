----------------------------- MODULE MCMessageCodec -----------------------------
(* Small instances of MessageCodec for TLC. *)
EXTENDS MessageCodec

CONSTANTS
  MaxInput,   \* bytes of an input
  MaxLine,    \* bytes of a line of a text
  MaxLines    \* lines of a text

(* Whatever a client may send. *)
AnyInput == BoundedSeq(Bytes, MaxInput)

(* The data of a client that follows the RFC, and a command behind it. *)
Stuffing(line) == IF IsPrefix(<<".">>, line) THEN <<".">> \o line ELSE line

CorrectInput ==
  {FlattenSeq([i \in DOMAIN text |-> Stuffing(text[i]) \o CRLF]) \o Final \o <<"x">> \o CRLF :
     text \in BoundedSeq(BoundedSeq({".", "x"}, MaxLine), MaxLines)}

MCInputs == AnyInput \cup CorrectInput
=============================================================================

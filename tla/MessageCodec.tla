------------------------------ MODULE MessageCodec ------------------------------
(***************************************************************************)
(* The bytes of a message on their way through the relay: lines are read   *)
(* from the client up to the dot (read_message_data, listener.rs) and the  *)
(* stored message is written to the remote server (normalize_crlf and      *)
(* dot_stuff, message.rs; write_message_data, remote_smtp.rs).  This is    *)
(* the path of a delivery in clear, whose data is the stored message; the  *)
(* data of an encrypted one is written by the same code.                   *)
(*                                                                         *)
(* The client may send any bytes and close the connection behind any of    *)
(* them.  A byte is a CR, a LF, a dot or something else.                   *)
(***************************************************************************)
EXTENDS Naturals, Sequences, SequencesExt

CONSTANTS
  Inputs,    \* what the client may send behind the 354
  Limits     \* of listen.message_size_limit_bytes

Bytes == {"CR", "LF", ".", "x"}

CRLF == <<"CR", "LF">>

Final == <<".">> \o CRLF

ASSUME MessageCodecAssumption ==
  /\ Inputs \subseteq Seq(Bytes)
  /\ Limits \subseteq Nat \ {0}

VARIABLES
  limit,     \* listen.message_size_limit_bytes
  sent,      \* what the client sends, from the 354 to the end of the stream
  taken,     \* how much of it has been read
  message,   \* the lines stored so far
  phase,     \* "reading", "stored", "written"; "refused", "closed" end the session
  wire       \* what is written to the remote server behind its 354

vars == <<limit, sent, taken, message, phase, wire>>

-----------------------------------------------------------------------------
(* trim_crlf_bytes. *)
Trimmed(line) ==
  SubSeq(line, 1, SelectLastInSeq(line, LAMBDA byte : byte \notin {"CR", "LF"}))

(* read_until(b'\n'): up to the next LF, or to the end of the stream. *)
NextLine ==
  LET end == SelectInSubSeq(sent, taken + 1, Len(sent), LAMBDA byte : byte = "LF")
  IN  SubSeq(sent, taken + 1, IF end = 0 THEN Len(sent) ELSE end)

\* mutant: no room for the dot and the line end of a stuffed line
LineLimitBare == limit

(* A line may be longer than the message it makes, by a dot and its end. *)
LineLimit == limit + 5

\* mutant: stuffed dots are stored
BodyLineStuffed(trimmed) == trimmed \o CRLF

(* What is stored of a line. *)
BodyLine(trimmed) ==
  (IF IsPrefix(<<".", ".">>, trimmed) THEN Tail(trimmed) ELSE trimmed) \o CRLF

Reading == phase = "reading" /\ UNCHANGED <<limit, sent, wire>>

(* The stream has ended before the dot. *)
Close ==
  /\ Reading
  /\ NextLine = <<>>
  /\ phase' = "closed"
  /\ UNCHANGED <<taken, message>>

Read ==
  /\ Reading
  /\ NextLine # <<>>
  /\ taken' = taken + Len(NextLine)

RefuseLine ==
  /\ Read
  /\ Len(NextLine) > LineLimit
  /\ phase' = "refused"
  /\ UNCHANGED message

EndData ==
  /\ Read
  /\ Len(NextLine) <= LineLimit
  /\ Trimmed(NextLine) = <<".">>
  /\ phase' = "stored"
  /\ UNCHANGED message

\* mutant: the limit is looked at before the line is added
StoreLineLate ==
  /\ Read
  /\ Len(NextLine) <= LineLimit
  /\ Trimmed(NextLine) # <<".">>
  /\ message' = message \o BodyLine(Trimmed(NextLine))
  /\ phase' = IF Len(message) > limit THEN "refused" ELSE "reading"

StoreLine ==
  /\ Read
  /\ Len(NextLine) <= LineLimit
  /\ Trimmed(NextLine) # <<".">>
  /\ message' = message \o BodyLine(Trimmed(NextLine))
  /\ phase' = IF Len(message') > limit THEN "refused" ELSE "reading"

-----------------------------------------------------------------------------
(* The loop of normalize_crlf: with so many bytes left, what comes out of    *)
(* them, when rest is what comes out of those left after an iteration.       *)
Iterate(data, left, rest) ==
  LET index == Len(data) - left + 1 IN
  CASE left = 0 -> <<>>
    [] left # 0 /\ data[index] = "CR" ->
         CRLF \o rest[IF left > 1 /\ data[index + 1] = "LF" THEN left - 2 ELSE left - 1]
    [] left # 0 /\ data[index] = "LF" -> CRLF \o rest[left - 1]
    [] OTHER -> <<data[index]>> \o rest[left - 1]

normalize_crlf(data) ==
  LET loop[left \in 0 .. Len(data)] == Iterate(data, left, loop)
  IN  loop[Len(data)]

\* mutant: a dot in front of everything is no dot behind a LF
StuffedBehindBreaks(data) ==
  FlattenSeq([i \in DOMAIN data |->
    IF data[i] = "." /\ i > 1 /\ data[i - 1] = "LF" THEN <<".", ".">> ELSE <<data[i]>>])

(* A dot before each line that begins with one; lines end behind a LF. *)
Stuffed(data) ==
  FlattenSeq([i \in DOMAIN data |->
    IF data[i] = "." /\ (i = 1 \/ data[i - 1] = "LF") THEN <<".", ".">> ELSE <<data[i]>>])

WithFinalBreak(data) == IF IsSuffix(CRLF, data) THEN data ELSE data \o CRLF

\* mutant: stuffs first and normalizes what comes out
DotStuffFirst(data) == WithFinalBreak(normalize_crlf(Stuffed(data)))

dot_stuff(data) == WithFinalBreak(Stuffed(normalize_crlf(data)))

(* write_message_data. *)
Write ==
  /\ phase = "stored"
  /\ wire' = dot_stuff(message) \o Final
  /\ phase' = "written"
  /\ UNCHANGED <<limit, sent, taken, message>>

-----------------------------------------------------------------------------
Init ==
  /\ limit \in Limits
  /\ sent \in Inputs
  /\ taken = 0
  /\ message = <<>>
  /\ phase = "reading"
  /\ wire = <<>>

Next == Close \/ RefuseLine \/ EndData \/ StoreLine \/ Write

Spec == Init /\ [][Next]_vars

-----------------------------------------------------------------------------
(* The shape of the state: nothing above the limit is ever kept. *)
TypeOK ==
  /\ limit \in Limits
  /\ sent \in Seq(Bytes)
  /\ taken \in 0 .. Len(sent)
  /\ message \in Seq(Bytes)
  /\ phase \in {"reading", "stored", "written", "refused", "closed"}
  /\ phase # "refused" => Len(message) <= limit
  /\ wire \in Seq(Bytes)

-----------------------------------------------------------------------------
(* RFC 5321's reading of data: lines end with CRLF and nothing else, the     *)
(* first one that is a dot ends the data, and the dot a line begins with is  *)
(* not part of it.                                                           *)
LineStart(data, i) == i = 1 \/ (i > 2 /\ data[i - 2] = "CR" /\ data[i - 1] = "LF")

FinalAt(data) ==
  {i \in 1 .. Len(data) - 2 : LineStart(data, i) /\ SubSeq(data, i, i + 2) = Final}

Ended(data) == FinalAt(data) # {}

DataEnd(data) == Min(FinalAt(data)) + 2

Unstuffed(data) ==
  FlattenSeq([i \in DOMAIN data |->
    IF data[i] = "." /\ LineStart(data, i) THEN <<>> ELSE <<data[i]>>])

Text(data) == Unstuffed(SubSeq(data, 1, Min(FinalAt(data)) - 1))

(* Data as a sender that follows the RFC writes it: no CR or LF but in a     *)
(* CRLF, and a second dot where a line begins with one.                      *)
Correct(data) ==
  /\ Ended(data)
  /\ \A i \in 1 .. DataEnd(data) :
       /\ data[i] = "CR" => data[i + 1] = "LF"
       /\ data[i] = "LF" => i > 1 /\ data[i - 1] = "CR"
       /\ data[i] = "." /\ LineStart(data, i) =>
            i = DataEnd(data) - 2 \/ data[i + 1] = "."

(* Every line end, of any kind, is a CRLF. *)
Canonical(data) ==
  FlattenSeq([i \in DOMAIN data |->
    CASE data[i] = "LF" /\ i > 1 /\ data[i - 1] = "CR" -> <<>>
      [] data[i] = "LF" /\ ~(i > 1 /\ data[i - 1] = "CR") -> CRLF
      [] data[i] = "CR" -> CRLF
      [] OTHER -> <<data[i]>>])

(***************************************************************************)
(* From a client that follows the RFC, exactly its text is stored and      *)
(* exactly its data is read: the command it sends next is left.            *)
(***************************************************************************)
StoredAsSubmitted ==
  phase \in {"stored", "written"} /\ Correct(sent) =>
    message = Text(sent) /\ taken = DataEnd(sent)

(***************************************************************************)
(* Its message is refused only if its text is larger than the limit that   *)
(* SIZE announces, stuffing and the final dot not counted.                 *)
(***************************************************************************)
RefusedOnlyAboveLimit ==
  Correct(sent) =>
    /\ phase # "closed"
    /\ phase = "refused" => Len(Text(sent)) > limit

(***************************************************************************)
(* Whatever bytes the client sent, what goes to the remote server is read  *)
(* alike by everybody: correct data, with its end at its end, and the text *)
(* of the stored message with its line ends made CRLF.                     *)
(***************************************************************************)
ArrivesIntact ==
  phase = "written" =>
    /\ Correct(wire)
    /\ DataEnd(wire) = Len(wire)
    /\ Text(wire) = WithFinalBreak(Canonical(message))

(***************************************************************************)
(* Reading and writing together: what a client that follows the RFC        *)
(* submits is what arrives, with the dots its lines begin with and nothing *)
(* more.  Only an empty text becomes an empty line.                        *)
(***************************************************************************)
DeliveredAsSubmitted ==
  phase = "written" /\ Correct(sent) =>
    Text(wire) = IF Text(sent) = <<>> THEN CRLF ELSE Text(sent)
=============================================================================

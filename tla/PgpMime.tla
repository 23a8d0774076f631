-------------------------------- MODULE PgpMime --------------------------------
(***************************************************************************)
(* The message an encrypted delivery is made of (message.rs): what of a    *)
(* submission is encrypted (plaintext_for_encryption) and what of its      *)
(* header goes around the ciphertext in clear (build_encrypted_message).   *)
(*                                                                         *)
(* A message is the sequence of its lines, and of a line only its class    *)
(* matters.  The parts that are made of it are sequences of positions: n   *)
(* is the n-th line of the submission, and 0 an empty line that is added.  *)
(***************************************************************************)
EXTENDS Naturals, Sequences, SequencesExt, FiniteSets

Lines ==
  {"empty",     \* the empty line
   "fold",      \* one that begins with white space, without or
   "fold:",     \* with a colon
   "allowed",   \* a field of OUTER_HEADER_ALLOWLIST: From, To, Subject
   "content",   \* MIME-Version or a Content- field
   "other",     \* another field: Received, Bcc
   "text"}      \* any other line, without a colon

Fields == {"allowed", "content", "other"}
Folds  == {"fold", "fold:"}

-----------------------------------------------------------------------------
(* mailparse, which extract_recipients_from_headers reads the header with:  *)
(* its lines are those before the first empty one.                          *)
ParsedHeader(lines) == {i \in DOMAIN lines : \A j \in 1 .. i : lines[j] # "empty"}

(* Whether the recipients of the header can be read.  A To, Cc or Bcc field *)
(* whose value is no list of addresses is an error; what mailparse makes of *)
(* a header with a line that is neither a field nor folded is left open.    *)
RecipientsParse(lines, unparsed) ==
  IF \E i \in ParsedHeader(lines) : lines[i] = "text" \/ (i = 1 /\ lines[i] \in Folds)
  THEN BOOLEAN
  ELSE {unparsed \cap ParsedHeader(lines) = {}}

-----------------------------------------------------------------------------
(* split_message, at the first two line ends in a row: the lines of the     *)
(* header and of the body.                                                  *)
Breaks(lines) == {i \in 1 .. Len(lines) - 1 : lines[i + 1] = "empty"}

HeaderLines(lines) ==
  LET break == Min(Breaks(lines)) IN
  IF Breaks(lines) = {} THEN DOMAIN lines
  ELSE IF break = 1 /\ lines[1] = "empty" THEN {} ELSE 1 .. break

BodyLines(lines) ==
  IF Breaks(lines) = {} THEN {} ELSE Min(Breaks(lines)) + 2 .. Len(lines)

(* split_header_blocks: the line a block begins with, and its lines. *)
Heads(lines) == {i \in HeaderLines(lines) : lines[i] \notin Folds}

HeadOf(lines, i) == Max({h \in Heads(lines) : h <= i})

Block(lines, head) == {i \in HeaderLines(lines) : head <= i /\ HeadOf(lines, i) = head}

(* The errors of split_header_blocks and build_header_block. *)
IsMalformed(lines) ==
  \/ \E i \in HeaderLines(lines) : i = 1 /\ lines[i] \in Folds
  \/ \E h \in Heads(lines) : \A i \in Block(lines, h) : lines[i] \notin Fields \cup {"fold:"}

(* The lines of the blocks whose name is of a class. *)
FieldLines(lines, class) == UNION {Block(lines, h) : h \in {g \in Heads(lines) : lines[g] = class}}

(* The n-th position is the one that n of them do not exceed. *)
InOrder(positions) ==
  [n \in 1 .. Cardinality(positions) |->
    CHOOSE i \in positions : Cardinality({j \in positions : j <= i}) = n]

\* mutant: no empty line before the body
PgpMimeBodyJoined(lines) ==
  InOrder(FieldLines(lines, "content") \cup BodyLines(lines))

(* The inner entity: the content fields, if any with an empty line behind,  *)
(* and the body.                                                            *)
PgpMimeBody(lines) ==
  InOrder(FieldLines(lines, "content"))
    \o (IF FieldLines(lines, "content") = {} THEN <<>> ELSE <<0>>)
    \o InOrder(BodyLines(lines))

(* plaintext_for_encryption, where it does not fail. *)
plaintext_for_encryption(lines, mode) ==
  IF mode = "full_message" THEN InOrder(DOMAIN lines) ELSE PgpMimeBody(lines)

\* mutant: every field but those of the content goes around the ciphertext
OuterOfAny(lines) == InOrder(UNION {FieldLines(lines, class) : class \in Fields \ {"content"}})

(* The fields build_encrypted_message keeps in clear. *)
OuterHeader(lines) == InOrder(FieldLines(lines, "allowed"))
=============================================================================

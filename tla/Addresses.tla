------------------------------- MODULE Addresses -------------------------------
(***************************************************************************)
(* The normal forms of an address: of a configured exception               *)
(* (normalize_configured_email, config.rs), of a recipient in the plan     *)
(* (normalize_email, message.rs) and in a key lookup                       *)
(* (normalize_lookup_email, openpgp.rs), and the recipient path a RCPT     *)
(* command names (parse_path_argument, listener.rs).                       *)
(*                                                                         *)
(* An address is a sequence of characters; a class of characters that the  *)
(* four treat alike has one representative.  What may be refused is a set  *)
(* with at most one member.                                                *)
(***************************************************************************)
EXTENDS Naturals, Sequences, FiniteSetsExt

Characters ==
  {"a", "b", "A",     \* letters, two of them the same but for their case
   "@", "<", ">", "comma",
   "space",           \* white space
   "u"}               \* what is not ASCII, and no white space

-----------------------------------------------------------------------------
(* to_ascii_lowercase. *)
Lower(text) == [i \in DOMAIN text |-> IF text[i] = "A" THEN "a" ELSE text[i]]

(* What is left between the first and the last character that stays. *)
TrimMatches(text, characters) ==
  LET kept == {i \in DOMAIN text : text[i] \notin characters}
  IN  IF kept = {} THEN <<>> ELSE SubSeq(text, Min(kept), Max(kept))

Trim(text) == TrimMatches(text, {"space"})

Ats(text) == {i \in DOMAIN text : text[i] = "@"}

(* Two non-empty sides. *)
Splits(text, at) == 1 < at /\ at < Len(text)

-----------------------------------------------------------------------------
\* mutant: the local part keeps its case
NormalizeDomain(value) ==
  IF /\ \A i \in DOMAIN value : value[i] \notin {"space", "<", ">", "comma", "u"}
     /\ \E at \in Ats(value) : Ats(value) = {at} /\ Splits(value, at)
  THEN {[i \in DOMAIN value |->
          IF \E at \in Ats(value) : at < i THEN Lower(value)[i] ELSE value[i]]}
  ELSE {}

normalize_configured_email(value) ==
  IF /\ \A i \in DOMAIN value : value[i] \notin {"space", "<", ">", "comma", "u"}
     /\ \E at \in Ats(value) : Ats(value) = {at} /\ Splits(value, at)
  THEN {Lower(value)}
  ELSE {}

normalize_email(value) ==
  Lower(TrimMatches(TrimMatches(Trim(value), {"<"}), {">"}))

(* split_email cuts at the last @. *)
normalize_lookup_email(email) ==
  LET bare == TrimMatches(TrimMatches(Trim(email), {"<"}), {">"})
  IN  IF Ats(bare) # {} /\ Splits(bare, Max(Ats(bare))) THEN {Lower(bare)} ELSE {}

(* What follows the prefix FROM: or TO: and the white space behind it. *)
parse_path_argument(argument) ==
  LET rest    == SubSeq(argument, Min({i \in 1 .. Len(argument) + 1 :
                   i \in DOMAIN argument => argument[i] # "space"}), Len(argument))
      closing == {i \in DOMAIN rest : rest[i] = ">"}
      spaces  == {i \in DOMAIN rest : rest[i] = "space"}
  IN  CASE rest # <<>> /\ rest[1] = "<" /\ closing = {} -> {}
        [] rest # <<>> /\ rest[1] = "<" /\ closing # {} ->
             {Trim(SubSeq(rest, 2, Min(closing) - 1))}
        [] OTHER -> {SubSeq(rest, 1, IF spaces = {} THEN Len(rest) ELSE Min(spaces) - 1)}
=============================================================================

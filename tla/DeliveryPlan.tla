----------------------------- MODULE DeliveryPlan -----------------------------
(***************************************************************************)
(* How the relay splits one submission into deliveries: which envelope     *)
(* recipients go into an encrypted delivery, which into an unencrypted     *)
(* one, when a submission is refused for mixing them, and whose OpenPGP    *)
(* keys an encrypted delivery needs (plan_recipient_deliveries and         *)
(* collect_encryption_recipients in message.rs, prepare_deliveries in      *)
(* openpgp.rs).                                                            *)
(*                                                                         *)
(* A recipient group keeps the recipients of the envelope it takes with    *)
(* their positions: it is the restriction of rcpt_to to a set of           *)
(* positions, so order and repeated RCPTs survive the partition.           *)
(***************************************************************************)
EXTENDS Naturals, Sequences

CONSTANTS
  Address,          \* recipient paths as clients write them in RCPT TO
  Name,             \* what normalize_email makes of an address
  NoName,           \* the empty string, which RCPT TO:<> normalizes to
  normalize_email,  \* trim, strip the angle brackets, lower-case
  unencrypted_recipients  \* configured exceptions: Name -> allow_split_delivery

(***************************************************************************)
(* AppConfig::load refuses a configured exception that is empty and two    *)
(* that normalize to the same address, so the exceptions are a function.   *)
(***************************************************************************)
ASSUME DeliveryPlanAssumption ==
  /\ NoName \in Name
  /\ normalize_email \in [Address -> Name]
  /\ DOMAIN unencrypted_recipients \subseteq Name \ {NoName}
  /\ unencrypted_recipients \in [DOMAIN unencrypted_recipients -> BOOLEAN]

-----------------------------------------------------------------------------
(* The policy lookup of one recipient. *)
IsUnencrypted(a) == normalize_email[a] \in DOMAIN unencrypted_recipients

(* The two halves of the partition, as positions in rcpt_to. *)
EncryptedPart(rcpt_to)   == {i \in DOMAIN rcpt_to : ~IsUnencrypted(rcpt_to[i])}
UnencryptedPart(rcpt_to) == {i \in DOMAIN rcpt_to : IsUnencrypted(rcpt_to[i])}

\* mutant: |= for &=
AnyUnencryptedRecipientAllowsSplit(rcpt_to) ==
  \E i \in UnencryptedPart(rcpt_to) :
    unencrypted_recipients[normalize_email[rcpt_to[i]]]

EveryUnencryptedRecipientAllowsSplit(rcpt_to) ==
  \A i \in UnencryptedPart(rcpt_to) :
    unencrypted_recipients[normalize_email[rcpt_to[i]]]

(* The recipients a group takes from the envelope. *)
RecipientGroup(rcpt_to, part) == [i \in part |-> rcpt_to[i]]

\* mutant: push_unique keeps the empty string
RecipientsWithEmpty(group) == {normalize_email[group[i]] : i \in DOMAIN group}

(* push_unique drops the empty string and repetitions. *)
NormalizedRecipients(group) ==
  {normalize_email[group[i]] : i \in DOMAIN group} \ {NoName}

(* bail!: mixed recipients without the permission to split. *)
Refused(rcpt_to) ==
  /\ EncryptedPart(rcpt_to) # {}
  /\ UnencryptedPart(rcpt_to) # {}
  /\ ~EveryUnencryptedRecipientAllowsSplit(rcpt_to)

(* The kinds of the deliveries prepare_deliveries returns, in their order. *)
\* mutant: vec![unencrypted, encrypted]
ClearFirstKinds(rcpt_to) ==
  IF UnencryptedPart(rcpt_to) = {} THEN <<"Encrypted">>
  ELSE IF EncryptedPart(rcpt_to) = {} THEN <<"Unencrypted">>
  ELSE <<"Unencrypted", "Encrypted">>

PlanKinds(rcpt_to) ==
  IF UnencryptedPart(rcpt_to) = {} THEN <<"Encrypted">>
  ELSE IF EncryptedPart(rcpt_to) = {} THEN <<"Unencrypted">>
  ELSE <<"Encrypted", "Unencrypted">>

(***************************************************************************)
(* The header and envelope recipients whose keys the ciphertext is made    *)
(* for.  Only a split excludes anyone: the envelope's own exceptions.      *)
(***************************************************************************)
ExcludedRecipients(rcpt_to) ==
  IF EncryptedPart(rcpt_to) = {} \/ UnencryptedPart(rcpt_to) = {} THEN {}
  ELSE NormalizedRecipients(RecipientGroup(rcpt_to, UnencryptedPart(rcpt_to)))

EncryptionRecipients(header_recipients, rcpt_to) ==
  (header_recipients
     \cup NormalizedRecipients(RecipientGroup(rcpt_to, EncryptedPart(rcpt_to))))
  \ ExcludedRecipients(rcpt_to)

(***************************************************************************)
(* One prepared delivery: its kind, the envelope it is sent with, and the  *)
(* names whose certificates can read it ({} for the raw message).          *)
(***************************************************************************)
PreparedDelivery(kind, mail_from, rcpt_to, header_recipients) ==
  [kind      |-> kind,
   mail_from |-> mail_from,
   rcpt_to   |-> RecipientGroup(rcpt_to,
                   IF kind = "Encrypted" THEN EncryptedPart(rcpt_to)
                                         ELSE UnencryptedPart(rcpt_to)),
   readers   |-> IF kind = "Encrypted"
                 THEN EncryptionRecipients(header_recipients, rcpt_to) ELSE {}]

Deliveries(mail_from, rcpt_to, header_recipients) ==
  LET kinds == PlanKinds(rcpt_to)
  IN  [n \in DOMAIN kinds |->
         PreparedDelivery(kinds[n], mail_from, rcpt_to, header_recipients)]
=============================================================================

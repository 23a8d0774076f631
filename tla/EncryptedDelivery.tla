--------------------------- MODULE EncryptedDelivery ---------------------------
(***************************************************************************)
(* How one encrypted delivery is prepared (prepare_encrypted_delivery,     *)
(* openpgp.rs) with the keys that are there: the local index built from    *)
(* key files and directories, the answers of the key services, the         *)
(* certificates the message is encrypted for, and the message that results *)
(* (PgpMime).  KeyCache has the cache in between, and the time all this    *)
(* takes.                                                                  *)
(*                                                                         *)
(* A certificate is known by its fingerprint, comes in editions (updates   *)
(* its owner published), and names the addresses of its owner; an edition  *)
(* with a live encryption key is usable.  A key file is a number, and the  *)
(* order of paths is that of their numbers.                                *)
(***************************************************************************)
EXTENDS PgpMime

CONSTANTS
  Name,         \* normalized addresses
  Addressable,  \* those of them with two sides
  Cases         \* what there is: keys, and a message with its recipients;
                \* unparsed are the lines of its To, Cc and Bcc fields whose
                \* values are no lists of addresses

Certs == [fingerprint : STRING, edition : Nat, emails : SUBSET Name, usable : BOOLEAN]

KeyServices == <<"advanced", "direct", "keyserver">>

Modes == {"pgp_mime_body", "full_message"}

ASSUME EncryptedDeliveryAssumption ==
  /\ Addressable \subseteq Name
  /\ \A case \in Cases :
       /\ case.files \in [DOMAIN case.files ->
            [kind : {"regular", "symlink"}, sound : BOOLEAN, certs : Seq(Certs)]]
       /\ DOMAIN case.files \subseteq Nat /\ IsFiniteSet(DOMAIN case.files)
       /\ case.key_files \in Seq(DOMAIN case.files)
       /\ case.key_directories \in Seq(SUBSET DOMAIN case.files)
       /\ case.answers \in [ToSet(KeyServices) ->
            [status : {"ok", "none", "error", "disabled"}, certs : Seq(Certs)]]
       /\ case.recipients \in Seq(Name)
       /\ case.lines \in Seq(Lines)
       /\ case.unparsed \subseteq {i \in DOMAIN case.lines : case.lines[i] \in {"allowed", "other"}}
       /\ case.mode \in Modes

VARIABLES
  case,       \* the keys there are and the message to deliver
  pc,
  files,      \* the key files still to be read
  local_index,
  resolved,   \* how many recipients have their certificates
  certs,      \* theirs, and in the end those the message is encrypted for
  plaintext,
  outer       \* the fields around the ciphertext

vars == <<case, pc, files, local_index, resolved, certs, plaintext, outer>>

-----------------------------------------------------------------------------
(* What stays of a list. *)
Kept(all, positions) ==
  LET kept == InOrder(positions) IN [n \in DOMAIN kept |-> all[kept[n]]]

\* mutant: editions are told apart
DeduplicateEditions(all) ==
  Kept(all, {i \in DOMAIN all : \A j \in 1 .. i - 1 : all[j] # all[i]})

(* Of each fingerprint the first edition stays. *)
deduplicate_certs(all) ==
  Kept(all, {i \in DOMAIN all : \A j \in 1 .. i - 1 : all[j].fingerprint # all[i].fingerprint})

\* mutant: whatever comes is taken
FilterNothing(all, recipient) == all

filter_certs_for_email(all, recipient) ==
  Kept(all, {i \in DOMAIN all : recipient \in all[i].emails})

(* Only the entries of a directory that are regular files themselves. *)
read_directory_files(directory) ==
  InOrder({f \in directory : case.files[f].kind = "regular"})

KeyFiles ==
  case.key_files \o FlattenSeq([i \in DOMAIN case.key_directories |->
    read_directory_files(case.key_directories[i])])

-----------------------------------------------------------------------------
\* mutant: the last file wins
IndexFileAnew ==
  /\ pc = "index"
  /\ files # <<>>
  /\ files' = Tail(files)
  /\ local_index' = [n \in Name |->
       LET new == filter_certs_for_email(case.files[Head(files)].certs, n)
       IN  IF new = <<>> THEN local_index[n] ELSE new]
  /\ UNCHANGED <<case, pc, resolved, certs, plaintext, outer>>

(* build_local_key_index: one file more. *)
IndexFile ==
  /\ pc = "index"
  /\ files # <<>>
  /\ IF case.files[Head(files)].sound
     THEN /\ files' = Tail(files)
          /\ local_index' = [n \in Name |->
               local_index[n] \o filter_certs_for_email(case.files[Head(files)].certs, n)]
          /\ UNCHANGED pc
     ELSE pc' = "failed" /\ UNCHANGED <<files, local_index>>
  /\ UNCHANGED <<case, resolved, certs, plaintext, outer>>

FinishIndex ==
  /\ pc = "index"
  /\ files = <<>>
  /\ local_index' = [n \in Name |-> deduplicate_certs(local_index[n])]
  /\ pc' = "ready"
  /\ UNCHANGED <<case, files, resolved, certs, plaintext, outer>>

(* The recipients are collected and the plaintext made, before any lookup. *)
PreparePlaintext ==
  /\ pc = "ready"
  /\ \E parsed \in RecipientsParse(case.lines, case.unparsed) :
       IF \/ ~parsed
          \/ case.recipients = <<>>
          \/ case.mode = "pgp_mime_body" /\ IsMalformed(case.lines)
       THEN pc' = "refused" /\ UNCHANGED plaintext
       ELSE /\ pc' = "resolve"
            /\ plaintext' = plaintext_for_encryption(case.lines, case.mode)
  /\ UNCHANGED <<case, files, local_index, resolved, certs, outer>>

(* What fetch_certs makes of an answer; {} is an error. *)
Fetched(service, recipient) ==
  LET answer == case.answers[service]
      mine   == filter_certs_for_email(answer.certs, recipient)
  IN  CASE answer.status \in {"none", "disabled"} -> {<<>>}
        [] answer.status = "ok" /\ mine # <<>> -> {mine}
        [] OTHER -> {}

\* mutant: a failing Web Key Directory fails the lookup
ResolutionToError(recipient) ==
  LET Found(service) == Fetched(service, recipient) IN
  IF local_index[recipient] # <<>> THEN {local_index[recipient]}
  ELSE IF Found("advanced") # {<<>>} THEN Found("advanced")
  ELSE IF Found("direct") # {<<>>} THEN Found("direct")
  ELSE Found("keyserver") \ {<<>>}

(* resolve_recipient_certs without the cache: the index, the two places of   *)
(* a Web Key Directory, of which errors do not count, and the key server.    *)
Resolution(recipient) ==
  LET Found(service) == Fetched(service, recipient) \ {<<>>} IN
  IF local_index[recipient] # <<>> THEN {local_index[recipient]}
  ELSE IF Found("advanced") # {} THEN Found("advanced")
  ELSE IF Found("direct") # {} THEN Found("direct")
  ELSE Found("keyserver")

\* mutant: a recipient without a certificate is left out
ResolveSome ==
  /\ pc = "resolve"
  /\ resolved < Len(case.recipients)
  /\ LET found == Resolution(case.recipients[resolved + 1]) IN
     certs' = certs \o (IF found = {} THEN <<>> ELSE CHOOSE all \in found : TRUE)
  /\ resolved' = resolved + 1
  /\ UNCHANGED <<case, pc, files, local_index, plaintext, outer>>

Resolve ==
  /\ pc = "resolve"
  /\ resolved < Len(case.recipients)
  /\ LET recipient == case.recipients[resolved + 1] IN
     \/ /\ recipient \in Addressable
        /\ \E all \in Resolution(recipient) : certs' = certs \o all
        /\ resolved' = resolved + 1
        /\ UNCHANGED pc
     \/ /\ recipient \notin Addressable \/ Resolution(recipient) = {}
        /\ pc' = "refused"
        /\ UNCHANGED <<resolved, certs>>
  /\ UNCHANGED <<case, files, local_index, plaintext, outer>>

(* encrypt_to_armored_message: each certificate has to have a key for it. *)
Encrypt ==
  /\ pc = "resolve"
  /\ resolved = Len(case.recipients)
  /\ certs' = deduplicate_certs(certs)
  /\ pc' = IF \A i \in DOMAIN certs' : certs'[i].usable THEN "encrypted" ELSE "refused"
  /\ UNCHANGED <<case, files, local_index, resolved, plaintext, outer>>

(* build_encrypted_message. *)
Build ==
  /\ pc = "encrypted"
  /\ IF IsMalformed(case.lines)
     THEN pc' = "refused" /\ UNCHANGED outer
     ELSE pc' = "prepared" /\ outer' = OuterHeader(case.lines)
  /\ UNCHANGED <<case, files, local_index, resolved, certs, plaintext>>

-----------------------------------------------------------------------------
Init ==
  /\ case \in Cases
  /\ pc = "index"
  /\ files = KeyFiles
  /\ local_index = [n \in Name |-> <<>>]
  /\ resolved = 0
  /\ certs = <<>>
  /\ plaintext = <<>>
  /\ outer = <<>>

Next ==
  \/ IndexFile \/ FinishIndex \/ PreparePlaintext \/ Resolve \/ Encrypt \/ Build

Spec == Init /\ [][Next]_vars

-----------------------------------------------------------------------------
(* Types, and that what is encrypted for is never empty. *)
TypeOK ==
  /\ pc \in {"index", "failed", "ready", "resolve", "refused", "encrypted", "prepared"}
  /\ files \in Seq(DOMAIN case.files)
  /\ local_index \in [Name -> Seq(Certs)]
  /\ resolved \in 0 .. Len(case.recipients)
  /\ certs \in Seq(Certs) /\ (pc \in {"encrypted", "prepared"} => certs # <<>>)
  /\ ToSet(plaintext) \subseteq {0} \cup DOMAIN case.lines
  /\ ToSet(outer) \subseteq DOMAIN case.lines

(* Once the index is built, it has every key of every name in every file     *)
(* that was named or lies in a key directory, each key once, and under no    *)
(* name its certificate does not have.                                       *)
Fingerprints(all) == {cert.fingerprint : cert \in all}

InFiles == UNION {ToSet(case.files[f].certs) : f \in ToSet(KeyFiles)}

Of(name, all) == {cert \in all : name \in cert.emails}

IndexComplete ==
  pc \notin {"index", "failed"} => \A n \in Name :
    /\ Fingerprints(ToSet(local_index[n])) = Fingerprints(Of(n, InFiles))
    /\ Len(local_index[n]) = Cardinality(Fingerprints(ToSet(local_index[n])))

(* The ciphertext is for each recipient, with a key of theirs that works,    *)
(* and for nobody else: a key service that also sends other people's         *)
(* certificates makes no reader of them.  The edition of the key may be one  *)
(* that does not name the recipient yet, when another source had it first.   *)
InAnswers ==
  UNION {ToSet(case.answers[s].certs) :
    s \in {t \in ToSet(KeyServices) : case.answers[t].status = "ok"}}

EncryptedForRecipients ==
  pc \in {"encrypted", "prepared"} =>
    /\ \A r \in ToSet(case.recipients) : \E cert \in ToSet(certs) :
         cert.usable /\ cert.fingerprint \in Fingerprints(Of(r, InFiles \cup InAnswers))
    /\ \A cert \in ToSet(certs) : cert.emails \cap ToSet(case.recipients) # {}

(* It is for each key once, whatever editions of it the recipients and the   *)
(* sources brought.                                                          *)
EachKeyOnce ==
  pc \in {"encrypted", "prepared"} =>
    \A i, j \in DOMAIN certs : certs[i].fingerprint = certs[j].fingerprint => i = j

(* RFC 5322's reading of a message: its header ends before the first empty   *)
(* line, and a folded line belongs to the field before it (to none, when the *)
(* message begins with it).                                                  *)
BeginsWithField(lines) == lines # <<>> /\ lines[1] \in Fields

HeaderEnd(lines) ==
  Min({i \in DOMAIN lines : lines[i] = "empty"} \cup {Len(lines) + 1}) - 1

ClassOf(lines, i) == lines[Max({1} \cup {h \in 1 .. i : lines[h] \notin Folds})]

InHeader(lines, class) == {i \in 1 .. HeaderEnd(lines) : ClassOf(lines, i) = class}

(* Outer fields in clear, the body encrypted (README, What It Does): around  *)
(* the ciphertext go fields of the allow list, folded lines with them, and   *)
(* no line of the body or of another field (Bcc, Received), however the      *)
(* message is laid out.                                                      *)
NothingElseInClear == \A i \in ToSet(outer) : i \in InHeader(case.lines, "allowed")

(* What build_encrypted_message keeps of it: it is so of every message but   *)
(* one with an empty line first and a folded one second, where split_message *)
(* takes lines of the body for the header.                                   *)
OnlyFieldsInClear ==
  ~(Len(case.lines) >= 2 /\ case.lines[1] = "empty" /\ case.lines[2] \in Folds) =>
    \A i \in ToSet(outer) : i \in InHeader(case.lines, "allowed")

(* Who decrypts reads what was submitted: all of it in full_message mode;    *)
(* else the content fields and behind the next empty line the body, or, of a *)
(* message without content fields, the body and nothing else.                *)
DecryptsToTheSubmission ==
  LET lines  == case.lines
      body   == [i \in 1 .. Len(lines) - HeaderEnd(lines) - 1 |-> HeaderEnd(lines) + 1 + i]
      fields == InHeader(lines, "content")
  IN
  pc = "prepared" /\ BeginsWithField(lines) =>
    CASE case.mode = "full_message" -> plaintext = [i \in DOMAIN lines |-> i]
      [] case.mode = "pgp_mime_body" /\ fields = {} -> plaintext = body
      [] OTHER ->
           LET break == SelectInSeq(plaintext, LAMBDA p : p = 0) IN
           /\ ToSet(SubSeq(plaintext, 1, break - 1)) = fields
           /\ SubSeq(plaintext, break + 1, Len(plaintext)) = body

(* A message that begins with a field is refused for its header (a line that *)
(* is neither a field nor folded, or a To, Cc or Bcc field that is no list   *)
(* of addresses), for want of a recipient, or for the keys: none of a        *)
(* recipient to be had, or one that cannot be used.                          *)
PreparationRefusedForCause ==
  pc = "refused" /\ BeginsWithField(case.lines) =>
    \/ case.recipients = <<>>
    \/ \E i \in 1 .. HeaderEnd(case.lines) : case.lines[i] = "text" \/ i \in case.unparsed
    \/ \E r \in ToSet(case.recipients) : r \notin Addressable \/ Of(r, InFiles \cup InAnswers) = {}
    \/ \E cert \in ToSet(certs) : ~cert.usable

(* PGP/MIME (README, What It Does): what the ciphertext holds is read as a   *)
(* MIME entity, its fields up to the first line that is not one, and an      *)
(* empty line behind them left out.  No line of the submitted body that has  *)
(* something in it is missing from the body so read.                         *)
LineAt(p) == IF p = 0 THEN "empty" ELSE case.lines[p]

EntityBody ==
  LET fields == Max({n \in 0 .. Len(plaintext) :
                  \A k \in 1 .. n :
                    \/ LineAt(plaintext[k]) \in Fields
                    \/ k > 1 /\ LineAt(plaintext[k]) \in Folds})
      rest   == SubSeq(plaintext, fields + 1, Len(plaintext))
  IN  IF rest # <<>> /\ LineAt(rest[1]) = "empty" THEN Tail(rest) ELSE rest

ReaderGetsTheBody ==
  pc = "prepared" /\ case.mode = "pgp_mime_body" /\ BeginsWithField(case.lines) =>
    \A i \in BodyLines(case.lines) : case.lines[i] # "empty" => i \in ToSet(EntityBody)
=============================================================================

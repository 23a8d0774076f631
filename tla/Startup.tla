-------------------------------- MODULE Startup --------------------------------
(***************************************************************************)
(* From the command line to a listener: AppConfig::load (config.rs) with   *)
(* the credentials of secret.rs, --check-config (main.rs), and the         *)
(* services App::from_config builds (app.rs, tls.rs, openpgp.rs), while    *)
(* the operator may replace files that hold credentials.                   *)
(*                                                                         *)
(* A configuration is what serde makes of the file, with the defaults it   *)
(* fills in.  Its numbers count what they count up to one, its texts are   *)
(* empty, blank or not; of the bytes of a file, line ends and what its     *)
(* parser does not take ("bad") matter.                                    *)
(***************************************************************************)
EXTENDS Addresses, SequencesExt, FiniteSets

CONSTANTS
  Directory,         \* directories, and "relative", where a path is not absolute
  Filename,          \* names of files
  Starts,            \* configurations with the file at each place
  Replacements,      \* files the operator puts at the place of a credential
  Recipients,        \* what clients write for a recipient
  MaxSecretBytes,    \* MAX_SECRET_BYTES
  MaxReplacements    \* bound of the model: files replaced

(* A start has two credentials: the clients' and the relay's own. *)
Credentials == {"listen", "remote"}

Texts == {"listen.auth.username", "remote_smtp.host", "remote_smtp.hello_name",
          "remote_smtp.auth.username"}

Numbers == {"allowed_networks", "message_size_limit_bytes", "port", "connect_timeout_secs",
            "command_timeout_secs", "http_timeout_secs"}

Bytes == {"x", "CR", "LF", "bad"}

File == [kind : {"missing", "directory", "fifo", "regular"}, bytes : Seq(Bytes)]

(* An Option is a set with at most one member. *)
IsOptional(x) == \A a, b \in x : a = b

(* A relative path, or the directory of an absolute one; and a name in it. *)
Paths == Directory \X Filename
Empty == <<"relative", "(empty)">>

IsConfig(config) ==
  /\ config.parses \in BOOLEAN
  /\ config.number \in [Numbers -> Nat]
  /\ config.text \in [Texts -> {"empty", "blank", "text"}]
  /\ config.secret \in [Credentials -> [value : SUBSET Seq(Bytes), file : SUBSET Paths]]
  /\ \A c \in Credentials :
       IsOptional(config.secret[c].value) /\ IsOptional(config.secret[c].file)
  /\ config.exceptions \in Seq([address : Seq(Characters), allow_split_delivery : BOOLEAN])
  /\ config.roots \in Seq(Paths)
  /\ config.key_files \in Seq(Paths)
  /\ config.key_directories \in Seq(Paths)
  /\ config.key_services \in BOOLEAN

ASSUME StartupAssumption ==
  /\ {"relative", "base", "cwd"} \subseteq Directory
  /\ \A start \in Starts :
       /\ IsConfig(start.config)
       /\ DOMAIN start.fs \subseteq Paths /\ IsFiniteSet(DOMAIN start.fs)
       /\ start.fs \in [DOMAIN start.fs -> File]
  /\ Replacements \subseteq File
  /\ Recipients \subseteq Seq(Characters)
  /\ MaxSecretBytes \in Nat \ {0}
  /\ MaxReplacements \in Nat

VARIABLES
  config,         \* the configuration
  check_config,   \* the flag of the command line
  fs,             \* the file at each place
  held,           \* the files there have been at each place since the start
  pc,             \* the step of the start; "refused" or "valid" end the loading of
                  \* the configuration, "failed" or "ready" that of the services
  secret,         \* the credentials: SecretSource
  exceptions,     \* openpgp.unencrypted_recipients, normalized
  todo            \* the files still to be read by this step

vars == <<config, check_config, fs, held, pc, secret, exceptions, todo>>

Environment == UNCHANGED <<config, check_config, fs, held>>

-----------------------------------------------------------------------------
(* Where a path leads: a relative one starts from the working directory. *)
Place(path) == IF path[1] = "relative" THEN <<"cwd", path[2]>> ELSE path

FileAt(path) ==
  IF Place(path) \in DOMAIN fs THEN fs[Place(path)] ELSE [kind |-> "missing", bytes |-> <<>>]

(* base_dir.join, for a path that is relative. *)
Join(path) == IF path[1] = "relative" THEN <<"base", path[2]>> ELSE path

Joined(paths) == [i \in DOMAIN paths |-> Join(paths[i])]

(* from_sources: exactly one of value and file. *)
HasOneSource(source) == (source.value = {}) # (source.file = {})

(* The deserializers of both credentials. *)
CredentialsParse == \A c \in Credentials : HasOneSource(config.secret[c])

(* SecretString::resolve_relative_path leaves an empty path to resolve_file. *)
SecretPath(path) == IF path = Empty THEN path ELSE Join(path)

(* load: parse the file, take the credentials from their sources, resolve    *)
(* the paths.                                                                *)
Load ==
  /\ pc = "start"
  /\ Environment
  /\ IF config.parses /\ CredentialsParse
     THEN /\ pc' = "listen"
          /\ secret' = [c \in Credentials |->
               [config.secret[c] EXCEPT !.file = {SecretPath(path) : path \in @}]]
     ELSE pc' = "refused" /\ UNCHANGED secret
  /\ UNCHANGED <<exceptions, todo>>

-----------------------------------------------------------------------------
\* mutant: every line end goes
StrippedOfAll(bytes) ==
  SubSeq(bytes, 1, Max({0} \cup {i \in DOMAIN bytes : bytes[i] \notin {"CR", "LF"}}))

(* One line end goes. *)
Stripped(bytes) ==
  CASE IsSuffix(<<"CR", "LF">>, bytes) -> SubSeq(bytes, 1, Len(bytes) - 2)
    [] IsSuffix(<<"LF">>, bytes) /\ ~IsSuffix(<<"CR", "LF">>, bytes) -> Front(bytes)
    [] OTHER -> bytes

\* mutant: a file that fills the limit is taken for a longer one
HoldsShorterSecret(file) ==
  /\ file.kind = "regular"
  /\ Len(file.bytes) < MaxSecretBytes
  /\ "bad" \notin ToSet(Stripped(file.bytes))
  /\ Stripped(file.bytes) # <<>>

(* It can be opened, without waiting for a writer, and is a credential. *)
HoldsSecret(file) ==
  /\ file.kind = "regular"
  /\ Len(file.bytes) <= MaxSecretBytes
  /\ "bad" \notin ToSet(Stripped(file.bytes))
  /\ Stripped(file.bytes) # <<>>

(* resolve_file: the file is opened once, so a replacement is seen whole or not. *)
ResolveFile(c, next) ==
  /\ Environment
  /\ \/ /\ secret[c].file = {}
        /\ pc' = next
        /\ UNCHANGED secret
     \/ \E path \in secret[c].file :
          IF path # Empty /\ HoldsSecret(FileAt(path))
          THEN /\ secret' = [secret EXCEPT ![c] =
                    [value |-> {Stripped(FileAt(path).bytes)}, file |-> {}]]
               /\ pc' = next
          ELSE pc' = "refused" /\ UNCHANGED secret
  /\ UNCHANGED <<exceptions, todo>>

\* mutant: opened without O_NONBLOCK, a FIFO is waited for
ResolveListenSecretBlocking ==
  /\ pc = "listen"
  /\ \A path \in secret["listen"].file : FileAt(path).kind # "fifo"
  /\ ResolveFile("listen", "remote")

(* resolve_secret_files, one file after the other. *)
ResolveListenSecret == pc = "listen" /\ ResolveFile("listen", "remote")

ResolveRemoteSecret == pc = "remote" /\ ResolveFile("remote", "normalize")

-----------------------------------------------------------------------------
\* mutant: entries are compared as they are written
IsDuplicateRaw(i, j) == config.exceptions[i].address = config.exceptions[j].address

IsDuplicate(i, j) ==
  normalize_configured_email(config.exceptions[i].address) =
    normalize_configured_email(config.exceptions[j].address)

Normalized(entry) ==
  {[entry EXCEPT !.address = address] : address \in normalize_configured_email(entry.address)}

(* normalize_unencrypted_recipients. *)
Normalize ==
  LET entries == config.exceptions IN
  /\ pc = "normalize"
  /\ Environment
  /\ IF /\ \A i \in DOMAIN entries : Normalized(entries[i]) # {}
        /\ \A i, j \in DOMAIN entries : i < j => ~IsDuplicate(i, j)
     THEN /\ exceptions' = [i \in DOMAIN entries |-> CHOOSE e \in Normalized(entries[i]) : TRUE]
          /\ pc' = "validate"
     ELSE pc' = "refused" /\ UNCHANGED exceptions
  /\ UNCHANGED <<secret, todo>>

(* validate, which exposes both credentials. *)
IsValid ==
  /\ \A t \in Texts : config.text[t] # "empty"
  /\ \A t \in {"remote_smtp.host", "remote_smtp.hello_name"} : config.text[t] # "blank"
  /\ \A c \in Credentials : \E value \in secret[c].value : value # <<>>
  /\ \A n \in Numbers \ {"http_timeout_secs"} : config.number[n] # 0
  /\ config.key_services \/ config.key_files # <<>> \/ config.key_directories # <<>>

(* With --check-config the process ends here. *)
Validate ==
  /\ pc = "validate"
  /\ Environment
  /\ pc' = IF ~IsValid THEN "refused" ELSE IF check_config THEN "valid" ELSE "roots"
  /\ todo' = IF pc' = "roots" THEN Joined(config.roots) ELSE <<>>
  /\ UNCHANGED <<secret, exceptions>>

-----------------------------------------------------------------------------
(* Opening a FIFO to read it waits for a writer. *)
Waits == todo # <<>> /\ FileAt(Head(todo)).kind = "fifo"

(* The file is there and its parser is satisfied with it. *)
IsSound(file) == file.kind = "regular" /\ "bad" \notin ToSet(file.bytes)

\* mutant: the files behind a bad one are left
ReadFileUntilBad ==
  /\ pc \in {"roots", "keys"}
  /\ todo # <<>>
  /\ ~Waits
  /\ Environment
  /\ todo' = Tail(todo)
  /\ pc' = IF IsSound(FileAt(Head(todo))) THEN pc ELSE "failed"
  /\ UNCHANGED <<secret, exceptions>>

(* fs::read and what is made of the content. *)
ReadFile ==
  /\ pc \in {"roots", "keys"}
  /\ todo # <<>>
  /\ ~Waits
  /\ Environment
  /\ IF IsSound(FileAt(Head(todo)))
     THEN todo' = Tail(todo) /\ UNCHANGED pc
     ELSE pc' = "failed" /\ todo' = <<>>
  /\ UNCHANGED <<secret, exceptions>>

(* read_directory_files: the regular files of a directory. *)
Listing(directory) ==
  SetToSeq({place \in DOMAIN fs : place[1] = directory[2] /\ fs[place].kind = "regular"})

(* http_client, and the files build_local_key_index collects. *)
BuildHttpClient ==
  LET directories == Joined(config.key_directories) IN
  /\ pc = "roots"
  /\ todo = <<>>
  /\ Environment
  /\ IF /\ config.number["http_timeout_secs"] # 0
        /\ \A i \in DOMAIN directories : FileAt(directories[i]).kind = "directory"
     THEN /\ pc' = "keys"
          /\ todo' = Joined(config.key_files)
                       \o FlattenSeq([i \in DOMAIN directories |-> Listing(directories[i])])
     ELSE pc' = "failed" /\ UNCHANGED todo
  /\ UNCHANGED <<secret, exceptions>>

(* The services are there: the listener is built and runs. *)
BuildListener ==
  /\ pc = "keys"
  /\ todo = <<>>
  /\ pc' = "ready"
  /\ Environment
  /\ UNCHANGED <<secret, exceptions, todo>>

(* The operator puts another file at the place of a credential. *)
Replace(path, file) ==
  /\ Cardinality(UNION {held[p] \X {p} : p \in DOMAIN held})
       < Cardinality(DOMAIN held) + MaxReplacements
  /\ file \notin held[Place(Join(path))]
  /\ fs' = [fs EXCEPT ![Place(Join(path))] = file]
  /\ held' = [held EXCEPT ![Place(Join(path))] = @ \cup {file}]
  /\ UNCHANGED <<config, check_config, pc, secret, exceptions, todo>>

-----------------------------------------------------------------------------
Init ==
  /\ \E start \in Starts : config = start.config /\ fs = start.fs
  /\ check_config \in BOOLEAN
  /\ held = [place \in DOMAIN fs |-> {fs[place]}]
  /\ pc = "start"
  /\ secret = config.secret
  /\ exceptions = <<>>
  /\ todo = <<>>

Start ==
  \/ Load \/ ResolveListenSecret \/ ResolveRemoteSecret \/ Normalize \/ Validate
  \/ ReadFile \/ BuildHttpClient \/ BuildListener

Operator ==
  \E c \in Credentials, file \in Replacements : \E path \in config.secret[c].file :
    path # Empty /\ Place(Join(path)) \in DOMAIN fs /\ Replace(path, file)

Next == Start \/ Operator

(* The process runs whenever it has a step to take. *)
Spec == Init /\ [][Next]_vars /\ WF_vars(Start)

-----------------------------------------------------------------------------
Loaded == pc \in {"valid", "roots", "keys", "failed", "ready"}

(* Types, and what each step leaves to the next: files are only pending      *)
(* while services are built, and a loaded configuration has no credential    *)
(* left in a file.                                                           *)
TypeOK ==
  /\ pc \in {"start", "listen", "remote", "normalize", "validate", "refused",
             "valid", "roots", "keys", "failed", "ready"}
  /\ secret \in [Credentials -> [value : SUBSET Seq(Bytes), file : SUBSET Paths]]
  /\ \A c \in Credentials :
       /\ IsOptional(secret[c].value) /\ IsOptional(secret[c].file)
       /\ Loaded => secret[c].file = {} /\ secret[c].value # {}
  /\ exceptions \in Seq([address : Seq(Characters), allow_split_delivery : BOOLEAN])
  /\ todo \in Seq(Paths) /\ (pc \notin {"roots", "keys"} => todo = <<>>)

(* A loaded credential is the one configured: the text in the configuration, *)
(* or, whatever was replaced meanwhile, one that some file at the configured *)
(* place held, the place being relative to the configuration's directory,    *)
(* with at most one line end cut and nothing else (README, File-backed       *)
(* credentials).                                                             *)
HeldAt(path) ==
  LET place == IF path[1] = "relative" THEN <<"base", path[2]>> ELSE path
  IN  IF place \in DOMAIN held THEN held[place] ELSE {[kind |-> "missing", bytes |-> <<>>]}

IsFiled(text, path) ==
  \E file \in HeldAt(path), end \in {<<>>, <<"LF">>, <<"CR", "LF">>} :
    /\ file.kind = "regular"
    /\ file.bytes = text \o end
    /\ Len(file.bytes) <= MaxSecretBytes
    /\ end = <<>> => ~IsSuffix(<<"LF">>, text)
    /\ end = <<"LF">> => ~IsSuffix(<<"CR">>, text)

SecretsAsConfigured ==
  Loaded => \A c \in Credentials : \A text \in secret[c].value :
    /\ text # <<>>
    /\ \/ text \in config.secret[c].value
       \/ \E path \in config.secret[c].file : IsFiled(text, path)

(* Exceptions are matched over the full address and without regard to case,  *)
(* and in no other way (README, Unencrypted recipients): the recipient path  *)
(* the relay takes from what a client writes after RCPT TO goes out in clear *)
(* exactly if some configured address is the same, letter by letter.         *)
SameLetter(c, d) == c = d \/ {c, d} = {"a", "A"}

SameAddress(address, recipient) ==
  /\ Len(address) = Len(recipient)
  /\ \A k \in DOMAIN address : SameLetter(address[k], recipient[k])

IsConfigured(recipient) ==
  \E i \in DOMAIN config.exceptions : SameAddress(config.exceptions[i].address, recipient)

IsException(path) == \E i \in DOMAIN exceptions : exceptions[i].address = normalize_email(path)

Arguments(recipient) ==
  {recipient, <<"<">> \o recipient \o <<">">>,
   <<"space", "<", "space">> \o recipient \o <<"space", ">", "space">>}

ExceptionsMatchExactly ==
  Loaded => \A recipient \in Recipients : \A argument \in Arguments(recipient) :
    \A path \in parse_path_argument(argument) : IsException(path) <=> IsConfigured(path)

(* What the code keeps of it.  A recipient written bare or in brackets, in   *)
(* which there is neither white space nor an angle bracket, goes out in      *)
(* clear exactly if it is configured; and whatever a client writes, a path   *)
(* that goes out in clear is a configured address but for white space and    *)
(* angle brackets around it, which parse_path_argument leaves in and         *)
(* normalize_email takes off.  The four functions that normalize an address  *)
(* have to agree for it.                                                     *)
IsPlain(recipient) ==
  recipient # <<>> /\ \A i \in DOMAIN recipient : recipient[i] \notin {"space", "<", ">"}

IsConfiguredWithin(path) ==
  \E k, l \in DOMAIN path :
    /\ \A i \in DOMAIN path \ (k .. l) : path[i] \in {"space", "<", ">"}
    /\ IsConfigured(SubSeq(path, k, l))

ExceptionsMatchUpToBrackets ==
  Loaded => \A recipient \in Recipients : \A argument \in Arguments(recipient) :
    /\ IsPlain(recipient) =>
         ((\E path \in parse_path_argument(argument) : IsException(path)) <=> IsConfigured(recipient))
    /\ \A path \in parse_path_argument(argument) : IsException(path) => IsConfiguredWithin(path)

(* What loads is what the modules of the relay assume of it: the policy of   *)
(* DeliveryPlan is a function from names that are not empty, and each name   *)
(* it has is one that a key lookup would take for the same recipient.        *)
PolicyIsFunction ==
  Loaded =>
    /\ \A i, j \in DOMAIN exceptions : exceptions[i].address = exceptions[j].address => i = j
    /\ \A i \in DOMAIN exceptions :
         /\ normalize_email(exceptions[i].address) = exceptions[i].address
         /\ normalize_lookup_email(exceptions[i].address) = {exceptions[i].address}

(* A configuration is refused only for one of the reasons the README gives   *)
(* (a field is missing or both of a pair are given, an address is no bare    *)
(* ASCII local@domain or is there twice, no key source is left, a file of a  *)
(* credential has at some time been missing, invalid, oversized or empty),   *)
(* or for a blank text or a zero.                                            *)
IsBareAscii(address) ==
  \E at \in 2 .. Len(address) - 1 :
    /\ address[at] = "@"
    /\ \A k \in DOMAIN address \ {at} : address[k] \in {"a", "b", "A"}

IsUnfit(file) ==
  \/ file.kind # "regular"
  \/ Len(file.bytes) > MaxSecretBytes
  \/ "bad" \in ToSet(file.bytes)
  \/ file.bytes \in {<<>>, <<"LF">>, <<"CR", "LF">>}

HasCause ==
  \/ ~config.parses
  \/ \E t \in Texts : config.text[t] # "text"
  \/ \E n \in Numbers \ {"http_timeout_secs"} : config.number[n] = 0
  \/ \E i \in DOMAIN config.exceptions :
       \/ ~IsBareAscii(config.exceptions[i].address)
       \/ \E j \in DOMAIN config.exceptions \ {i} :
            SameAddress(config.exceptions[i].address, config.exceptions[j].address)
  \/ ~config.key_services /\ config.key_files = <<>> /\ config.key_directories = <<>>
  \/ \E c \in Credentials :
       LET source == config.secret[c] IN
       \/ Cardinality(source.value) + Cardinality(source.file) # 1
       \/ <<>> \in source.value
       \/ \E path \in source.file :
            path = Empty \/ \E file \in HeldAt(path) : IsUnfit(file)

RefusedForCause == pc = "refused" => HasCause

(* A start ends, with a listener or with an error, whatever the files are;   *)
(* only a root or key file that is a FIFO can keep it waiting, never a       *)
(* credential, which is opened with O_NONBLOCK, and never a FIFO that lies   *)
(* in a directory of keys.                                                   *)
Ended == pc \in {"refused", "valid", "failed", "ready"}

WaitsForNamedFifo ==
  \E i \in DOMAIN (config.roots \o config.key_files) :
    FileAt(Join((config.roots \o config.key_files)[i])).kind = "fifo"

StartEnds == <>(Ended \/ WaitsForNamedFifo)

(* What --check-config calls valid (main.rs:28) starts: when the services    *)
(* cannot be built, some file that checking did not look at is the reason.   *)
HasUnsoundFile ==
  \/ \E i \in DOMAIN (config.roots \o config.key_files) :
       ~IsSound(FileAt(Join((config.roots \o config.key_files)[i])))
  \/ \E i \in DOMAIN config.key_directories :
       LET directory == Join(config.key_directories[i]) IN
       \/ FileAt(directory).kind # "directory"
       \/ \E place \in DOMAIN fs :
            place[1] = directory[2] /\ fs[place].kind = "regular" /\ ~IsSound(fs[place])

ValidConfigurationStarts == pc = "failed" => HasUnsoundFile
=============================================================================

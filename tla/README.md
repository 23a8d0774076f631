# Formal model of sendmail-sec

`sendmail-sec` is an SMTP relay: it accepts mail from authenticated clients of
allowed networks, encrypts it with OpenPGP for every recipient that is not a
configured exception, and hands the result to one remote SMTP server. This
directory holds TLA+ modules translated from the source, the TLC
configurations that check them on small instances, and proofs that TLAPS
checks for every value of the constants.

## Running it

    tlc -workers 2 -config MCSmtpListenerMix.cfg MCSmtpListener.tla
    tlapm SmtpListenerProofs.tla
    tlapm RemoteSmtpProofs.tla
    tlapm KeyCacheProofs.tla
    tlapm ListTheorems.tla
    tlapm ReleaseProofs.tla
    tlapm EncryptedDeliveryProofs.tla
    tlapm StartupProofs.tla
    tlapm MessageCodecProofs.tla

Every configuration below is run the same way on the MC module of its name.

## The system

| Component | Source | State it keeps | Operations | Hard part |
|---|---|---|---|---|
| SMTP listener | `sources/listener.rs` | per session: greeted, authenticated, sender, recipients; the accept loop | accept, Ctrl+C, the SMTP commands, DATA to its final reply | sessions interleave; any read or write may fail; a message has up to two deliveries, each of which may fail or succeed unseen; the program may stop anywhere |
| Recipient plan | `sources/message.rs`, `sources/openpgp.rs` | none | partition of the envelope, refusal of mixes, whose keys are needed | who gets plaintext |
| Key resolution and cache | `sources/openpgp.rs` | certificates with an expiry, behind an `RwLock`; the local key index | cached lookup, WKD, keys.openpgp.org, store | the lock is not held across a fetch: sessions race on a miss, an old answer may replace a newer one |
| OpenPGP encryption | `sources/openpgp.rs` | the local key index, built at start | read and index key files, filter and deduplicate certificates, encrypt | which certificate makes a reader; the ciphertext itself is the library's |
| Remote SMTP client | `sources/remote_smtp.rs` | one connection per delivery: TLS or not, buffered lines, capabilities | greeting, EHLO, STARTTLS, AUTH, one transaction, QUIT | lost confirmations, timeouts per line, the switch to TLS |
| Message codec | `sources/message.rs`, `sources/listener.rs` | none | `read_message_data`, `normalize_crlf`, `dot_stuff`, MIME assembly | line ends, dots and empty lines at the borders |
| Configuration, secrets | `sources/config.rs`, `sources/secret.rs` | none after start | load, resolve paths and secrets, normalize, validate | files replaced while they are read; four functions that normalize an address have to agree |
| TLS set-up, start | `sources/tls.rs`, `main.rs`, `app.rs`, `cli.rs` | none | check a configuration, build clients, start the listener | files that make the start wait; what ends with the runtime |
| Release tools | `devops/sources`, `.github/workflows` | manifest, lockfile, tags in the registry | plan a release, bump the version, push tags | a failure between two pushes, two releases at once |

Calls go one way: `main` builds an `App`, which runs the listener; each
session calls `OpenPgpService::prepare_deliveries` and then
`RemoteSmtpClient::send_message` once per delivery, in order. Sessions share
the key cache and nothing else that changes.

What makes each part correct:

- listener: what is relayed is the transaction the client was told it has; only
  authenticated clients of allowed networks relay; a 250 is only said of a
  message the remote server has in full; every message is answered; stopping
  ends everything.
- recipient plan: only exceptions are sent to in clear; beside encrypted
  recipients only those that allow it; who gets the clear copy is no reader of
  the ciphertext, every other named recipient is.
- key cache: a certificate used for a message was the published one not longer
  ago than the lifetime of a cache entry and of a lookup.
- remote client: credentials and mail travel over TLS only; success is reported
  only of a message the server took for all recipients; a call ends.
- message codec: what the server un-stuffs is what the client submitted, with
  its line ends normalized; who decrypts reads what was submitted; around the
  ciphertext only fields of the allow list are in clear, which the code does not
  ensure of every message (run `MCEncryptedDeliveryClear`).
- encryption: the ciphertext is for each recipient, with a key that works, for
  each key once and for nobody else.
- configuration: a credential is what the configured place held; what loads is
  what the other modules assume of it; a start ends.
- release: no manifest mixes versions; tags that name no version lead to
  stable releases, and to one that GitHub marks as a prerelease only when somebody
  published it by hand; after releases that were published one by one these tags agree.

## Modules

| Module | Models | Role |
|---|---|---|
| `DeliveryPlan` | recipient plan | operators used by `SmtpListener` |
| `SmtpListener` | listener, and the hand-over to keys and remote server by outcome | state machine |
| `RelayPromise` | what the relay promises about one message | abstract specification |
| `RemoteSmtp` | remote SMTP client: one `send_message`, and the server at the other end | state machine |
| `DeliveryAttempt` | what `SmtpListener` takes a `send_message` for | abstract specification |
| `KeyCache` | resolution of certificates by concurrent sessions, the cache, the clock | state machine |
| `MessageCodec` | the bytes of a message, in and out | state machine over all short inputs |
| `Addresses` | the four normal forms of an address | operators used by `Startup` |
| `Startup` | configuration, credentials, the services built from them | state machine |
| `PgpMime` | what of a message is encrypted and what stays around it, by lines | operators used by `EncryptedDelivery` |
| `EncryptedDelivery` | the local key index, the sources of keys, one encrypted delivery | state machine |
| `Release` | the plan of a release and the job that publishes it | state machine |
| `MCSmtpListener`, `MCKeyCache`, `MCMessageCodec`, `MCStartup`, `MCEncryptedDelivery`, `MCRelease` | small instances | TLC |
| `SmtpListenerProofs` | theorems about `SmtpListener`; that it implements `RelayPromise` | TLAPS |
| `RemoteSmtpProofs` | theorems about `RemoteSmtp`; that it implements `DeliveryAttempt` | TLAPS |
| `MessageCodecProofs` | theorems about `MessageCodec` | TLAPS |
| `KeyCacheProofs` | how old a certificate of `KeyCache` can be | TLAPS |
| `EncryptedDeliveryProofs` | theorems about `EncryptedDelivery` and `PgpMime` | TLAPS |
| `StartupProofs` | theorems about `Startup` and `Addresses` | TLAPS |
| `ReleaseProofs` | theorems about `Release` | TLAPS |
| `ListTheorems` | numbers and lists, for the last four above | TLAPS |

### How SmtpListener follows the code

`pc[c]` is the await at which the task of connection `c` stands: `accepted`
(spawned, before the peer check), `command` and `auth` and `data` (reading a
line), `prepare` (in `prepare_deliveries`), `relay` (in `send_message`),
`closed`. `state[c]` is `SessionState`; `deliveries[c]` and
`completed_deliveries[c]` are the locals of the DATA branch. A handler is one
action from the line it read to the reply it wrote, since a task yields to
others only at an await and shares nothing with them there; the write at its
end may fail, which ends the session (`Respond`).

Two variables are not the program's. `wire[c]` is the transaction as the
client may conclude it from the commands it sent and the replies it got
(RFC 5321), kept without looking at `state`. `ledger[c]` lists the messages
submitted, with the sender and recipients from `wire`, the deliveries offered
to the remote server, how many of them it took, and the final reply.

A recipient group is a restriction of the envelope to a set of positions, so
that repeated and differently spelt recipients stay apart. The data of a
delivery is the set of names that can read it (`readers`).

The remote server is external: `RemoteTakes` takes an offered delivery at any
time, also after `send_message` has returned an error for it, or after the
session or the program has ended. `SendSucceeds` needs it taken; `SendFails`
does not need it untaken.

`Accept` from `interrupted` leads back to `accepting`: when a connection and
Ctrl+C are ready at once, `select!` may pick the connection and drop the
`ctrl_c()` future together with the signal it had seen.

### How RemoteSmtp follows the code

`pc` is the request whose reply `send_message` waits for. `ReadsLine` and
`Refill` are `read_line` on a `BufReader`: lines that arrived together are
buffered together, which is what the STARTTLS hand-over (`into_inner`) throws
away. `Continue` goes round the loop of `read_response`; the action named for
a request handles the last line of its reply, so `Rcpt` reads a 250 or 251 and
writes the next RCPT or DATA (`Ask`). A write may fail with the request
delivered or not. `Rejected` is a reply with another code, `GiveUp` everything
that ends a wait early; both return what `Result` says: an error, or Ok
when only QUIT is left. A line that cannot be parsed is a `GiveUp`.

The server is external. It gives any reply of any length to a request, keeps
what it accepted (`server.rcpt`, `server.taken`), goes on with what it had received
after the client has gone, and may send a line in clear behind its 220 to
STARTTLS. Lines carry `to`, the request they answer, which the client does not see;
`server.listed` keeps what it listed over TLS, for `MechanismListedOverTls`.

`IsAttempt` maps the call to `DeliveryAttempt`: `taken` is the server's, the
outcome is Ok from the moment the final reply to the message was read, since
nothing behind it can change the result. This is the interface `SmtpListener`
assumes of `send_message` (`RemoteTakes`, `SendSucceeds`, `SendFails`).

### How KeyCache follows the code

A session holds the lock of the cache in `Hit`/`Miss` (`cached_lookup`) and in
`Store` (`cache_success`) and not in between, so each of these is one step and
the requests (`Fetch`, `Answer`, `Arrive`) interleave with other sessions.
`certs[s]` grows by one entry per recipient, in order. An answer is made by
the key service (`Answer`) before it arrives, and the owner may replace the key
in between (`Rotate`). `Tick` moves the clock that `Instant::now` reads and
that the timeout of the HTTP client counts; it cannot pass a deadline, because
the timer fires there (`Timeout`), and computing takes no time. An answer
without certificates for the address is an error, a 404 is "absent".
WKD goes on to the next source after either; keys.openpgp.org is the last one,
and its error ends the lookup.

`retired[n]` notes when each key was replaced; the code knows nothing of it.

### How MessageCodec follows the code

`sent` is everything the client sends behind the 354, ending where it closes
the connection; `taken` says how much of it was read, a line per step. A line
that becomes `.` when all CRs and LFs at its end are cut off ends the data, so
do `.LF`, `.CRCRLF` and a dot in front of the end of the stream; the properties speak of correct
data where they speak of the client's text. `normalize_crlf` is the loop of the
code as a recursive function of the bytes that are left (`Iterate` is one
iteration: two bytes for a CRLF, otherwise one); `dot_stuff` stuffs its result,
line by line. `Unstuffed`, `Text`, `Correct` and `Canonical` are the reference
definitions, after RFC 5321: they look at each byte and its neighbours, and
share nothing with the former. `DeliveredAsSubmitted` is what a user of the relay
sees of both ends: text in, text out.

### How Startup follows the code

`pc` is the step of `AppConfig::load`, of `main` or of `App::from_config` that
is next: paths and sources (`Load`), one credential file and then the other
(`ResolveListenSecret`, `ResolveRemoteSecret`: `resolve_file` opens a file once
and decides from what it opened), `Normalize`, `Validate`, which also ends a
`--check-config`, then root certificates (`ReadFile`), the HTTP client and the
list of key files (`BuildHttpClient`), key files (`ReadFile` again) and the
listener. serde is external: a configuration is a record of what it makes of
the file, texts by whether they are blank, numbers by whether they are zero.
Files have a kind and bytes; what their parsers refuse is the byte `"bad"`.
`Operator` replaces the file at a credential's place between any two steps,
and `held` remembers every file a place has had. A credential is opened with
`O_NONBLOCK`, so a FIFO there is refused; a root or key file that is a FIFO is
waited for (`Waits`).

`Addresses` has the four functions as they are, over characters of nine
classes. `ExceptionsMatchExactly` compares the whole chain from a RCPT argument
to a match with a letter-by-letter comparison of its own, and is not so:
`parse_path_argument` takes `RCPT TO:a@b>` for the path `a@b>` and `RCPT TO:<<a@b>>`
for `<a@b`, and `normalize_email` takes the brackets off before the lookup.
`ExceptionsMatchUpToBrackets` is what holds: without brackets and white space a
recipient matches exactly, and nothing else matches but a configured address with these
around it.

### How EncryptedDelivery follows the code

The index is built a file per step (`IndexFile`, `FinishIndex`); then one
message is prepared: recipients and plaintext first, then the certificates of
one recipient after the other (`Resolve`), deduplication and encryption
(`Encrypt`), and the message around the ciphertext (`Build`). A certificate is
a fingerprint with an edition, so that two states of one key can meet. The
cache is `KeyCache`'s; here the answers of the services do not change, and
what is taken of them is the question. `Resolution` shows the difference
between the sources: an error of a Web Key Directory is passed over, an error
of keys.openpgp.org is the end.

Of two editions of a key `deduplicate_certs` keeps the one that came first, and
that one may not name the recipient for whose sake the later one was fetched
(the address was added to the key in between). So `EncryptedForRecipients` asks
for a usable certificate with a fingerprint that was published for the
recipient, and not for one that names the recipient itself, which the code
does not ensure.

`PgpMime` sees a message as lines of seven classes and its parts as
positions of lines, so that a line that is lost, doubled or leaked is told from
its equal. The properties read a header as RFC 5322 does (`HeaderEnd`,
`ClassOf`), which ends at the first empty line; the code looks for the first two
line ends in a row, which is elsewhere when the first line is empty.
`DecryptsToTheSubmission` and `PreparationRefusedForCause` speak of messages that begin
with a field (`BeginsWithField`). `NothingElseInClear` speaks of all messages
and is not so of those that begin with an empty line and a folded one;
`OnlyFieldsInClear` leaves these out and no others.

mailparse is external: `RecipientsParse` says whether
`extract_recipients_from_headers` gets its recipients. A To, Cc or Bcc field
may have a value that is no list of addresses (`case.unparsed`), which refuses the
message; what the library makes of a line that is neither a field nor folded
is left open.

### How Release follows the code

A run of the workflow is started by an event, refused or planned
(`AssertReleaseEventAllowed`, `BuildImageReleasePlan`), and pushes one tag per
step in the order of the plan: the images of each architecture, then for each
tag of a manifest `docker manifest create` (`CreateManifest`, which reads the
registry) and `docker manifest push` (`PushManifest`). The workflow has no
concurrency group, so runs overlap at will. `Fail` stops a run anywhere,
`Rerun` starts its job anew. `last` and `disturbed` are not the workflow's:
they say when `AliasesFollowLastRelease` may be expected to hold.

`trigger` holds the event and GitHub's mark on the release of the tag, which the
job sees for the event `release` only. So `AliasesAreStable` makes an exception of
`workflow_dispatch`, which the repository's tests allow for a stable tag without
looking at the mark: a prerelease under a stable name moves `latest` when somebody
publishes it that way.

## Runs

| Run | Bounds | Checks |
|---|---|---|
| `MCSmtpListenerMix` | 1 session and a refused peer, 1 message, up to 3 recipients of 4 addresses, 2 header sets, fairness | `TypeOK`, `ClearOnlyByPolicy`, `ConfirmedMeansTaken`, `OnlyAuthenticatedSubmissions`, `EveryMessageAnswered`, `StopEndsSessions` |
| `MCSmtpListenerTwo` | 1 session, 2 messages, 2 senders (one null), 2 recipients of 2 addresses | `SameTransaction`, `KeepsPromise` |
| `MCRemoteSmtp` | both TLS modes, PLAIN and XOAUTH2, 2 recipients, 2 lines in flight, fairness | `TypeOK`, `OnlyGreetingsInClear`, `InStep`, `MechanismListedOverTls`, `ReturnsUnlessDripped`, `IsAttempt` |
| `MCKeyCache` | 2 sessions, 3 recipients in 2 lists, one of them in the index, 2 sources, 1 rotation each, lifetime and timeout 1, messages until 1, fairness | `TypeOK`, `FreshWhenUsed`, `OverwritesAreRecent`, `PreparationEnds` |
| `MCMessageCodec` | all inputs of up to 7 bytes out of CR, LF, dot, other; correct data of every text of up to 3 lines of up to 3 bytes, a command behind it; limits 1, 4, 5, 8, 15 | `TypeOK`, `ArrivesIntact`, `StoredAsSubmitted`, `RefusedOnlyAboveLimit`, `DeliveredAsSubmitted` |
| `MCStartup` | a sound configuration and its neighbours: each number 0, each text empty or blank, 12 spellings of an exception and each pair of them, 15 sources of each of the two credentials, files of up to 4 bytes at a limit of 3, each root or key file missing, a directory, a FIFO or bad; recipients of up to 3 letters and `@`, and an address with a bracket or a space on either side; 1 replacement; fairness | `TypeOK`, `SecretsAsConfigured`, `ExceptionsMatchUpToBrackets`, `PolicyIsFunction`, `RefusedForCause`, `StartEnds` |
| `MCStartupChecked` | the same, no replacement; expected to fail | `ValidConfigurationStarts` |
| `MCStartupBrackets` | the same, no replacement; expected to fail | `ExceptionsMatchExactly` |
| `MCEncryptedDelivery` | every message of up to 5 lines of 7 classes in both modes, up to 3 lines with a recipient field that does not parse; 24 sets of key files with 5 lists of recipients; 7 answers of each of 3 services | `TypeOK`, `IndexComplete`, `EncryptedForRecipients`, `EachKeyOnce`, `OnlyFieldsInClear`, `DecryptsToTheSubmission`, `PreparationRefusedForCause` |
| `MCEncryptedDeliveryMime` | the same with messages of up to 4 lines; expected to fail | `ReaderGetsTheBody` |
| `MCEncryptedDeliveryClear` | the same; expected to fail | `NothingElseInClear` |
| `MCRelease` | 2 stable releases of one major version and a build, 2 architectures, started by a release, a tag or by hand, some of them prereleases on GitHub, any number of failures | `TypeOK`, `VersionsNeverMix`, `AliasesAreStable`, `AliasesFollowLastRelease` |

Why these bounds. The plan looks at each recipient's class (needs encryption,
exception with split, exception without, no name) and at repetitions: three
recipients out of one address of each class hold every combination of two
exceptions beside an encrypted recipient, in every order. A message has at
most two deliveries. Two messages in a session are enough for anything of one
to reach the next; a third adds no kind of predecessor. Sessions share no state in this
module but the accept loop, so one that relays and one that is refused show how they
interleave with it; the theorems are for any number.
`MaxRcpt` and `MaxSubmissions` bound the model only; the code has no such
limits.

In `RemoteSmtp` two recipients make a first, a last and a refusal behind an
acceptance; PLAIN and XOAUTH2 are the two dialogues (OAUTHBEARER's is
XOAUTH2's); two lines in flight let one reply run into the next. In `KeyCache`
two sessions start messages at time 0, as many as they like, and may then wait up
to time 4 for two recipients at two sources: long enough for an entry to be stored, hit,
overwritten by an older answer and expire before the other session comes to it. Two
keys suffice to be stale, and two recipients for one to grow old while the other
is waited for. Longer times, new messages late in the life of an entry
and more sources are left to the theorems, liveness excepted.
Seven bytes hold a line, a bare CR or LF, a dot on either side of it and
the final dot; correct texts run up to and over each limit.
In `Startup` a configuration differs from a sound one in one respect, or
in both credentials, or in two exceptions, because the checks are
independent of each other but for these; four bytes hold every end of a file
(none, LF, CRLF, two of them) at, below and above the limit. In
`EncryptedDelivery` five lines hold a field with a fold, a second field, the
empty line and a body, or a body with an empty line first. In `Release` two runs meet at
every pair of steps, and the third one only has tags of its own. The releases
are each given the events that make a difference for them: a stable one by its release,
marked or not; a stable one that is marked, by hand, or by its tag; a build by its tag.
Betas, whose tags are like a build's, are left to the theorem. `MaxInFlight`, `MaxTime`,
`MaxRotations` and `MaxReplacements` bound the model only. Deadlock is not
checked where the modelled work ends: `RemoteSmtp`, `MessageCodec`, `Startup`, `EncryptedDelivery` and `Release`.

The four runs that are expected to fail show where code and documentation
disagree. `ValidConfigurationStarts`: `validate` does not look at
`openpgp.http_timeout_secs`, so `--check-config` logs "configuration is valid"
of a configuration that does not start. `ReaderGetsTheBody`: in
`pgp_mime_body` mode the plaintext of a message without content fields is its
bare body, and a MIME reader takes a first line such as `Note: ...` for a field;
an empty line before the body would prevent it. `ExceptionsMatchExactly`: the README
promises exact envelope addresses, and a path with a bracket too many (`RCPT
TO:a@b>`) is relayed to in clear by an exception for `a@b`. `NothingElseInClear`: of a
message whose first line is empty and whose second one is folded and has a
colon, the lines behind are taken for header fields, so that a line of the body
like `Subject: ...` is copied in front of the ciphertext. mailparse ends the header
of the same message at the empty line.

`RelayPromise` knows neither sessions nor causes of failure: a message owes an
encrypted delivery and then one in clear, to the recipients of each class;
each is offered once, in that order, after the one before was taken; 250 is
said only when everything owed is taken; afterwards nothing more is offered,
but an offer may still be taken late. `KeepsPromise` says that every behaviour
of `SmtpListener` is one of `RelayPromise`, with `ledger` without its ghost
fields as the abstract state.
The run checks it where the second message can be mistaken for the first
(`MCSmtpListenerTwo`); `KeepsThePromise` proves it of the mixes of
`MCSmtpListenerMix` and of all others.

Fairness (`FairSpec`, `MCSmtpListenerMix`): weak fairness of each session's own
steps and of the Ctrl+C branch once it has won. tokio polls every ready task,
and what a task awaits apart from its client's next command has a timeout (connecting, each read and write of
the remote connection, each HTTP request). Two assumptions remain, both stated
at `Fairness`: the remote server's replies have a last line, because the
timeout is per line, and clients leave room for the short replies written to
them, because those writes have no timeout. Nothing is assumed of clients,
operators or the remote server otherwise: a client may be silent for ever in the
middle of a message, and `StopEndsSessions` holds all the same.

`RemoteSmtp` assumes that the client is polled and its timers fire
(`WF_vars(Client)`: `GiveUp` is possible at every wait, because each has a
timeout) and nothing of the server. That is what it takes to return, except that a
server which keeps sending continuation lines renews the timeout with each of
them; `ReturnsUnlessDripped` says just that. `KeyCache` assumes that sessions
are scheduled and that time goes on (`SF_vars(Tick)`, strong because the model
lets sessions do work in no time and so interrupts `Tick` again and again), and
nothing of the key services. `Startup` assumes that the process runs
(`WF_vars(Start)`): its steps do not wait for one another or for anyone else but
where the code opens a FIFO. The other modules have no liveness.

Each property has a mutant in `PROJECT.json`: a plausible wrong version of one
definition (`SendFailsLeniently`, `ResetSender`, ...), defined beside the right
one and used nowhere, under which TLC finds the property violated.

## Proofs

### SmtpListenerProofs

Proved for every set of connections, addresses, senders
and exceptions, and every bound:

| Theorem | States |
|---|---|
| `Invariance` | `Spec => []IInv` |
| `TypeCorrect` | `Spec => []TypeOK` |
| `TransactionAgreement` | `Spec => []SameTransaction` |
| `AuthenticatedRelaying` | `Spec => []OnlyAuthenticatedSubmissions` |
| `ConfirmationIsTrue` | `Spec => []ConfirmedMeansTaken` |
| `ClearIsExempt` | `Spec => []ClearOnlyByPolicy` |
| `KeepsThePromise` | `Spec => KeepsPromise` |

Assumptions: `DeliveryPlanAssumption` (normalization is a function into names;
exceptions are named and unique after normalization, which `AppConfig::load`
ensures) and `SmtpListenerAssumption`.

None of the invariants is inductive. `IInv` adds two things. `Standing(c)`
ties a session to the message in its hands: from `data` on there is a
transaction, in `prepare` and `relay` the last message of the ledger is the one of
`state`, unanswered, and in `relay` the local `deliveries` are the plan of
that message with `completed_deliveries + 1` of them offered. `Sound(message)`
says how far any message can have come: what was offered is a prefix of its
plan, at most the last offer is not taken, and 250 needs all of it. Late
takes and failures preserve `Sound` because they move `took` only
within that range. `ClearOnlyByPolicy` and `ConfirmedMeansTaken` then follow
from `Sound` and from what the plan says of each part of the envelope
(`KindsCoverParts`, `PlannedFields`), without induction.

The lemmas are grouped by the way a step touches the ledger: not at all
(`RespondKeeps`, `MoveKeeps`), by a new message (`DataEndsKeeps`), by one
field of one message (`AmendKeeps`, used by `Prepare`, `SendSucceeds`,
`RemoteTakes`), by a final reply (`FinishKeeps`).

`KeepsThePromise` states `Spec => KeepsPromise` under the same assumptions: the
refinement holds for any number of sessions, messages, recipients and
exceptions. The map is `Book`, the ledger without readers and headers.
Besides `IInv` it needs `AllAnswered`: a session that waits for a command has
replied to all it was given, so a new message never overtakes an open one.
`BookAmend` carries a change of one message over to the book, `SamePlan` shows
that the two modules split an envelope alike; then each step of the hand-over
is one of the promise (`DataEndsSubmits`, `OffersOffers`, `RemoteTakesTakes`,
`FinishReplies`, `ConfirmsAll`) and every other step leaves the book alone.

### RemoteSmtpProofs

Proved for both TLS modes, all mechanisms, and any number of recipients and of lines
in flight:

| Theorem | States |
|---|---|
| `Invariance` | `Spec => []IInv` |
| `TypeCorrect` | `Spec => []TypeOK` |
| `NothingConfidentialInClear` | `Spec => []OnlyGreetingsInClear` |
| `AnswersMatchRequests` | `Spec => []InStep` |
| `MechanismsAreListed` | `Spec => []MechanismListedOverTls` |
| `ImplementsAttempt` | `Spec => IsAttempt` |

The only assumption is `RemoteSmtpAssumption`: the modes and mechanisms are the
ones the code knows, and there is at least one recipient and room for a line.

That a 250 confirms the message and not something before it depends on
client and server staying in step, which no property says by itself. In `IInv`,
`Turns` says that while a reply is waited for only one of the request, the
server's answering and the last line of its answer is under way (`Incoming`
joins the lines in the buffer and on their way, so refilling the buffer changes
nothing), and nothing comes behind that last line but what the server sends
in clear behind its 220 to STARTTLS. `Confidential` keeps both ends of TLS equal, so
that such lines cannot survive the handshake. `Counting` ties the recipients
the client counts to those the server has, also while the reply is on its
way, and `Taking` ties a 250 to the message to a message taken for all of them;
`Listing` does so for what is listed over TLS.

The lemmas are grouped by what a handler does in the end: write the
next request (`Asking`) or return (`Ending`). The refinement needs
of each step only that it takes the message as `DeliveryAttempt` does or not at all
(`TakenOnce`), and that an outcome once fixed stands (`OutcomeStands`).

### KeyCacheProofs

Proved for any number of sessions, recipients and key services, any rotation of
keys, any lifetime of an entry and any timeout; the only assumption is
`KeyCacheAssumption`:

| Theorem | States |
|---|---|
| `Invariance` | `Spec => []IInv` |
| `TypeCorrect` | `Spec => []TypeOK` |
| `StalenessBound` | `Spec => []FreshWhenUsed` |
| `RecentOverwrites` | `Spec => OverwritesAreRecent` |

`FreshWhenUsed` speaks of the moment of use only; `IInv` has to say how old
everything is on the way there. While a session waits for a key service its
deadline stands for the time (`Sound`): the clock cannot pass it, so an
answer was the latest key within one request of it (`Storable`). `Spent` is the
most a session can have waited since it resolved a given recipient, one timeout
per key service of each later one; `Fresh` adds it to the age a certificate
had then. `SoundEntry` bounds an entry's expiry by its key's retirement, one request
and one lifetime; that holds for an entry a late answer has replaced too,
which is why racing on a miss is harmless. The bound has
two products of variables, which the solver cannot do: `WaitArithmetic` and
`SpentProperties` state what is needed of them, and the steps see
only those. `SessionStep` says once that a step of a session disturbs no other
session, so that each action only has to show its own locals and the cache sound.

### EncryptedDeliveryProofs

Proved for any key files, any recipients, any answers of any number of key
services, and messages of any length:

| Theorem | States |
|---|---|
| `Invariance` | `Spec => []IInv` |
| `TypeCorrect` | `Spec => []TypeOK` |
| `IndexIsComplete` | `Spec => []IndexComplete` |
| `ReadersAreRecipients` | `Spec => []EncryptedForRecipients` |
| `KeysOnce` | `Spec => []EachKeyOnce` |
| `RefusalsHaveCause` | `Spec => []PreparationRefusedForCause` |
| `OnlyAllowedFieldsInClear` | `Spec => []OnlyFieldsInClear` |
| `SubmissionIsEncrypted` | `Spec => []DecryptsToTheSubmission` |

`EncryptedDeliveryAssumption` only says what kind of thing a case is.

`IInv` says what each stage leaves to the next: `Indexing`, that a key file
which is no longer to be read has its certificates under every name they have
(`IndexComplete` speaks of the finished index only); `Collected`, that each
recipient resolved so far has a key of theirs among the certificates, and each
certificate a recipient; `Composed`, of which lines plaintext and outer message
are made, and that a message is only encrypted when all certificates are
usable. `DeduplicateProperties` is what the first three need of
`deduplicate_certs`: every fingerprint stays, once, and nothing comes in.

The other half of the proof is about messages, without a state: the code looks
for the first two line ends in a row and groups what is before it into fields
(`PartsProperties`), RFC 5322 reads a header line by line, and `HeaderShape`,
`FieldLinesAreInHeader` and `AroundTheGap` show that the two agree on a message that
begins with a field, and `AllowedFieldsAreInHeader` what becomes of the others: the code
refuses them, or finds no header, or the one layout that `OnlyFieldsInClear` leaves
out. `plaintext_for_encryption` lists the positions of some lines
in order, which is why there are lemmas on the `Rank` of a number in a set.

### StartupProofs

Proved for any configurations, files and number of replacements, credentials
and addresses of any length:

| Theorem | States |
|---|---|
| `Invariance` | `Spec => []IInv` |
| `TypeCorrect` | `Spec => []TypeOK` |
| `LoadedSecrets` | `Spec => []SecretsAsConfigured` |
| `LoadedPolicy` | `Spec => []PolicyIsFunction` |
| `LoadedExceptions` | `Spec => []ExceptionsMatchUpToBrackets` |
| `RefusalsHaveCause` | `Spec => []RefusedForCause` |

`StartupAssumption` gives configurations and files their types; what a client
writes for a recipient is any text, brackets and white space included.

A replacement of a file is the step that could break everything said of
a credential's file, before and after it was read. `FilesHeld` says that nothing that lay
at a place is forgotten, so what a credential was read from stays in `held`, and so does
the cause of a refusal (`OperatorStep`). `CredentialSourced` says that a credential is as
configured, with its path resolved, until its file is read, and then something
that path has held; `HasOneSource` makes "its path" one path. `StrippedProperties` shows
that `Stripped` cuts one LF or CRLF, and only one, from a text of any length.
`ExceptionsNormalized` keeps the loaded exceptions those configured, in lower case
and without two of one name. That the four functions agree is then a
fact about texts: what `normalize_configured_email` accepts it only lowers
(`ConfiguredAddress`), and what `RCPT` finds in each of the spellings of a
path, lowered, is the recipient, lowered (`RecipientPath`), if it has no
brackets and white space. Of any other text `normalize_email` leaves a part, which lies
between the characters it takes off (`NormalizedWithin`).

### ReleaseProofs

Proved for any releases and triggers, any number of runs and architectures,
with runs that overlap, fail and start again:

| Theorem | States |
|---|---|
| `Invariance` | `Spec => []IInv` |
| `TypeCorrect` | `Spec => []TypeOK` |
| `VersionsApart` | `Spec => []VersionsNeverMix` |
| `OnlyReleasesMoveTags` | `Spec => []AliasesAreStable` |
| `AliasesInStep` | `Spec => []AliasesFollowLastRelease` |

`ReleaseAssumption` is what `ParseReleaseTag` makes of a tag: a version has dots, so it
is neither a major version nor `latest`, and it says of which kind its release is.

A run creates a manifest from what the registry holds at that moment, which
another run may have pushed. `SoundImage` says what a tag of an image can hold
whoever pushed it last: an image of that version or, under a major version, of a
stable release of it. `MadeFor` says it of a manifest, also between its creation and its push.
`Pending` is needed to find the images there at all: a run pushes them before its
manifests, and what is no longer on its list is in the registry. `Orderly` says of an
undisturbed history that at most one stable release is under way, and that the
moving tags are at it, as far as it has come, or else at the last one.

### MessageCodecProofs

Proved for any input, of any length, and any limits:

| Theorem | States |
|---|---|
| `Invariance` | `Spec => []IInv` |
| `TypeCorrect` | `Spec => []TypeOK` |
| `TextIsStored` | `Spec => []StoredAsSubmitted` |
| `RefusedAboveLimit` | `Spec => []RefusedOnlyAboveLimit` |
| `TextArrives` | `Spec => []ArrivesIntact` |
| `SubmissionArrives` | `Spec => []DeliveredAsSubmitted` |

`MessageCodecAssumption` says that inputs are bytes and limits positive, as
`validate` makes them.

What is written is a matter of functions on data. Each of `Stuffed`, `Unstuffed` and
`Canonical` looks at a byte and the one or two before it, so it makes
of data with one byte more what it makes of the data, and then something that only
depends on how the data ends (`StuffedMore`, `UnstuffedMore`, `CanonicalMore`).
`NormalizeIsCanonical` shows that the loop, which jumps over a CRLF, makes what
`Canonical` says, a byte at a time: with so many bytes left it has made
`Canonical` of the bytes before them, unless it is inside a CRLF, where it never is
(`Between`), so the induction carries two neighbouring counts along (`Reached`).
`Image` relates clean data to its stuffed form: no CR or LF but
in a CRLF, no single dot in front of a line, and unstuffing gives the data back;
a byte or a line end more keeps it. Stuffing data whose line ends are not yet
CRLF would not: a bare CR begins no line for the code, and one for the reader
once it is normalized. `WithFinal` adds the final dot, which is then
the first to stand alone on a line.

What is stored needs an invariant of the reader. `SoFar` says that while
correct data is read, the reader is at the start of a line before the final dot
(`Within`) and the message is the text up to there (`UpTo`). `ReadLine` says of the next line
that it is the final dot and the end of the data, or ends before it and adds to the
text what `BodyLine` adds to the message (`LineOfCorrect`, `LineAdds`): the
first LF ends it, the CRLF is all that is trimmed, and a dot in front has a
second one behind it. A refusal then needs a text larger than the limit because a
line is at most one byte longer than what it adds, and later lines only add
(`PrefixLonger`); the final dot itself, which adds nothing, is within the room of 5.

`SubmissionArrives` joins the two halves. The text of correct data is clean, which
the reader keeps line by line (`CleanLines`, `CleanBody`), and `Canonical` leaves
clean data as it is (`CanonicalOfClean`). An empty text is the one exception: it
arrives as an empty line, because `dot_stuff` ends all data with a CRLF.

### ListTheorems

The library's induction theorems take an operator as a parameter, which
the installed provers cannot instantiate. `AllNaturals` states induction for
a set of natural numbers instead, from the well-foundedness of `<`; a proof defines
the set of the numbers it wants something of. `AllLists` does the same for lists
that grow at the end. From these come the facts on `FlattenSeq`, and
minima and maxima of sets of numbers. The remaining lemmas are on prefixes,
suffixes, parts and elements of lists.

### Model-checked only

The liveness properties `EveryMessageAnswered`, `StopEndsSessions`,
`ReturnsUnlessDripped`, `PreparationEnds` and `StartEnds`: they rest on
fairness, and TLAPS has no ENABLED. Every invariant and every safety property of
the passing runs is a theorem. The four runs that are expected to fail
need no proof: a counterexample is one.

## Not modelled

- The wording of commands and the contents of certificates and ciphertext; of a
  message the bytes matter only in `MessageCodec` and the lines in `PgpMime`.
- OpenPGP, TLS and HTTP libraries, MIME parsing (mailparse), serde, the file
  system: external.
- URLs and hashes of key lookups, the constant MIME parts around a ciphertext,
  log output and the wording of replies: formatting.
- `versioning.ts`: it edits a manifest and a lockfile in a checkout that is
  thrown away or under version control; what a stop between the two
  leaves is visible and repaired by a second run.
- The container scripts: test drivers and a fixed retry loop. The workflow's
  jobs before `ghcr-publish`: other programs.
- How the configuration file itself is opened (`config.rs:50`): a FIFO in its
  place is waited for like a root file. `StartEnds` speaks of the files it names.
- Upper bounds of numbers: no validation has one, and `Instant` would panic at a
  lifetime near the limit of the clock.

## Plan

Done: the listener with its plan, promise and proofs; the remote client, the key
cache, the start, the encrypted delivery, the release and the codec, each with
its proofs. What could follow: `PlanRecipients`, the loop of
`plan_recipient_deliveries` against `DeliveryPlan`, whose operators say at once
which recipients its two lists end up with.

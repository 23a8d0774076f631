----------------------------- MODULE SmtpListener -----------------------------
(***************************************************************************)
(* The inbound side of the relay (listener.rs): the accept loop, one task  *)
(* per accepted connection running the SMTP dialogue, and the hand-over of *)
(* each submitted message to the preparation of its deliveries and to the  *)
(* remote server.  The dialogue is synchronous inside a session, sessions  *)
(* interleave, any read may find the connection gone and any write may     *)
(* fail, a remote server may take a message whose confirmation never       *)
(* arrives, and stopping the listener cancels the sessions where they      *)
(* stand.                                                                  *)
(*                                                                         *)
(* OpenPGP lookups and the outbound dialogue appear by their outcome; a    *)
(* lookup may fail whenever an encrypted delivery is to be made.           *)
(***************************************************************************)
EXTENDS DeliveryPlan

CONSTANTS
  Conn,            \* inbound connections, each used at most once
  AllowedPeers,    \* the connections whose peer is in allowed_networks
  Sender,          \* reverse paths, the null path among them
  NoSender,        \* mail_from = None
  Headers,         \* the recipient headers a message may carry: sets of names
  MaxRcpt,         \* bound of the model: RCPTs in one transaction
  MaxSubmissions   \* bound of the model: messages submitted in one session

ASSUME SmtpListenerAssumption ==
  /\ AllowedPeers \subseteq Conn
  /\ NoSender \notin Sender
  /\ Headers \subseteq SUBSET (Name \ {NoName})
  /\ MaxRcpt \in Nat
  /\ MaxSubmissions \in Nat

VARIABLES
  listener,    \* run's select!: "accepting", "interrupted" (Ctrl+C seen by
               \* the pending ctrl_c future, not yet polled) or "stopped"
  pc,          \* where the task of a connection waits
  state,       \* SessionState
  deliveries,  \* the deliveries prepared for the message being relayed
  completed_deliveries,
  wire,        \* the transaction as the exchanged commands and replies define it
  ledger       \* per connection, the messages submitted and what became of them

relaying == <<deliveries, completed_deliveries>>

vars == <<listener, pc, state, deliveries, completed_deliveries, wire, ledger>>

-----------------------------------------------------------------------------
(* SessionState::default and reset_transaction. *)
InitialState ==
  [helo |-> FALSE, authenticated |-> FALSE, mail_from |-> NoSender, rcpt_to |-> <<>>]

\* mutant: rcpt_to.clear() is missing
ResetSender(s) == [s EXCEPT !.mail_from = NoSender]

ResetTransaction(s) == [s EXCEPT !.mail_from = NoSender, !.rcpt_to = <<>>]

(***************************************************************************)
(* What a client makes of the dialogue (RFC 5321): an accepted MAIL opens  *)
(* a transaction, an accepted RCPT adds to it, an accepted EHLO, HELO or   *)
(* RSET and any final reply to a message end it, and other exchanges       *)
(* leave it alone.                                                         *)
(***************************************************************************)
NoTransaction(w) == [w EXCEPT !.mail_from = NoSender, !.rcpt_to = <<>>]

Exchange(w, command, argument, code) ==
  CASE command = "AUTH" /\ code = 235 -> [w EXCEPT !.authenticated = TRUE]
    [] command = "MAIL" /\ code = 250 ->
         [w EXCEPT !.mail_from = argument, !.rcpt_to = <<>>]
    [] command = "RCPT" /\ code = 250 -> [w EXCEPT !.rcpt_to = Append(@, argument)]
    [] command \in {"HELO", "RSET"} /\ code = 250 -> NoTransaction(w)
    [] command = "." -> NoTransaction(w)
    [] OTHER -> w

(***************************************************************************)
(* write_response as the last step of a handler that left the session in   *)
(* s: the reply is written and the loop reads the next command, or the     *)
(* write fails and handle_connection returns with the error.  Either way   *)
(* the handler's deliveries and their counter go out of scope.             *)
(***************************************************************************)
Discard(c) ==
  /\ deliveries' = [deliveries EXCEPT ![c] = <<>>]
  /\ completed_deliveries' = [completed_deliveries EXCEPT ![c] = 0]

Written(c, s, command, argument, code) ==
  /\ pc' = [pc EXCEPT ![c] = "command"]
  /\ state' = [state EXCEPT ![c] = s]
  /\ wire' = [wire EXCEPT ![c] = Exchange(@, command, argument, code)]
  /\ Discard(c)

EndSession(c) ==
  /\ pc' = [pc EXCEPT ![c] = "closed"]
  /\ state' = [state EXCEPT ![c] = InitialState]
  /\ wire' = [wire EXCEPT ![c] = NoTransaction(@)]
  /\ Discard(c)

Respond(c, s, command, argument, code) ==
  Written(c, s, command, argument, code) \/ EndSession(c)

(* A reply that leaves the session as it was: a refusal, NOOP, an unknown command. *)
Refuse(c, command, code) == Respond(c, state[c], command, NoSender, code)

AtCommand(c) == pc[c] = "command"

-----------------------------------------------------------------------------
(* run: the accept loop.  select! drops the branch that did not win, and    *)
(* with it a Ctrl+C its future had noticed.                                 *)
Accept(c) ==
  /\ listener \in {"accepting", "interrupted"}
  /\ pc[c] = "unconnected"
  /\ listener' = "accepting"
  /\ pc' = [pc EXCEPT ![c] = "accepted"]
  /\ UNCHANGED <<state, relaying, wire, ledger>>

CtrlC ==
  /\ listener = "accepting"
  /\ listener' = "interrupted"
  /\ UNCHANGED <<pc, state, relaying, wire, ledger>>

(* The ctrl_c branch wins. *)
Stop ==
  /\ listener = "interrupted"
  /\ listener' = "stopped"
  /\ UNCHANGED <<pc, state, relaying, wire, ledger>>

(* accept() fails: run returns the error and the program exits. *)
AcceptError ==
  /\ listener \in {"accepting", "interrupted"}
  /\ listener' = "stopped"
  /\ UNCHANGED <<pc, state, relaying, wire, ledger>>

\* mutant: waits for the sessions that are in the middle of something
CancelIdle(c) ==
  /\ listener = "stopped"
  /\ pc[c] \in {"accepted", "command"}
  /\ EndSession(c)
  /\ UNCHANGED <<listener, ledger>>

(* Once run has returned, the runtime is dropped and every task with it, at *)
(* whichever await it stands.                                               *)
Cancel(c) ==
  /\ listener = "stopped"
  /\ pc[c] \notin {"unconnected", "closed"}
  /\ EndSession(c)
  /\ UNCHANGED <<listener, ledger>>

(* handle_connection up to the loop: the peer check and the banner. *)
Greet(c) ==
  /\ pc[c] = "accepted"
  /\ IF c \in AllowedPeers THEN Refuse(c, "banner", 220) ELSE EndSession(c)
  /\ UNCHANGED <<listener, ledger>>

(* read_smtp_line finds the end of the stream or a read error, or the line  *)
(* is too long.  In handle_auth an end of stream returns to the loop.       *)
ReadEnds(c) ==
  /\ pc[c] \in {"command", "auth", "data"}
  /\ \/ EndSession(c)
     \/ /\ pc[c] = "auth"
        /\ pc' = [pc EXCEPT ![c] = "command"]
        /\ UNCHANGED <<state, wire, relaying>>
  /\ UNCHANGED <<listener, ledger>>

-----------------------------------------------------------------------------
(* The commands. *)
Hello(c) ==
  /\ AtCommand(c)
  /\ Respond(c, ResetTransaction([state[c] EXCEPT !.helo = TRUE]), "HELO", NoSender, 250)
  /\ UNCHANGED <<listener, ledger>>

(* decode_auth_plain and the comparison with the configured credentials. *)
CheckCredentials(c) ==
  \/ Respond(c, [state[c] EXCEPT !.authenticated = TRUE], "AUTH", NoSender, 235)
  \/ Refuse(c, "AUTH", 535)     \* or 501, when the payload cannot be decoded

Auth(c) ==
  /\ AtCommand(c)
  /\ \/ /\ ~state[c].helo \/ state[c].authenticated
        /\ Refuse(c, "AUTH", 503)
     \/ /\ state[c].helo /\ ~state[c].authenticated
        /\ \/ Refuse(c, "AUTH", 504)            \* or 501, when no mechanism is named
           \/ CheckCredentials(c)               \* the initial response is given
           \/ /\ pc' = [pc EXCEPT ![c] = "auth"]  \* 334, then one more line
              /\ UNCHANGED <<state, wire, relaying>>
  /\ UNCHANGED <<listener, ledger>>

AuthResponse(c) ==
  /\ pc[c] = "auth"
  /\ CheckCredentials(c)
  /\ UNCHANGED <<listener, ledger>>

\* mutant: the 530 check is missing
MailUnchecked(c) ==
  /\ AtCommand(c)
  /\ state[c].helo
  /\ \E sender \in Sender :
       Respond(c, [ResetTransaction(state[c]) EXCEPT !.mail_from = sender],
               "MAIL", sender, 250)
  /\ UNCHANGED <<listener, ledger>>

Mail(c) ==
  /\ AtCommand(c)
  /\ \/ /\ ~state[c].helo
        /\ Refuse(c, "MAIL", 503)
     \/ /\ state[c].helo /\ ~state[c].authenticated
        /\ Refuse(c, "MAIL", 530)
     \/ /\ state[c].helo /\ state[c].authenticated
        /\ \/ Refuse(c, "MAIL", 501)
           \/ \E sender \in Sender :
                Respond(c, [ResetTransaction(state[c]) EXCEPT !.mail_from = sender],
                        "MAIL", sender, 250)
  /\ UNCHANGED <<listener, ledger>>

Rcpt(c) ==
  /\ AtCommand(c)
  /\ \/ /\ state[c].mail_from = NoSender
        /\ Refuse(c, "RCPT", 503)
     \/ /\ state[c].mail_from # NoSender
        /\ \/ Refuse(c, "RCPT", 501)
           \/ /\ Len(state[c].rcpt_to) < MaxRcpt
              /\ \E recipient \in Address :
                   Respond(c, [state[c] EXCEPT !.rcpt_to = Append(@, recipient)],
                           "RCPT", recipient, 250)
  /\ UNCHANGED <<listener, ledger>>

Rset(c) ==
  /\ AtCommand(c)
  /\ Respond(c, ResetTransaction(state[c]), "RSET", NoSender, 250)
  /\ UNCHANGED <<listener, ledger>>

(* NOOP and the commands it does not implement. *)
NoopOrUnknown(c) ==
  /\ AtCommand(c)
  /\ Refuse(c, "NOOP", 250)   \* 502 for a command it does not implement
  /\ UNCHANGED <<listener, ledger>>

Quit(c) ==
  /\ AtCommand(c)
  /\ EndSession(c)
  /\ UNCHANGED <<listener, ledger>>

-----------------------------------------------------------------------------
(* DATA, from the command to the final reply. *)
Data(c) ==
  /\ AtCommand(c)
  /\ \/ /\ state[c].mail_from = NoSender \/ state[c].rcpt_to = <<>>
        /\ Refuse(c, "DATA", 503)
     \/ /\ state[c].mail_from # NoSender /\ state[c].rcpt_to # <<>>
        /\ Len(ledger[c]) < MaxSubmissions
        /\ \/ /\ pc' = [pc EXCEPT ![c] = "data"]      \* 354
              /\ UNCHANGED <<state, wire, relaying>>
           \/ EndSession(c)                      \* the 354 is not written
  /\ UNCHANGED <<listener, ledger>>

(* read_message_data returns: the message is submitted as the client knows it. *)
DataEnds(c) ==
  /\ pc[c] = "data"
  /\ \E headers \in Headers :
       ledger' = [ledger EXCEPT ![c] = Append(@,
                    [mail_from |-> wire[c].mail_from, rcpt_to |-> wire[c].rcpt_to,
                     header_recipients |-> headers,
                     offered |-> <<>>, took |-> 0, reply |-> 0])]
  /\ pc' = [pc EXCEPT ![c] = "prepare"]
  /\ UNCHANGED <<listener, state, relaying, wire>>

Submission(c) == ledger[c][Len(ledger[c])]

(* The final reply to a message; a reply that is not written is not recorded. *)
Finish(c, code) ==
  \/ /\ Written(c, ResetTransaction(state[c]), ".", NoSender, code)
     /\ ledger' = [ledger EXCEPT ![c][Len(ledger[c])].reply = code]
  \/ EndSession(c) /\ UNCHANGED ledger

(* send_message is called with a delivery. *)
Offer(c, delivery) ==
  ledger' = [ledger EXCEPT ![c][Len(ledger[c])].offered = Append(@, delivery)]

(* prepare_deliveries refuses the mix, or cannot make the encrypted one:     *)
(* unreadable headers, nobody to encrypt to, a missing or unusable key.      *)
PrepareFails(c) ==
  /\ pc[c] = "prepare"
  /\ Refused(state[c].rcpt_to) \/ EncryptedPart(state[c].rcpt_to) # {}
  /\ Finish(c, 554)
  /\ UNCHANGED listener

Prepare(c) ==
  /\ pc[c] = "prepare"
  /\ ~Refused(state[c].rcpt_to)
  /\ EncryptedPart(state[c].rcpt_to) # {} =>
       EncryptionRecipients(Submission(c).header_recipients, state[c].rcpt_to) # {}
  /\ deliveries' = [deliveries EXCEPT ![c] =
       Deliveries(state[c].mail_from, state[c].rcpt_to, Submission(c).header_recipients)]
  /\ completed_deliveries' = [completed_deliveries EXCEPT ![c] = 0]
  /\ Offer(c, deliveries'[c][1])
  /\ pc' = [pc EXCEPT ![c] = "relay"]
  /\ UNCHANGED <<listener, state, wire>>

(* The remote server takes a delivery it was offered: while send_message     *)
(* waits for the confirmation, or after that wait has ended in an error, or  *)
(* the session with it.                                                      *)
RemoteTakes(c) ==
  /\ \E m \in DOMAIN ledger[c] :
       /\ ledger[c][m].took < Len(ledger[c][m].offered)
       /\ ledger' = [ledger EXCEPT ![c][m].took = @ + 1]
  /\ UNCHANGED <<listener, pc, state, relaying, wire>>

(* send_message returns Ok: the remote confirmed the delivery it had taken. *)
(* The loop goes on with the next one, or the message is done.              *)
SendSucceeds(c) ==
  /\ pc[c] = "relay"
  /\ Submission(c).took = Len(Submission(c).offered)
  /\ \/ /\ completed_deliveries[c] + 1 < Len(deliveries[c])
        /\ completed_deliveries' = [completed_deliveries EXCEPT ![c] = @ + 1]
        /\ Offer(c, deliveries[c][completed_deliveries[c] + 2])
        /\ UNCHANGED <<pc, state, deliveries, wire>>
     \/ /\ completed_deliveries[c] + 1 = Len(deliveries[c])
        /\ Finish(c, 250)
  /\ UNCHANGED listener

\* mutant: judges by completed_deliveries instead of relay_failure
SendFailsLeniently(c) ==
  /\ pc[c] = "relay"
  /\ Finish(c, IF completed_deliveries[c] > 0 THEN 250 ELSE 554)
  /\ UNCHANGED listener

\* mutant: waits for the remote server without a timeout
SendFailsOnAnswer(c) ==
  /\ pc[c] = "relay"
  /\ Submission(c).took = Len(Submission(c).offered)
  /\ Finish(c, 554)
  /\ UNCHANGED listener

(* send_message returns an error, whatever the remote server made of it. *)
SendFails(c) ==
  /\ pc[c] = "relay"
  /\ Finish(c, 554)
  /\ UNCHANGED listener

-----------------------------------------------------------------------------
Init ==
  /\ listener = "accepting"
  /\ pc = [c \in Conn |-> "unconnected"]
  /\ state = [c \in Conn |-> InitialState]
  /\ deliveries = [c \in Conn |-> <<>>]
  /\ completed_deliveries = [c \in Conn |-> 0]
  /\ wire = [c \in Conn |->
       [authenticated |-> FALSE, mail_from |-> NoSender, rcpt_to |-> <<>>]]
  /\ ledger = [c \in Conn |-> <<>>]

(* The client's half of a session: what it sends, and that it goes away. *)
Client(c) ==
  \/ Hello(c) \/ Auth(c) \/ AuthResponse(c) \/ Mail(c) \/ Rcpt(c) \/ Rset(c)
  \/ NoopOrUnknown(c) \/ Quit(c) \/ Data(c) \/ DataEnds(c) \/ ReadEnds(c)

(* The relay's half: what its task does without waiting for the client. *)
Task(c) ==
  \/ Greet(c) \/ PrepareFails(c) \/ Prepare(c)
  \/ SendSucceeds(c) \/ SendFails(c) \/ Cancel(c)

Session(c) == Client(c) \/ Task(c) \/ RemoteTakes(c) \/ Accept(c)

(* The program has exited; the model keeps standing there. *)
Exited ==
  /\ listener = "stopped"
  /\ \A c \in Conn : pc[c] \in {"unconnected", "closed"}
  /\ UNCHANGED vars

Next ==
  \/ \E c \in Conn : Session(c)
  \/ CtrlC \/ Stop \/ AcceptError
  \/ Exited

(***************************************************************************)
(* A ready task is polled, and what it awaits apart from the client's      *)
(* commands ends: connecting, each read and write to the remote server and *)
(* each key lookup have a timeout.  Two things are taken for granted: a    *)
(* reply of the remote server has a last line (the timeout is per line),   *)
(* and a client leaves room for the short replies written to it (those     *)
(* writes have none).  Nothing makes a client speak, a remote server take  *)
(* a message, or an operator press Ctrl+C.                                 *)
(***************************************************************************)
Fairness == WF_vars(Stop) /\ \A c \in Conn : WF_vars(Task(c))

Spec == Init /\ [][Next]_vars

FairSpec == Spec /\ Fairness

-----------------------------------------------------------------------------
(* The shape of the state. *)
Recipients == {rcpt_to \in Seq(Address) : Len(rcpt_to) <= MaxRcpt}

Groups == UNION {[part -> Address] : part \in SUBSET (1 .. MaxRcpt)}

Delivery ==
  [kind : {"Encrypted", "Unencrypted"}, mail_from : Sender, rcpt_to : Groups,
   readers : SUBSET (Name \ {NoName})]

Message ==
  [mail_from : Sender, rcpt_to : Recipients, header_recipients : Headers,
   offered : Seq(Delivery), took : Nat, reply : {0, 250, 554}]

TypeOK ==
  /\ listener \in {"accepting", "interrupted", "stopped"}
  /\ pc \in [Conn -> {"unconnected", "accepted", "command", "auth", "data",
                      "prepare", "relay", "closed"}]
  /\ state \in [Conn -> [helo : BOOLEAN, authenticated : BOOLEAN,
                         mail_from : Sender \cup {NoSender}, rcpt_to : Recipients]]
  /\ deliveries \in [Conn -> Seq(Delivery)]
  /\ completed_deliveries \in [Conn -> Nat]
  /\ wire \in [Conn -> [authenticated : BOOLEAN,
                        mail_from : Sender \cup {NoSender}, rcpt_to : Recipients]]
  /\ ledger \in [Conn -> Seq(Message)]

-----------------------------------------------------------------------------
(***************************************************************************)
(* The two ends of a session agree: as long as it lasts, SessionState      *)
(* holds exactly the sender and the recipients that the replies so far     *)
(* have confirmed since the last one that ended a transaction, and takes   *)
(* the client for authenticated exactly when it was told so.  A recipient  *)
(* left over from an earlier message or lost between two replies breaks    *)
(* it.                                                                     *)
(***************************************************************************)
SameTransaction ==
  \A c \in Conn : pc[c] \notin {"unconnected", "closed"} =>
    /\ state[c].mail_from = wire[c].mail_from
    /\ state[c].rcpt_to = wire[c].rcpt_to
    /\ state[c].authenticated = wire[c].authenticated

(***************************************************************************)
(* Only an allowed peer that was told 235 gets anything relayed: MAIL is   *)
(* the only command that checks it, and RCPT, DATA and the relaying itself *)
(* rely on that check.                                                     *)
(***************************************************************************)
OnlyAuthenticatedSubmissions ==
  \A c \in Conn : ledger[c] # <<>> => c \in AllowedPeers /\ wire[c].authenticated

(***************************************************************************)
(* What is sent in clear is what the configuration exempts.  Of every      *)
(* delivery ever offered to the remote server: an unencrypted one goes to  *)
(* configured exceptions only, and beside recipients that need encryption  *)
(* only to exceptions that allow the split; an encrypted one can be read   *)
(* by each of its recipients that has a name, by none of those the same    *)
(* message was sent to in clear, and by everybody else its header names,   *)
(* configured exceptions that the envelope does not name among them.       *)
(***************************************************************************)
ClearOnlyByPolicy ==
  \A c \in Conn : \A m \in DOMAIN ledger[c] :
    LET message == ledger[c][m] IN
    \A n \in DOMAIN message.offered :
      LET delivery == message.offered[n]
          names    == {normalize_email[delivery.rcpt_to[i]] :
                         i \in DOMAIN delivery.rcpt_to}
      IN
      /\ delivery.kind = "Unencrypted" =>
           /\ names \subseteq DOMAIN unencrypted_recipients
           /\ \A i \in DOMAIN message.rcpt_to :
                ~IsUnencrypted(message.rcpt_to[i]) =>
                  \A name \in names : unencrypted_recipients[name]
      /\ delivery.kind = "Encrypted" =>
           /\ delivery.readers # {}
           /\ names \ {NoName} \subseteq delivery.readers
           /\ names \cap DOMAIN unencrypted_recipients = {}
           /\ \A i \in DOMAIN message.rcpt_to :
                IsUnencrypted(message.rcpt_to[i]) =>
                  normalize_email[message.rcpt_to[i]] \notin delivery.readers
           /\ \A name \in message.header_recipients \ delivery.readers :
                \E i \in DOMAIN message.rcpt_to :
                  IsUnencrypted(message.rcpt_to[i])
                    /\ name = normalize_email[message.rcpt_to[i]]

(***************************************************************************)
(* "250 message relayed" means it: each recipient the client was told 250  *)
(* for is, under the sender it gave, in exactly one delivery, and the      *)
(* remote server has taken every delivery there was.                       *)
(***************************************************************************)
ConfirmedMeansTaken ==
  \A c \in Conn : \A m \in DOMAIN ledger[c] :
    LET message == ledger[c][m] IN
    message.reply = 250 =>
      /\ message.took = Len(message.offered)
      /\ \A n \in 1 .. message.took : message.offered[n].mail_from = message.mail_from
      /\ \A i \in DOMAIN message.rcpt_to :
           \E n \in 1 .. message.took :
             /\ i \in DOMAIN message.offered[n].rcpt_to
             /\ message.offered[n].rcpt_to[i] = message.rcpt_to[i]
             /\ \A k \in 1 .. message.took :
                  i \in DOMAIN message.offered[k].rcpt_to => k = n

Unanswered(c) ==
  ledger[c] # <<>> /\ Submission(c).reply = 0 /\ pc[c] # "closed"

(***************************************************************************)
(* Every submitted message is answered, or its session ends: nothing in    *)
(* prepare_deliveries or in the loop over the deliveries waits for ever.   *)
(***************************************************************************)
EveryMessageAnswered == \A c \in Conn : Unanswered(c) ~> ~Unanswered(c)

(***************************************************************************)
(* When the listener has stopped, for whichever reason, every session ends *)
(* although some of them wait for clients that say nothing.                *)
(***************************************************************************)
StopEndsSessions ==
  \A c \in Conn :
    (listener = "stopped") ~> (pc[c] \in {"unconnected", "closed"})

-----------------------------------------------------------------------------
(* What the promise of RelayPromise sees of the constants and the ledger. *)
ExemptAddresses == {a \in Address : IsUnencrypted(a)}

SplitAddresses == {a \in ExemptAddresses : unencrypted_recipients[normalize_email[a]]}

Sent(delivery) ==
  [kind |-> delivery.kind, mail_from |-> delivery.mail_from, rcpt_to |-> delivery.rcpt_to]

Seen(message) ==
  [mail_from |-> message.mail_from, rcpt_to |-> message.rcpt_to,
   offered   |-> [n \in DOMAIN message.offered |-> Sent(message.offered[n])],
   took      |-> message.took, reply |-> message.reply]

(* The ledger without who can read a delivery and what its headers said. *)
Book == [c \in Conn |-> [m \in DOMAIN ledger[c] |-> Seen(ledger[c][m])]]

Promise == INSTANCE RelayPromise WITH
  Exempt <- ExemptAddresses, SplitExempt <- SplitAddresses, book <- Book

(***************************************************************************)
(* The relay keeps its promise, whatever the interleaving, the failures    *)
(* and the moment of the stop: see RelayPromise.                           *)
(***************************************************************************)
KeepsPromise == Promise!Spec
=============================================================================

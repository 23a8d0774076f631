------------------------------- MODULE RemoteSmtp -------------------------------
(***************************************************************************)
(* The outbound side of the relay (remote_smtp.rs): one send_message, over *)
(* a connection of its own, and the server at its other end.  The client   *)
(* writes a request, reads lines up to one without a continuation mark and *)
(* goes on by their code; each wait has its own timeout, and any read or   *)
(* write may fail, after the server has got the request or before.  The    *)
(* server answers as it likes, with as many lines as it likes, or not at   *)
(* all, but does what it says: it takes a message exactly when it answers  *)
(* 250 to it.  What it has received it goes on with after the client has   *)
(* given up.                                                               *)
(*                                                                         *)
(* A line that is no reply (too short, no code, another code than the      *)
(* lines before it) is a read that fails.                                  *)
(***************************************************************************)
EXTENDS Naturals, Sequences

CONSTANTS
  TlsModes,      \* of remote_smtp.tls_mode: "Wrapper", "Starttls"
  Mechanisms,    \* of remote_smtp.auth: "PLAIN", "OAUTHBEARER", "XOAUTH2"
  RcptCount,     \* recipients of the delivery
  MaxInFlight    \* bound of the model: lines the server is ahead of the client

ASSUME RemoteSmtpAssumption ==
  /\ TlsModes \subseteq {"Wrapper", "Starttls"}
  /\ Mechanisms \subseteq {"PLAIN", "OAUTHBEARER", "XOAUTH2"}
  /\ RcptCount \in Nat \ {0}
  /\ MaxInFlight \in Nat \ {0}

VARIABLES
  config,        \* tls_mode and the mechanism of auth
  pc,            \* what send_message waits for: the reply to a request, by the
                 \* request's name, or "connect", "handshake", "ok", "failed"
  secure,        \* the connection is the one over tls_stream
  capabilities,  \* ServerCapabilities: "STARTTLS", and "AUTH" for the mechanism
  accepted,      \* how many recipients were accepted so far
  reply,         \* the texts of the continuation lines of the reply being read
  buffer,        \* lines in the BufReader of the connection
  net,           \* lines on their way to it
  request,       \* the request on its way to the server
  sent,          \* the requests written so far, each with whether over TLS
  server         \* the server: its end of TLS, the reply it is giving, the
                 \* transaction it has accepted and whom it took a message for

negotiated == <<config, secure, capabilities, accepted>>

vars == <<negotiated, pc, reply, buffer, net, request, sent, server>>

-----------------------------------------------------------------------------
Questions ==
  {"EHLO", "STARTTLS", "AUTH", "CREDENTIALS", "CANCEL", "MAIL", "RCPT", "DATA",
   "MESSAGE", "QUIT"}

Awaiting == {"greeting"} \cup Questions

Recipients == 1 .. RcptCount

NoRequest == [what |-> "none", recipient |-> 0]

Request(what, recipient) == [what |-> what, recipient |-> recipient]

(* The codes the client goes on with. *)
Expected(what) ==
  CASE what \in {"greeting", "STARTTLS"}    -> {220}
    [] what \in {"EHLO", "MAIL", "MESSAGE"} -> {250}
    [] what = "AUTH"                        -> {334}
    [] what = "CREDENTIALS" -> IF config.auth = "PLAIN" THEN {235} ELSE {235, 334}
    [] what = "RCPT"                        -> {250, 251}
    [] what = "DATA"                        -> {354}
    [] what = "QUIT"                        -> {221}
    [] OTHER                                -> {}

-----------------------------------------------------------------------------
(* read_line: the BufReader is refilled from the stream when it is empty, with *)
(* as many of the lines that have arrived as one read returns.                 *)
Refill ==
  /\ pc \in Awaiting
  /\ buffer = <<>>
  /\ \E n \in 1 .. Len(net) :
       /\ buffer' = SubSeq(net, 1, n)
       /\ net' = SubSeq(net, n + 1, Len(net))
  /\ UNCHANGED <<negotiated, pc, reply, request, sent, server>>

ReadsLine == pc \in Awaiting /\ buffer # <<>> /\ buffer' = Tail(buffer)

(* read_response goes round its loop. *)
Continue ==
  /\ ReadsLine
  /\ Head(buffer).more
  /\ reply' = reply \cup {Head(buffer).text}
  /\ UNCHANGED <<negotiated, pc, net, request, sent, server>>

(* It has the last line of a reply: the texts and the code of the reply. *)
ReadsReply == ReadsLine /\ ~Head(buffer).more /\ reply' = {}

Listed == reply \cup {Head(buffer).text}

Code == Head(buffer).code

Answered(what) == pc = what /\ ReadsReply /\ Code \in Expected(what)

(* send_message returns Ok if only QUIT is left, and an error otherwise. *)
Result(what) == IF what = "QUIT" THEN "ok" ELSE "failed"

(* The next request is written and flushed, or that fails, in which case the *)
(* server may still have all of it.                                          *)
Ask(what, recipient) ==
  /\ sent' = sent \cup {[what |-> what, secure |-> secure]}
  /\ \/ /\ pc' = what
        /\ request' = Request(what, recipient)
     \/ /\ pc' = Result(what)
        /\ request' \in {NoRequest, Request(what, recipient)}

Fail == pc' = "failed" /\ UNCHANGED <<request, sent>>

-----------------------------------------------------------------------------
Connect ==
  /\ pc = "connect"
  /\ \/ /\ config.tls_mode = "Wrapper"
        /\ pc' = "handshake"
        /\ UNCHANGED server
     \/ /\ config.tls_mode = "Starttls"
        /\ pc' = "greeting"
        /\ \E code \in {220, 550} :
             server' = [server EXCEPT !.to = "greeting", !.code = code]
  /\ UNCHANGED <<negotiated, reply, buffer, net, request, sent>>

Greeting ==
  /\ Answered("greeting")
  /\ Ask("EHLO", 0)
  /\ UNCHANGED <<negotiated, net, server>>

\* mutant: the capabilities listed before the upgrade count after it
EhloAccumulates ==
  /\ Answered("EHLO")
  /\ capabilities' = capabilities \cup Listed
  /\ \/ ~secure /\ "STARTTLS" \in capabilities' /\ Ask("STARTTLS", 0)
     \/ secure /\ "AUTH" \in capabilities' /\ Ask("AUTH", 0)
     \/ (IF secure THEN "AUTH" ELSE "STARTTLS") \notin capabilities' /\ Fail
  /\ UNCHANGED <<config, secure, accepted, net, server>>

\* mutant: goes on in clear when STARTTLS is not listed
EhloOpportunistic ==
  /\ Answered("EHLO")
  /\ capabilities' = Listed
  /\ \/ ~secure /\ "STARTTLS" \in Listed /\ Ask("STARTTLS", 0)
     \/ (secure \/ "STARTTLS" \notin Listed) /\ "AUTH" \in Listed /\ Ask("AUTH", 0)
     \/ Listed \cap {"AUTH", "STARTTLS"} = {} /\ Fail
  /\ UNCHANGED <<config, secure, accepted, net, server>>

(* ehlo, and what is required of the capabilities: STARTTLS in clear, the    *)
(* mechanism of the configuration over TLS.                                  *)
Ehlo ==
  /\ Answered("EHLO")
  /\ capabilities' = Listed
  /\ \/ ~secure /\ "STARTTLS" \in Listed /\ Ask("STARTTLS", 0)
     \/ secure /\ "AUTH" \in Listed /\ Ask("AUTH", 0)
     \/ (IF secure THEN "AUTH" ELSE "STARTTLS") \notin Listed /\ Fail
  /\ UNCHANGED <<config, secure, accepted, net, server>>

Starttls ==
  /\ Answered("STARTTLS")
  /\ pc' = "handshake"
  /\ UNCHANGED <<negotiated, net, request, sent, server>>

\* mutant: the new connection keeps the lines buffered by the old one
HandshakeKeepsBuffer ==
  /\ pc = "handshake"
  /\ net = <<>>
  /\ secure' = TRUE
  /\ \/ /\ config.tls_mode = "Wrapper"
        /\ pc' = "greeting"
        /\ \E code \in {220, 550} :
             server' = [server EXCEPT !.tls = TRUE, !.to = "greeting", !.code = code]
        /\ UNCHANGED <<request, sent>>
     \/ /\ config.tls_mode = "Starttls"
        /\ server.upgrading
        /\ server' = [server EXCEPT !.tls = TRUE]
        /\ sent' = sent \cup {[what |-> "EHLO", secure |-> TRUE]}
        /\ pc' = "EHLO"
        /\ request' = Request("EHLO", 0)
  /\ UNCHANGED <<config, capabilities, accepted, reply, buffer, net>>

(* The TLS handshake, on a stream with nothing else left to read; lines that *)
(* came in clear behind the 220 fail it, or are lost with the old BufReader. *)
(* With STARTTLS the EHLO of the new connection follows.                     *)
Handshake ==
  /\ pc = "handshake"
  /\ net = <<>>
  /\ secure' = TRUE
  /\ buffer' = <<>>
  /\ \/ /\ config.tls_mode = "Wrapper"
        /\ pc' = "greeting"
        /\ \E code \in {220, 550} :
             server' = [server EXCEPT !.tls = TRUE, !.to = "greeting", !.code = code]
        /\ UNCHANGED <<request, sent>>
     \/ /\ config.tls_mode = "Starttls"
        /\ server' = [server EXCEPT !.tls = TRUE]
        /\ sent' = sent \cup {[what |-> "EHLO", secure |-> TRUE]}
        /\ \/ pc' = "EHLO" /\ request' = Request("EHLO", 0)
           \/ pc' = "failed" /\ request' \in {NoRequest, Request("EHLO", 0)}
  /\ UNCHANGED <<config, capabilities, accepted, reply, net>>

(* authenticate. *)
Auth ==
  /\ Answered("AUTH")
  /\ Ask("CREDENTIALS", 0)
  /\ UNCHANGED <<negotiated, net, server>>

Credentials ==
  /\ Answered("CREDENTIALS")
  /\ IF Code = 235 THEN Ask("MAIL", 0) ELSE Ask("CANCEL", 0)
  /\ UNCHANGED <<negotiated, net, server>>

(* send_transaction. *)
Mail ==
  /\ Answered("MAIL")
  /\ Ask("RCPT", 1)
  /\ UNCHANGED <<negotiated, net, server>>

\* mutant: asks once more than there are recipients
RcptOnceMore ==
  /\ Answered("RCPT")
  /\ accepted' = accepted + 1
  /\ IF accepted <= RcptCount THEN Ask("RCPT", accepted + 2) ELSE Ask("DATA", 0)
  /\ UNCHANGED <<config, secure, capabilities, net, server>>

Rcpt ==
  /\ Answered("RCPT")
  /\ accepted' = accepted + 1
  /\ IF accepted + 1 < RcptCount THEN Ask("RCPT", accepted + 2) ELSE Ask("DATA", 0)
  /\ UNCHANGED <<config, secure, capabilities, net, server>>

Data ==
  /\ Answered("DATA")
  /\ Ask("MESSAGE", 0)
  /\ UNCHANGED <<negotiated, net, server>>

Message ==
  /\ Answered("MESSAGE")
  /\ Ask("QUIT", 0)
  /\ UNCHANGED <<negotiated, net, server>>

Quit ==
  /\ Answered("QUIT")
  /\ pc' = "ok"
  /\ UNCHANGED <<negotiated, net, request, sent, server>>

\* mutant: a refused recipient is left out of the message
RejectedSkips ==
  /\ ReadsReply
  /\ Code \notin Expected(pc)
  /\ IF pc = "RCPT" /\ accepted > 0 THEN Ask("DATA", 0)
     ELSE pc' = Result(pc) /\ UNCHANGED <<request, sent>>
  /\ UNCHANGED <<negotiated, net, server>>

(* A reply with another code, and any reply to the end of a failed AUTH. *)
Rejected ==
  /\ ReadsReply
  /\ Code \notin Expected(pc)
  /\ pc' = Result(pc)
  /\ UNCHANGED <<negotiated, net, request, sent, server>>

\* mutant: only connecting has a timeout
GiveUpConnecting ==
  /\ pc \in {"connect", "handshake"}
  /\ pc' = "failed"
  /\ UNCHANGED <<negotiated, reply, buffer, net, request, sent, server>>

(* A timeout, the end of the stream, an error or a line that is no reply. *)
GiveUp ==
  /\ pc \notin {"ok", "failed"}
  /\ pc' = Result(pc)
  /\ UNCHANGED <<negotiated, reply, buffer, net, request, sent, server>>

-----------------------------------------------------------------------------
(* The server. *)
ServerCodes(what) ==
  CASE what \in {"EHLO", "MAIL", "MESSAGE"} -> {250, 550}
    [] what = "STARTTLS"    -> {220, 550}
    [] what = "AUTH"        -> {334, 550}
    [] what = "CREDENTIALS" -> {235, 334, 550}
    [] what = "RCPT"        -> {250, 251, 550}
    [] what = "DATA"        -> {354, 550}
    [] what = "QUIT"        -> {221, 550}
    [] OTHER                -> {550}

(* It decides on a request and does what the code says. *)
Decides(what, recipient, code) ==
  LET decided == [server EXCEPT !.to = what, !.code = code] IN
  CASE what = "STARTTLS" /\ code = 220 -> [decided EXCEPT !.upgrading = TRUE]
    [] what = "RCPT" /\ code \in {250, 251} -> [decided EXCEPT !.rcpt = @ \cup {recipient}]
    [] what = "MESSAGE" /\ code = 250 -> [decided EXCEPT !.taken = @ \cup server.rcpt]
    [] OTHER -> decided

Serve ==
  /\ request # NoRequest
  /\ server.to = "none"
  /\ \E code \in ServerCodes(request.what) :
       server' = Decides(request.what, request.recipient, code)
  /\ request' = NoRequest
  /\ UNCHANGED <<negotiated, pc, reply, buffer, net, sent>>

(* It sends a line of its reply; the lines of a 250 to EHLO list something. *)
SendLine ==
  /\ server.to # "none"
  /\ Len(net) < MaxInFlight
  /\ \E more \in BOOLEAN :
     \E text \in IF server.to = "EHLO" /\ server.code = 250
                 THEN {"", "STARTTLS", "AUTH"} ELSE {""} :
       /\ net' = Append(net, [code |-> server.code, more |-> more,
                              text |-> text, to |-> server.to])
       /\ server' = [server EXCEPT
            !.to = IF more THEN @ ELSE "none",
            !.listed = IF server.tls THEN @ \cup {text} ELSE @]
  /\ UNCHANGED <<negotiated, pc, reply, buffer, request, sent>>

(* Behind its 220 to STARTTLS it sends another reply in clear. *)
SendAhead ==
  /\ server.upgrading /\ ~server.tls /\ server.to = "none"
  /\ Len(net) < MaxInFlight
  /\ net' = Append(net, [code |-> 250, more |-> FALSE, text |-> "AUTH", to |-> "ahead"])
  /\ UNCHANGED <<negotiated, pc, reply, buffer, request, sent, server>>

-----------------------------------------------------------------------------
Init ==
  /\ config \in [tls_mode : TlsModes, auth : Mechanisms]
  /\ pc = "connect"
  /\ secure = FALSE
  /\ capabilities = {}
  /\ accepted = 0
  /\ reply = {}
  /\ buffer = <<>>
  /\ net = <<>>
  /\ request = NoRequest
  /\ sent = {}
  /\ server = [tls |-> FALSE, upgrading |-> FALSE, to |-> "none", code |-> 220,
               rcpt |-> {}, taken |-> {}, listed |-> {}]

Client ==
  \/ Connect \/ Handshake \/ Refill \/ Continue \/ Greeting \/ Ehlo \/ Starttls
  \/ Auth \/ Credentials \/ Mail \/ Rcpt \/ Data \/ Message \/ Quit
  \/ Rejected \/ GiveUp

Server == Serve \/ SendLine \/ SendAhead

Next == Client \/ Server

(* The call is polled when it can go on, and its timers fire. *)
Fairness == WF_vars(Client)

Spec == Init /\ [][Next]_vars

FairSpec == Spec /\ Fairness

-----------------------------------------------------------------------------
(* The shape of the state. *)
Texts == {"", "STARTTLS", "AUTH"}

Codes == {220, 221, 235, 250, 251, 334, 354, 550}

Lines == [code : Codes, more : BOOLEAN, text : Texts, to : Awaiting \cup {"ahead"}]

TypeOK ==
  /\ config \in [tls_mode : TlsModes, auth : Mechanisms]
  /\ pc \in Awaiting \cup {"connect", "handshake", "ok", "failed"}
  /\ secure \in BOOLEAN
  /\ capabilities \subseteq Texts
  /\ accepted \in 0 .. RcptCount
  /\ reply \subseteq Texts
  /\ buffer \in Seq(Lines) /\ Len(buffer) <= MaxInFlight
  /\ net \in Seq(Lines) /\ Len(net) <= MaxInFlight
  /\ request \in {NoRequest} \cup [what : Questions, recipient : 0 .. RcptCount]
  /\ sent \subseteq [what : Questions, secure : BOOLEAN]
  /\ server \in [tls : BOOLEAN, upgrading : BOOLEAN, to : Awaiting \cup {"none"},
                 code : Codes, rcpt : SUBSET Recipients,
                 taken : SUBSET Recipients, listed : SUBSET Texts]

-----------------------------------------------------------------------------
(***************************************************************************)
(* Only EHLO and STARTTLS ever go out in clear: credentials, addresses and *)
(* the message need TLS, whatever the server lists, answers or omits.      *)
(***************************************************************************)
OnlyGreetingsInClear ==
  \A message \in sent : message.secure \/ message.what \in {"EHLO", "STARTTLS"}

(***************************************************************************)
(* The client never takes a line for an answer to another request than the *)
(* one it waits on: neither a line left over from a longer reply nor one   *)
(* sent in clear and read over TLS.                                        *)
(***************************************************************************)
InStep ==
  pc \in Awaiting =>
    \A i \in DOMAIN (buffer \o net) :
      \/ (buffer \o net)[i].to = pc
      \/ (buffer \o net)[i].to = "ahead" /\ pc = "STARTTLS" /\ ~secure

(***************************************************************************)
(* A mechanism is only used when the server listed it over TLS; what it    *)
(* listed in clear does not count.                                         *)
(***************************************************************************)
MechanismListedOverTls ==
  pc \in Questions \ {"EHLO", "STARTTLS"} => "AUTH" \in server.listed

(***************************************************************************)
(* The call returns, unless the server keeps sending continuation lines    *)
(* for ever: each wait has a timeout, but a reply as a whole has none.     *)
(***************************************************************************)
ReturnsUnlessDripped == <>(pc \in {"ok", "failed"}) \/ []<><<Continue>>_vars

-----------------------------------------------------------------------------
(***************************************************************************)
(* The call implements a delivery attempt: the server takes the message    *)
(* for all recipients or for none, at most once; Ok means it did, also     *)
(* when the farewell fails; an error says nothing of it.                   *)
(***************************************************************************)
Attempt == INSTANCE DeliveryAttempt WITH
  taken   <- server.taken,
  outcome <- CASE pc \in {"QUIT", "ok"} -> "ok"
               [] pc = "failed"         -> "failed"
               [] OTHER                 -> "pending"

IsAttempt == Attempt!Spec
=============================================================================

---------------------------- MODULE RemoteSmtpProofs ----------------------------
(***************************************************************************)
(* Theorems about RemoteSmtp, for every TLS mode, mechanism and number of  *)
(* recipients: the shape of the state, what goes out in clear, that client *)
(* and server stay in step, and that a call implements a delivery attempt. *)
(***************************************************************************)
EXTENDS RemoteSmtp, SequenceTheorems, TLAPS

(* The lines the server has sent and the client has not consumed. *)
Incoming == buffer \o net

-----------------------------------------------------------------------------
(* The inductive invariant. *)

(* TLS is one thing at both ends, and comes before anything confidential. *)
Confidential ==
  /\ OnlyGreetingsInClear
  /\ secure = server.tls
  /\ pc \in (Questions \ {"EHLO", "STARTTLS"}) \cup {"ok"} => secure
  /\ pc \in {"connect", "handshake", "STARTTLS"} => ~secure
  /\ server.upgrading /\ ~secure =>
       pc \in {"STARTTLS", "handshake", "failed"} /\ request = NoRequest

(* While the client waits for a reply there is one thing under way, and it   *)
(* belongs to that reply: the request, its reply, or the rest of its lines.  *)
OneReply ==
  /\ request # NoRequest => request.what = pc /\ server.to = "none" /\ Incoming = <<>>
  /\ server.to # "none" => server.to = pc
  /\ \A i \in DOMAIN Incoming :
       ~Incoming[i].more /\ Incoming[i].to = pc =>
         /\ server.to = "none"
         /\ \A j \in DOMAIN Incoming : j > i => Incoming[j].to = "ahead"

Turns ==
  /\ pc \in Awaiting => OneReply
  /\ pc \in {"connect", "handshake"} =>
       request = NoRequest /\ server.to = "none" /\ reply = {}
  /\ pc = "connect" => Incoming = <<>>
  /\ \A i \in DOMAIN Incoming : Incoming[i].to = "ahead" => Incoming[i].code = 250

(* What the client has read over TLS the server has listed there. *)
Listing ==
  /\ secure /\ "AUTH" \in reply => "AUTH" \in server.listed
  /\ secure => \A i \in DOMAIN Incoming :
       Incoming[i].text = "AUTH" => "AUTH" \in server.listed
  /\ MechanismListedOverTls

(* The recipients the client counts are recipients the server has. *)
Counting ==
  /\ 1 .. accepted \subseteq server.rcpt
  /\ pc \in {"connect", "handshake", "greeting", "EHLO", "STARTTLS", "AUTH",
             "CREDENTIALS", "CANCEL", "MAIL"} => accepted = 0
  /\ pc \in {"DATA", "MESSAGE", "QUIT", "ok"} => accepted = RcptCount
  /\ request.what = "RCPT" => request.recipient \in Recipients
  /\ pc = "RCPT" =>
       /\ accepted < RcptCount
       /\ request # NoRequest => request.recipient = accepted + 1
       /\ server.to = "RCPT" /\ server.code \in {250, 251} => accepted + 1 \in server.rcpt
       /\ \A i \in DOMAIN Incoming :
            Incoming[i].to = "RCPT" /\ Incoming[i].code \in {250, 251} =>
              accepted + 1 \in server.rcpt

(* The message is taken once, for all recipients, before that is confirmed. *)
Taking ==
  /\ server.taken \in {{}, Recipients}
  /\ request.what = "MESSAGE" => server.taken = {} /\ server.rcpt = Recipients
  /\ server.taken # {} => pc \in {"MESSAGE", "QUIT", "ok", "failed"}
  /\ server.to = "MESSAGE" /\ server.code = 250 => server.taken = Recipients
  /\ \A i \in DOMAIN Incoming :
       Incoming[i].to = "MESSAGE" /\ Incoming[i].code = 250 => server.taken = Recipients
  /\ pc \in {"QUIT", "ok"} => server.taken = Recipients

IInv ==
  TypeOK /\ Confidential /\ InStep /\ Turns /\ Listing /\ Counting /\ Taking

-----------------------------------------------------------------------------
(* How each kind of step changes the lines under way. *)

LEMMA IncomingLines ==
  ASSUME TypeOK
  PROVE  Incoming \in Seq(Lines)
BY ConcatProperties DEF TypeOK, Incoming

(* Refilling the buffer only moves lines. *)
LEMMA RefillKeepsIncoming ==
  ASSUME TypeOK, Refill
  PROVE  /\ Incoming' = Incoming
         /\ buffer' \in Seq(Lines) /\ Len(buffer') <= MaxInFlight
         /\ net' \in Seq(Lines) /\ Len(net') <= MaxInFlight
<1>1. PICK n \in 1 .. Len(net) : /\ buffer' = SubSeq(net, 1, n)
                                 /\ net' = SubSeq(net, n + 1, Len(net))
  BY DEF Refill
<1>2. net \in Seq(Lines) /\ Len(net) \in Nat /\ Len(net) <= MaxInFlight /\ MaxInFlight \in Nat
  BY RemoteSmtpAssumption, LenProperties DEF TypeOK
<1>3. /\ buffer' \in Seq(Lines) /\ Len(buffer') = n
      /\ net' \in Seq(Lines) /\ Len(net') = Len(net) - n
  BY <1>1, <1>2, SubSeqProperties
<1>4. buffer' \o net' = SubSeq(net, 1, Len(net))
  BY <1>1, <1>2, ConcatAdjacentSubSeq
<1>5. SubSeq(net, 1, Len(net)) = net
  BY <1>2, SubSeqFull
<1>6. Incoming = net
  BY <1>2, ConcatEmptySeq DEF Refill, Incoming
<1>. QED  BY <1>2, <1>3, <1>4, <1>5, <1>6 DEF Incoming

(* Reading consumes the first of them. *)
LEMMA ReadConsumes ==
  ASSUME TypeOK, ReadsLine, net' = net
  PROVE  /\ 1 \in DOMAIN Incoming
         /\ Incoming[1] = Head(buffer) /\ Head(buffer) \in Lines
         /\ Len(Incoming') = Len(Incoming) - 1 /\ Incoming' \in Seq(Lines)
         /\ \A i \in DOMAIN Incoming' :
              i + 1 \in DOMAIN Incoming /\ Incoming'[i] = Incoming[i + 1]
         /\ buffer' \in Seq(Lines) /\ Len(buffer') <= MaxInFlight
<1>1. /\ buffer \in Seq(Lines) /\ buffer # <<>> /\ buffer' = Tail(buffer)
      /\ net \in Seq(Lines) /\ net' \in Seq(Lines)
      /\ Len(buffer) <= MaxInFlight /\ MaxInFlight \in Nat
  BY RemoteSmtpAssumption DEF TypeOK, ReadsLine
<1>2. /\ Head(buffer) = buffer[1] /\ Head(buffer) \in Lines
      /\ buffer' \in Seq(Lines) /\ Len(buffer') = Len(buffer) - 1
      /\ \A i \in 1 .. Len(buffer') : buffer'[i] = buffer[i + 1]
  BY <1>1, HeadTailProperties
<1>3. Len(buffer) \in Nat \ {0} /\ Len(net) \in Nat
  BY <1>1, LenProperties, EmptySeq
<1>4. /\ Incoming \in Seq(Lines) /\ Len(Incoming) = Len(buffer) + Len(net)
      /\ \A i \in 1 .. Len(buffer) + Len(net) : Incoming[i] =
           IF i <= Len(buffer) THEN buffer[i] ELSE net[i - Len(buffer)]
  BY <1>1, ConcatProperties DEF Incoming
<1>5. /\ Incoming' \in Seq(Lines) /\ Len(Incoming') = Len(buffer') + Len(net)
      /\ \A i \in 1 .. Len(buffer') + Len(net) : Incoming'[i] =
           IF i <= Len(buffer') THEN buffer'[i] ELSE net[i - Len(buffer')]
  BY <1>1, <1>2, ConcatProperties DEF Incoming
<1>6. DOMAIN Incoming = 1 .. Len(Incoming) /\ DOMAIN Incoming' = 1 .. Len(Incoming')
  BY <1>4, <1>5, LenProperties
<1>7. ASSUME NEW i \in DOMAIN Incoming'
      PROVE  i + 1 \in DOMAIN Incoming /\ Incoming'[i] = Incoming[i + 1]
  BY <1>2, <1>3, <1>4, <1>5, <1>6, <1>7
<1>. QED  BY <1>1, <1>2, <1>3, <1>4, <1>5, <1>6, <1>7

(* Sending adds one at the end. *)
LEMMA SendAppends ==
  ASSUME TypeOK, NEW line \in Lines, Len(net) < MaxInFlight,
         net' = Append(net, line), buffer' = buffer
  PROVE  /\ net' \in Seq(Lines) /\ Len(net') <= MaxInFlight
         /\ Incoming' \in Seq(Lines)
         /\ Len(Incoming') = Len(Incoming) + 1
         /\ Incoming'[Len(Incoming) + 1] = line
         /\ \A i \in DOMAIN Incoming' :
              i # Len(Incoming) + 1 => i \in DOMAIN Incoming /\ Incoming'[i] = Incoming[i]
<1>1. buffer \in Seq(Lines) /\ net \in Seq(Lines) /\ MaxInFlight \in Nat
  BY RemoteSmtpAssumption DEF TypeOK
<1>2. /\ net' \in Seq(Lines) /\ Len(net') = Len(net) + 1
      /\ Len(net) \in Nat /\ Len(buffer) \in Nat
      /\ net'[Len(net) + 1] = line
      /\ \A i \in 1 .. Len(net) : net'[i] = net[i]
  BY <1>1, AppendProperties, LenProperties
<1>3. /\ Incoming \in Seq(Lines) /\ Len(Incoming) = Len(buffer) + Len(net)
      /\ \A i \in 1 .. Len(buffer) + Len(net) : Incoming[i] =
           IF i <= Len(buffer) THEN buffer[i] ELSE net[i - Len(buffer)]
  BY <1>1, ConcatProperties DEF Incoming
<1>4. /\ Incoming' \in Seq(Lines) /\ Len(Incoming') = Len(buffer) + Len(net')
      /\ \A i \in 1 .. Len(buffer) + Len(net') : Incoming'[i] =
           IF i <= Len(buffer) THEN buffer[i] ELSE net'[i - Len(buffer)]
  BY <1>1, <1>2, ConcatProperties DEF Incoming
<1>5. DOMAIN Incoming = 1 .. Len(Incoming) /\ DOMAIN Incoming' = 1 .. Len(Incoming')
  BY <1>3, <1>4, LenProperties
<1>6. ASSUME NEW i \in DOMAIN Incoming', i # Len(Incoming) + 1
      PROVE  i \in DOMAIN Incoming /\ Incoming'[i] = Incoming[i]
  <2> DEFINE b == Len(buffer)
             n == Len(net)
  <2>1. b \in Nat /\ n \in Nat /\ Len(net') = n + 1 /\ Len(Incoming) = b + n
    BY <1>2, <1>3
  <2>2. i \in 1 .. Len(Incoming') /\ Len(Incoming') = b + Len(net') /\ i # Len(Incoming) + 1
    BY <1>4, <1>5, <1>6
  <2>3. i \in 1 .. b + n /\ i \in 1 .. b + Len(net')
    BY <2>1, <2>2
  <2>4. /\ Incoming'[i] = IF i <= b THEN buffer[i] ELSE net'[i - b]
        /\ Incoming[i] = IF i <= b THEN buffer[i] ELSE net[i - b]
    BY <1>3, <1>4, <2>3
  <2>5. i > b => i - b \in 1 .. n
    BY <2>1, <2>3
  <2>6. i > b => net'[i - b] = net[i - b]
    BY <1>2, <2>5
  <2>7. Incoming'[i] = Incoming[i]
    BY <2>1, <2>3, <2>4, <2>6
  <2>. QED  BY <1>5, <2>1, <2>3, <2>7
<1>7. Incoming'[Len(Incoming) + 1] = line
  BY <1>2, <1>3, <1>4
<1>. QED  BY <1>1, <1>2, <1>3, <1>4, <1>6, <1>7

(* A new connection has none. *)
LEMMA NothingIncoming ==
  ASSUME net' = <<>>, buffer' = <<>>
  PROVE  Incoming' = <<>>
<1>1. <<>> \in Seq(Lines)
  OBVIOUS
<1>2. <<>> \o <<>> = <<>>
  BY <1>1, ConcatEmptySeq
<1>. QED  BY <1>2 DEF Incoming

-----------------------------------------------------------------------------
(* The two ways a step that has read a reply goes on: with the next request, *)
(* or with the end of the call.                                              *)

(* When the last line of an answer is consumed nothing is left under way.  *)
LEMMA AnswerIsAll ==
  ASSUME IInv, ReadsReply, net' = net, Head(buffer).to = pc
  PROVE  /\ request = NoRequest /\ server.to = "none"
         /\ pc # "STARTTLS" => Incoming' = <<>>
<1>1. /\ 1 \in DOMAIN Incoming /\ Incoming[1] = Head(buffer)
      /\ Len(Incoming') = Len(Incoming) - 1 /\ Incoming' \in Seq(Lines)
      /\ Incoming \in Seq(Lines)
      /\ \A i \in DOMAIN Incoming' :
           i + 1 \in DOMAIN Incoming /\ Incoming'[i] = Incoming[i + 1]
  BY ReadConsumes, IncomingLines DEF IInv, ReadsReply
<1>2. pc \in Awaiting /\ OneReply /\ ~Incoming[1].more /\ Incoming[1].to = pc
  BY <1>1 DEF IInv, Turns, ReadsReply, ReadsLine
<1>3. server.to = "none" /\ \A j \in DOMAIN Incoming : j > 1 => Incoming[j].to = "ahead"
  BY <1>1, <1>2 DEF OneReply
<1>4. Incoming # <<>>
  BY <1>1, EmptySeq
<1>5. request = NoRequest
  BY <1>2, <1>4 DEF OneReply
<1>6. ASSUME pc # "STARTTLS"
      PROVE  Incoming' = <<>>
  <2>1. \A j \in DOMAIN Incoming : Incoming[j].to = pc
    BY <1>2, <1>6 DEF IInv, InStep, Incoming
  <2>2. DOMAIN Incoming' = {}
    <3>1. SUFFICES ASSUME NEW i \in DOMAIN Incoming' PROVE FALSE
      OBVIOUS
    <3>2. i \in Nat \ {0}
      BY <1>1, LenProperties
    <3>3. i + 1 \in DOMAIN Incoming /\ i + 1 > 1
      BY <1>1, <3>2
    <3>4. pc = "ahead"
      BY <1>3, <2>1, <3>3
    <3>. QED  BY <1>2, <3>4 DEF Awaiting, Questions
  <2>. QED  BY <2>2, <1>1, EmptySeq, LenProperties
<1>. QED  BY <1>3, <1>5, <1>6

(* All requests but STARTTLS are answered by the first line there is. *)
LEMMA AnswerIsMine ==
  ASSUME IInv, ReadsReply, net' = net, pc # "STARTTLS"
  PROVE  Head(buffer).to = pc
<1>1. 1 \in DOMAIN Incoming /\ Incoming[1] = Head(buffer)
  BY ReadConsumes DEF IInv, ReadsReply
<1>. QED  BY <1>1 DEF IInv, InStep, Incoming, ReadsReply, ReadsLine

LEMMA NextInRange ==
  \A n \in Nat : \A i \in 0 .. n : i < n => i + 1 \in 1 .. n
OBVIOUS

(* The next request leaves with nothing under way: what remains to be shown  *)
(* of an action is when it asks this, and what of.                           *)
LEMMA Asking ==
  ASSUME IInv, ReadsReply, pc # "STARTTLS",
         NEW what \in Questions, NEW recipient \in 0 .. RcptCount,
         Ask(what, recipient),
         UNCHANGED <<net, server, config, secure>>,
         capabilities' \subseteq Texts, accepted' \in 0 .. RcptCount,
         what = "STARTTLS" => ~secure,
         what \notin {"EHLO", "STARTTLS"} => secure /\ "AUTH" \in server.listed,
         1 .. accepted' \subseteq server.rcpt,
         what \in {"EHLO", "STARTTLS", "AUTH", "CREDENTIALS", "CANCEL", "MAIL"} =>
           accepted' = 0,
         what \in {"DATA", "MESSAGE", "QUIT"} => accepted' = RcptCount,
         what = "RCPT" => accepted' < RcptCount /\ recipient = accepted' + 1,
         what = "QUIT" => server.taken = Recipients,
         what # "QUIT" => server.taken = {}
  PROVE  IInv'
<1>1. /\ request = NoRequest /\ server.to = "none" /\ Incoming' = <<>>
  BY AnswerIsAll, AnswerIsMine
<1>2. /\ pc \in Awaiting /\ reply' = {}
      /\ buffer' \in Seq(Lines) /\ Len(buffer') <= MaxInFlight
  BY ReadConsumes DEF IInv, ReadsReply, ReadsLine
<1>3. /\ pc' \in {what, "failed", "ok"}
      /\ pc' = "ok" => what = "QUIT"
      /\ request' \in {NoRequest, Request(what, recipient)}
      /\ pc' = what => request' = Request(what, recipient)
      /\ sent' = sent \cup {[what |-> what, secure |-> secure]}
  BY <1>1 DEF Ask, Result, Questions
<1>4. /\ Request(what, recipient).what = what
      /\ Request(what, recipient).recipient = recipient
      /\ NoRequest.what = "none"
  BY DEF Request, NoRequest
<1>5. DOMAIN Incoming' = {}
  BY <1>1, EmptySeq
<1>6. TypeOK'
  <2>1. request' \in {NoRequest} \cup [what : Questions, recipient : 0 .. RcptCount]
    BY <1>3 DEF Request
  <2>2. sent' \subseteq [what : Questions, secure : BOOLEAN]
    BY <1>3 DEF IInv, TypeOK
  <2>3. pc' \in Awaiting \cup {"connect", "handshake", "ok", "failed"}
    BY <1>3 DEF Awaiting
  <2>. QED  BY <1>2, <2>1, <2>2, <2>3 DEF IInv, TypeOK
<1>7. Confidential'
  <2>1. OnlyGreetingsInClear'
    BY <1>3 DEF IInv, Confidential, OnlyGreetingsInClear
  <2>2. server.upgrading => secure
    BY <1>2 DEF IInv, Confidential, Awaiting, Questions
  <2>. QED  BY <1>3, <2>1, <2>2 DEF IInv, Confidential, Questions
<1>8. InStep'
  BY <1>5 DEF InStep, Incoming
<1>9. Turns'
  <2>1. OneReply' \/ pc' \notin Awaiting
    BY <1>1, <1>3, <1>4, <1>5 DEF OneReply, Awaiting, Questions
  <2>. QED  BY <1>3, <1>5, <2>1 DEF Turns, Questions
<1>10. Listing'
  BY <1>2, <1>3, <1>5 DEF IInv, Listing, MechanismListedOverTls, Questions
<1>11. Counting'
  <2>1. what = "RCPT" => recipient \in Recipients
    <3>1. accepted' \in 0 .. RcptCount /\ accepted' < RcptCount
            => accepted' + 1 \in 1 .. RcptCount
      BY NextInRange, RemoteSmtpAssumption
    <3>2. what = "RCPT" => recipient \in 1 .. RcptCount
      BY <3>1
    <3>. QED  BY <3>2 DEF Recipients
  <2>2. request'.what = "RCPT" => what = "RCPT" /\ request'.recipient = recipient
    BY <1>3, <1>4
  <2>3. pc' = "RCPT" => what = "RCPT" /\ request'.recipient = recipient
    BY <1>3, <1>4
  <2>4. pc' \in {"connect", "handshake", "greeting", "EHLO", "STARTTLS", "AUTH",
                "CREDENTIALS", "CANCEL", "MAIL"} => accepted' = 0
    BY <1>3 DEF Questions
  <2>5. pc' \in {"DATA", "MESSAGE", "QUIT", "ok"} => accepted' = RcptCount
    BY <1>3 DEF Questions
  <2>. QED  BY <1>1, <1>5, <2>1, <2>2, <2>3, <2>4, <2>5 DEF Counting
<1>12. Taking'
  <2>1. what = "MESSAGE" => server.rcpt = Recipients
    BY DEF IInv, TypeOK, Recipients
  <2>. QED  BY <1>1, <1>3, <1>4, <1>5, <2>1 DEF IInv, Taking, Questions
<1>. QED  BY <1>6, <1>7, <1>8, <1>9, <1>10, <1>11, <1>12 DEF IInv

(* The call ends, having consumed a line or not; the server may go on with   *)
(* what it has got.                                                          *)
LEMMA Ending ==
  ASSUME IInv, pc' \in {"ok", "failed"},
         pc' = "ok" => pc = "QUIT",
         UNCHANGED <<net, server, config, secure, accepted, request, sent>>,
         capabilities' \subseteq Texts, reply' \in {{}, reply},
         buffer' = buffer \/ ReadsLine
  PROVE  IInv'
<1>1. /\ buffer' \in Seq(Lines) /\ Len(buffer') <= MaxInFlight
      /\ \A i \in DOMAIN Incoming' :
           \E j \in DOMAIN Incoming : Incoming'[i] = Incoming[j]
  <2>1. CASE buffer' = buffer
    BY <2>1 DEF IInv, TypeOK, Incoming
  <2>2. CASE ReadsLine
    BY <2>2, ReadConsumes DEF IInv
  <2>. QED  BY <2>1, <2>2
<1>2. TypeOK'
  BY <1>1 DEF IInv, TypeOK
<1>3. Confidential'
  <2>1. OnlyGreetingsInClear'
    BY DEF IInv, Confidential, OnlyGreetingsInClear
  <2>. QED  BY <2>1 DEF IInv, Confidential, Questions
<1>4. InStep'
  BY DEF InStep, Awaiting, Questions
<1>5. Turns'
  BY <1>1 DEF IInv, Turns, Awaiting, Questions
<1>6. Listing'
  BY <1>1 DEF IInv, Listing, MechanismListedOverTls, Questions
<1>7. Counting'
  BY <1>1 DEF IInv, Counting
<1>8. Taking'
  BY <1>1 DEF IInv, Taking
<1>. QED  BY <1>2, <1>3, <1>4, <1>5, <1>6, <1>7, <1>8 DEF IInv

-----------------------------------------------------------------------------
(* The handlers of replies. *)

(* What holds while the reply to any request behind EHLO is waited for. *)
LEMMA Authenticating ==
  ASSUME IInv, pc \in Questions \ {"EHLO", "STARTTLS"}
  PROVE  secure /\ "AUTH" \in server.listed
BY DEF IInv, Confidential, Listing, MechanismListedOverTls

LEMMA NothingTakenYet ==
  ASSUME IInv, pc \notin {"MESSAGE", "QUIT", "ok", "failed"}
  PROVE  server.taken = {}
BY DEF IInv, Taking

(* Before the first recipient there is none accepted. *)
LEMMA NoneAccepted ==
  ASSUME IInv,
         pc \in {"connect", "handshake", "greeting", "EHLO", "STARTTLS", "AUTH",
                 "CREDENTIALS", "CANCEL", "MAIL"}
  PROVE  accepted = 0 /\ 1 .. accepted \subseteq server.rcpt
BY DEF IInv, Counting

LEMMA GreetingKeeps ==
  ASSUME IInv, Greeting
  PROVE  IInv'
<1>1. /\ pc = "greeting" /\ ReadsReply /\ Ask("EHLO", 0)
      /\ UNCHANGED <<config, secure, capabilities, accepted, net, server>>
  BY DEF Greeting, Answered, negotiated
<1>2. server.taken = {} /\ accepted = 0 /\ 1 .. accepted \subseteq server.rcpt
  BY <1>1, NothingTakenYet, NoneAccepted
<1>3. capabilities' \subseteq Texts /\ accepted' \in 0 .. RcptCount
  BY <1>1 DEF IInv, TypeOK
<1>4. "EHLO" \in Questions /\ 0 \in 0 .. RcptCount
  BY <1>2 DEF IInv, TypeOK, Questions
<1>. QED  BY <1>1, <1>2, <1>3, <1>4, Asking

LEMMA EhloKeeps ==
  ASSUME IInv, Ehlo
  PROVE  IInv'
<1>1. /\ pc = "EHLO" /\ ReadsReply /\ capabilities' = Listed
      /\ UNCHANGED <<config, secure, accepted, net, server>>
  BY DEF Ehlo, Answered
<1>2. server.taken = {} /\ accepted = 0 /\ 1 .. accepted \subseteq server.rcpt
  BY <1>1, NothingTakenYet, NoneAccepted
<1>3. Head(buffer) \in Lines /\ 1 \in DOMAIN Incoming /\ Incoming[1] = Head(buffer)
  BY <1>1, ReadConsumes DEF IInv, ReadsReply
<1>4. capabilities' \subseteq Texts
  BY <1>1, <1>3 DEF IInv, TypeOK, Listed, Lines
<1>5. 0 \in 0 .. RcptCount /\ accepted' \in 0 .. RcptCount
  BY <1>1, <1>2 DEF IInv, TypeOK
<1>6. CASE ~secure /\ Ask("STARTTLS", 0)
  <2>1. "STARTTLS" \in Questions
    BY DEF Questions
  <2>. QED  BY <1>1, <1>2, <1>4, <1>5, <1>6, <2>1, Asking
<1>7. CASE secure /\ "AUTH" \in Listed /\ Ask("AUTH", 0)
  <2>1. "AUTH" \in server.listed
    BY <1>3, <1>7 DEF IInv, Listing, Listed
  <2>2. "AUTH" \in Questions
    BY DEF Questions
  <2>. QED  BY <1>1, <1>2, <1>4, <1>5, <1>7, <2>1, <2>2, Asking
<1>8. CASE Fail
  BY <1>1, <1>4, <1>8, Ending DEF Fail, ReadsReply
<1>. QED  BY <1>6, <1>7, <1>8 DEF Ehlo

LEMMA AuthKeeps ==
  ASSUME IInv, Auth
  PROVE  IInv'
<1>1. /\ pc = "AUTH" /\ ReadsReply /\ Ask("CREDENTIALS", 0)
      /\ UNCHANGED <<config, secure, capabilities, accepted, net, server>>
  BY DEF Auth, Answered, negotiated
<1>2. /\ server.taken = {} /\ accepted = 0 /\ 1 .. accepted \subseteq server.rcpt
      /\ secure /\ "AUTH" \in server.listed
  BY <1>1, NothingTakenYet, NoneAccepted, Authenticating DEF Questions
<1>3. capabilities' \subseteq Texts /\ accepted' \in 0 .. RcptCount
  BY <1>1 DEF IInv, TypeOK
<1>4. "CREDENTIALS" \in Questions /\ 0 \in 0 .. RcptCount
  BY <1>2 DEF IInv, TypeOK, Questions
<1>. QED  BY <1>1, <1>2, <1>3, <1>4, Asking

LEMMA CredentialsKeeps ==
  ASSUME IInv, Credentials
  PROVE  IInv'
<1>1. /\ pc = "CREDENTIALS" /\ ReadsReply
      /\ Ask("MAIL", 0) \/ Ask("CANCEL", 0)
      /\ UNCHANGED <<config, secure, capabilities, accepted, net, server>>
  BY DEF Credentials, Answered, negotiated
<1>2. /\ server.taken = {} /\ accepted = 0 /\ 1 .. accepted \subseteq server.rcpt
      /\ secure /\ "AUTH" \in server.listed
  BY <1>1, NothingTakenYet, NoneAccepted, Authenticating DEF Questions
<1>3. capabilities' \subseteq Texts /\ accepted' \in 0 .. RcptCount
  BY <1>1 DEF IInv, TypeOK
<1>4. "MAIL" \in Questions /\ "CANCEL" \in Questions /\ 0 \in 0 .. RcptCount
  BY <1>2 DEF IInv, TypeOK, Questions
<1>5. CASE Ask("MAIL", 0)
  BY <1>1, <1>2, <1>3, <1>4, <1>5, Asking
<1>6. CASE Ask("CANCEL", 0)
  BY <1>1, <1>2, <1>3, <1>4, <1>6, Asking
<1>. QED  BY <1>1, <1>5, <1>6

LEMMA MailKeeps ==
  ASSUME IInv, Mail
  PROVE  IInv'
<1>1. /\ pc = "MAIL" /\ ReadsReply /\ Ask("RCPT", 1)
      /\ UNCHANGED <<config, secure, capabilities, accepted, net, server>>
  BY DEF Mail, Answered, negotiated
<1>2. /\ server.taken = {} /\ accepted = 0 /\ 1 .. accepted \subseteq server.rcpt
      /\ secure /\ "AUTH" \in server.listed
  BY <1>1, NothingTakenYet, NoneAccepted, Authenticating DEF Questions
<1>3. capabilities' \subseteq Texts /\ accepted' \in 0 .. RcptCount
  BY <1>1 DEF IInv, TypeOK
<1>4. /\ "RCPT" \in Questions /\ 1 \in 0 .. RcptCount
      /\ accepted' < RcptCount /\ 1 = accepted' + 1
  BY <1>1, <1>2, RemoteSmtpAssumption DEF Questions
<1>. QED  BY <1>1, <1>2, <1>3, <1>4, Asking

LEMMA OneMore ==
  \A n \in Nat : 1 .. (n + 1) = (1 .. n) \cup {n + 1}
OBVIOUS

LEMMA RcptKeeps ==
  ASSUME IInv, Rcpt
  PROVE  IInv'
<1>1. /\ pc = "RCPT" /\ ReadsReply /\ Code \in {250, 251} /\ accepted' = accepted + 1
      /\ UNCHANGED <<config, secure, capabilities, net, server>>
  BY DEF Rcpt, Answered, Expected
<1>2. /\ server.taken = {} /\ secure /\ "AUTH" \in server.listed
  BY <1>1, NothingTakenYet, Authenticating DEF Questions
<1>3. /\ accepted \in 0 .. RcptCount /\ accepted < RcptCount
      /\ 1 .. accepted \subseteq server.rcpt
      /\ RcptCount \in Nat /\ accepted \in Nat
  BY <1>1, RemoteSmtpAssumption DEF IInv, TypeOK, Counting
<1>4. accepted + 1 \in server.rcpt
  <2>1. 1 \in DOMAIN Incoming /\ Incoming[1] = Head(buffer)
    BY <1>1, ReadConsumes DEF IInv, ReadsReply
  <2>2. Head(buffer).to = "RCPT"
    BY <1>1, AnswerIsMine
  <2>. QED  BY <1>1, <2>1, <2>2 DEF IInv, Counting, Code
<1>5. 1 .. accepted' \subseteq server.rcpt
  BY <1>1, <1>3, <1>4, OneMore
<1>6. capabilities' \subseteq Texts /\ accepted' \in 0 .. RcptCount
  BY <1>1, <1>3 DEF IInv, TypeOK
<1>7. "RCPT" \in Questions /\ "DATA" \in Questions /\ 0 \in 0 .. RcptCount
  BY <1>3 DEF Questions
<1>8. CASE accepted + 1 < RcptCount /\ Ask("RCPT", accepted + 2)
  <2>1. /\ accepted + 2 \in 0 .. RcptCount
        /\ accepted' < RcptCount /\ accepted + 2 = accepted' + 1
    BY <1>1, <1>3, <1>8
  <2>. QED  BY <1>1, <1>2, <1>5, <1>6, <1>7, <1>8, <2>1, Asking
<1>9. CASE ~(accepted + 1 < RcptCount) /\ Ask("DATA", 0)
  <2>1. accepted' = RcptCount
    BY <1>1, <1>3, <1>9
  <2>. QED  BY <1>1, <1>2, <1>5, <1>6, <1>7, <1>9, <2>1, Asking
<1>. QED  BY <1>8, <1>9 DEF Rcpt

LEMMA DataKeeps ==
  ASSUME IInv, Data
  PROVE  IInv'
<1>1. /\ pc = "DATA" /\ ReadsReply /\ Ask("MESSAGE", 0)
      /\ UNCHANGED <<config, secure, capabilities, accepted, net, server>>
  BY DEF Data, Answered, negotiated
<1>2. server.taken = {} /\ secure /\ "AUTH" \in server.listed
  BY <1>1, NothingTakenYet, Authenticating DEF Questions
<1>3. /\ capabilities' \subseteq Texts /\ accepted' \in 0 .. RcptCount
      /\ accepted' = RcptCount /\ 1 .. accepted' \subseteq server.rcpt
  BY <1>1 DEF IInv, TypeOK, Counting
<1>4. "MESSAGE" \in Questions /\ 0 \in 0 .. RcptCount
  BY RemoteSmtpAssumption DEF Questions
<1>. QED  BY <1>1, <1>2, <1>3, <1>4, Asking

LEMMA MessageKeeps ==
  ASSUME IInv, Message
  PROVE  IInv'
<1>1. /\ pc = "MESSAGE" /\ ReadsReply /\ Code = 250 /\ Ask("QUIT", 0)
      /\ UNCHANGED <<config, secure, capabilities, accepted, net, server>>
  BY DEF Message, Answered, Expected, negotiated
<1>2. secure /\ "AUTH" \in server.listed
  BY <1>1, Authenticating DEF Questions
<1>3. /\ capabilities' \subseteq Texts /\ accepted' \in 0 .. RcptCount
      /\ accepted' = RcptCount /\ 1 .. accepted' \subseteq server.rcpt
  BY <1>1 DEF IInv, TypeOK, Counting
<1>4. "QUIT" \in Questions /\ 0 \in 0 .. RcptCount
  BY RemoteSmtpAssumption DEF Questions
<1>5. server.taken = Recipients
  <2>1. 1 \in DOMAIN Incoming /\ Incoming[1] = Head(buffer)
    BY <1>1, ReadConsumes DEF IInv, ReadsReply
  <2>2. Head(buffer).to = "MESSAGE"
    BY <1>1, AnswerIsMine
  <2>. QED  BY <1>1, <2>1, <2>2 DEF IInv, Taking, Code
<1>. QED  BY <1>1, <1>2, <1>3, <1>4, <1>5, Asking

LEMMA QuitKeeps ==
  ASSUME IInv, Quit
  PROVE  IInv'
<1>1. /\ pc = "QUIT" /\ ReadsReply /\ pc' = "ok" /\ capabilities' \subseteq Texts
      /\ UNCHANGED <<config, secure, accepted, net, request, sent, server>>
  BY DEF Quit, Answered, negotiated, IInv, TypeOK
<1>. QED  BY <1>1, Ending DEF ReadsReply

LEMMA RejectedKeeps ==
  ASSUME IInv, Rejected
  PROVE  IInv'
<1>1. /\ ReadsReply /\ pc' = Result(pc) /\ capabilities' \subseteq Texts
      /\ UNCHANGED <<config, secure, accepted, net, request, sent, server>>
  BY DEF Rejected, negotiated, IInv, TypeOK
<1>2. pc' \in {"ok", "failed"} /\ (pc' = "ok" => pc = "QUIT")
  BY <1>1 DEF Result
<1>. QED  BY <1>1, <1>2, Ending DEF ReadsReply

LEMMA GiveUpKeeps ==
  ASSUME IInv, GiveUp
  PROVE  IInv'
<1>1. /\ pc' = Result(pc) /\ capabilities' \subseteq Texts /\ UNCHANGED <<reply, buffer>>
      /\ UNCHANGED <<config, secure, accepted, net, request, sent, server>>
  BY DEF GiveUp, negotiated, IInv, TypeOK
<1>2. pc' \in {"ok", "failed"} /\ (pc' = "ok" => pc = "QUIT")
  BY <1>1 DEF Result
<1>. QED  BY <1>1, <1>2, Ending

-----------------------------------------------------------------------------
(* Setting the connection up, and reading on. *)

Servers ==
  [tls : BOOLEAN, upgrading : BOOLEAN, to : Awaiting \cup {"none"},
   code : Codes, rcpt : SUBSET Recipients,
   taken : SUBSET Recipients, listed : SUBSET Texts]

(* A server that greets has otherwise not changed. *)
Greeted(s, tls, code) == [s EXCEPT !.tls = tls, !.to = "greeting", !.code = code]

LEMMA GreetedServer ==
  ASSUME NEW s \in Servers, NEW tls \in BOOLEAN, NEW code \in {220, 550}
  PROVE  /\ Greeted(s, tls, code) \in Servers
         /\ Greeted(s, tls, code).tls = tls
         /\ Greeted(s, tls, code).to = "greeting"
         /\ Greeted(s, tls, code).upgrading = s.upgrading
         /\ Greeted(s, tls, code).rcpt = s.rcpt
         /\ Greeted(s, tls, code).taken = s.taken
         /\ Greeted(s, tls, code).listed = s.listed
<1>1. "greeting" \in Awaiting \cup {"none"} /\ code \in Codes
  BY DEF Awaiting, Codes
<1> DEFINE upgraded == [s EXCEPT !.tls = tls]
           greeting == [upgraded EXCEPT !.to = "greeting"]
<1>2. /\ upgraded \in Servers /\ upgraded.tls = tls
      /\ upgraded.upgrading = s.upgrading /\ upgraded.rcpt = s.rcpt
      /\ upgraded.taken = s.taken /\ upgraded.listed = s.listed
  BY DEF Servers
<1>3. /\ greeting \in Servers /\ greeting.tls = tls /\ greeting.to = "greeting"
      /\ greeting.upgrading = s.upgrading /\ greeting.rcpt = s.rcpt
      /\ greeting.taken = s.taken /\ greeting.listed = s.listed
  BY <1>1, <1>2 DEF Servers
<1>4. Greeted(s, tls, code) = [greeting EXCEPT !.code = code]
  BY DEF Greeted
<1> HIDE DEF greeting
<1>. QED  BY <1>1, <1>3, <1>4 DEF Servers

LEMMA ConnectKeeps ==
  ASSUME IInv, Connect
  PROVE  IInv'
<1>1. /\ pc = "connect" /\ pc' \in {"handshake", "greeting"}
      /\ UNCHANGED <<config, secure, capabilities, accepted, reply, buffer, net, request, sent>>
      /\ pc' = "handshake" => server' = server
  BY DEF Connect, negotiated
<1>2. /\ server'.tls = server.tls /\ server'.upgrading = server.upgrading
      /\ server'.rcpt = server.rcpt /\ server'.taken = server.taken
      /\ server'.listed = server.listed
      /\ server'.to \in {"none", "greeting"}
      /\ server'.to = "greeting" => pc' = "greeting"
      /\ server' \in Servers
  <2>1. server.to = "none" /\ server \in Servers
    BY <1>1 DEF IInv, Turns, TypeOK, Servers
  <2>2. CASE server' = server
    BY <2>1, <2>2
  <2>3. CASE pc' = "greeting" /\ \E code \in {220, 550} :
               server' = [server EXCEPT !.to = "greeting", !.code = code]
    <3>1. PICK code \in {220, 550} :
            server' = [server EXCEPT !.to = "greeting", !.code = code]
      BY <2>3
    <3>2. server.tls \in BOOLEAN /\ server' = Greeted(server, server.tls, code)
      BY <2>1, <3>1 DEF Servers, Greeted
    <3>. QED  BY <2>1, <2>3, <3>2, GreetedServer
  <2>. QED  BY <2>2, <2>3 DEF Connect
<1>3. Incoming = <<>> /\ Incoming' = Incoming /\ DOMAIN Incoming' = {}
  <2>1. Incoming = <<>>
    BY <1>1 DEF IInv, Turns
  <2>2. Incoming' = Incoming
    BY <1>1 DEF Incoming
  <2>. QED  BY <2>1, <2>2, EmptySeq
<1>4. request = NoRequest /\ request' = NoRequest /\ reply' = {}
  BY <1>1 DEF IInv, Turns
<1>5. TypeOK'
  BY <1>1, <1>2 DEF IInv, TypeOK, Awaiting, Servers
<1>6. Confidential'
  <2>1. OnlyGreetingsInClear'
    BY <1>1 DEF IInv, Confidential, OnlyGreetingsInClear
  <2>2. ~server.upgrading
    BY <1>1 DEF IInv, Confidential
  <2>. QED  BY <1>1, <1>2, <2>1, <2>2 DEF IInv, Confidential, Questions
<1>7. InStep'
  BY <1>3 DEF InStep, Incoming
<1>8. Turns'
  <2>1. OneReply' \/ pc' \notin Awaiting
    BY <1>1, <1>2, <1>3, <1>4 DEF OneReply, Awaiting, Questions
  <2>2. pc' = "handshake" => server'.to = "none"
    BY <1>1, <1>2
  <2>. QED  BY <1>1, <1>3, <1>4, <2>1, <2>2 DEF Turns
<1>9. Listing'
  BY <1>1, <1>2, <1>3 DEF IInv, Listing, MechanismListedOverTls, Questions
<1>10. Counting'
  BY <1>1, <1>2, <1>3 DEF IInv, Counting
<1>11. Taking'
  BY <1>1, <1>2, <1>3 DEF IInv, Taking
<1>. QED  BY <1>5, <1>6, <1>7, <1>8, <1>9, <1>10, <1>11 DEF IInv

LEMMA StarttlsKeeps ==
  ASSUME IInv, Starttls
  PROVE  IInv'
<1>1. /\ pc = "STARTTLS" /\ ReadsReply /\ Code = 220 /\ pc' = "handshake" /\ reply' = {}
      /\ UNCHANGED <<config, secure, capabilities, accepted, net, request, sent, server>>
  BY DEF Starttls, Answered, ReadsReply, Expected, negotiated
<1>2. /\ 1 \in DOMAIN Incoming /\ Incoming[1] = Head(buffer)
      /\ buffer' \in Seq(Lines) /\ Len(buffer') <= MaxInFlight
      /\ \A i \in DOMAIN Incoming' :
           i + 1 \in DOMAIN Incoming /\ Incoming'[i] = Incoming[i + 1]
  BY <1>1, ReadConsumes DEF IInv, ReadsReply
<1>3. Head(buffer).to = pc
  <2>1. Head(buffer).to # "ahead"
    BY <1>1, <1>2 DEF IInv, Turns, Code
  <2>. QED  BY <1>1, <1>2, <2>1 DEF IInv, InStep, Incoming, Awaiting, Questions
<1>4. request = NoRequest /\ server.to = "none"
  BY <1>1, <1>3, AnswerIsAll
<1>5. TypeOK'
  BY <1>1, <1>2 DEF IInv, TypeOK
<1>6. Confidential'
  <2>1. OnlyGreetingsInClear'
    BY <1>1 DEF IInv, Confidential, OnlyGreetingsInClear
  <2>. QED  BY <1>1, <2>1 DEF IInv, Confidential, Questions
<1>7. InStep'
  BY <1>1 DEF InStep, Awaiting, Questions
<1>8. Turns'
  BY <1>1, <1>2, <1>4 DEF IInv, Turns, Awaiting, Questions
<1>9. Listing'
  BY <1>1, <1>2 DEF IInv, Listing, MechanismListedOverTls, Questions
<1>10. Counting'
  BY <1>1 DEF IInv, Counting
<1>11. Taking'
  BY <1>1, <1>2 DEF IInv, Taking
<1>. QED  BY <1>5, <1>6, <1>7, <1>8, <1>9, <1>10, <1>11 DEF IInv

(* The handshake leaves everything said before it behind. *)
LEMMA HandshakeKeeps ==
  ASSUME IInv, Handshake
  PROVE  IInv'
<1>1. /\ pc = "handshake" /\ net = <<>> /\ net' = <<>> /\ buffer' = <<>> /\ secure' = TRUE
      /\ UNCHANGED <<config, capabilities, accepted, reply>>
  BY DEF Handshake
<1>2. Incoming' = <<>> /\ DOMAIN Incoming' = {}
  BY <1>1, NothingIncoming, EmptySeq
<1>3. /\ request = NoRequest /\ server.to = "none" /\ reply' = {}
      /\ server.taken = {} /\ accepted = 0 /\ accepted' = 0
  BY <1>1, NothingTakenYet, NoneAccepted DEF IInv, Turns
<1>4. /\ server'.tls = TRUE /\ server'.upgrading = server.upgrading
      /\ server'.rcpt = server.rcpt /\ server'.taken = server.taken
      /\ server'.listed = server.listed
      /\ server' \in Servers
      /\ server'.to \in {"none", "greeting"}
  <2>0. server \in Servers
    BY DEF IInv, TypeOK, Servers
  <2>1. CASE server' = [server EXCEPT !.tls = TRUE]
    BY <1>3, <2>0, <2>1 DEF Servers
  <2>2. CASE \E code \in {220, 550} :
               server' = [server EXCEPT !.tls = TRUE, !.to = "greeting", !.code = code]
    <3>1. PICK tls \in BOOLEAN : tls = TRUE
      OBVIOUS
    <3>2. PICK code \in {220, 550} : server' = Greeted(server, tls, code)
      BY ZenonT(60), <2>2, <3>1 DEF Greeted
    <3>3. /\ Greeted(server, tls, code) \in Servers
          /\ Greeted(server, tls, code).tls = tls
          /\ Greeted(server, tls, code).to = "greeting"
          /\ Greeted(server, tls, code).upgrading = server.upgrading
          /\ Greeted(server, tls, code).rcpt = server.rcpt
          /\ Greeted(server, tls, code).taken = server.taken
          /\ Greeted(server, tls, code).listed = server.listed
      BY <2>0, GreetedServer
    <3>. QED  BY <3>1, <3>2, <3>3
  <2>. QED  BY <2>1, <2>2 DEF Handshake
<1>5. /\ request' \in {NoRequest, Request("EHLO", 0)}
      /\ pc' = "greeting" => request' = NoRequest
      /\ pc' = "EHLO" => server'.to = "none"
      /\ pc' \in {"greeting", "EHLO", "failed"}
      /\ sent' \subseteq sent \cup {[what |-> "EHLO", secure |-> TRUE]}
  <2>1. CASE pc' = "greeting" /\ UNCHANGED <<request, sent>>
    BY <1>3, <2>1
  <2>2. CASE /\ server' = [server EXCEPT !.tls = TRUE]
             /\ sent' = sent \cup {[what |-> "EHLO", secure |-> TRUE]}
             /\ \/ pc' = "EHLO" /\ request' = Request("EHLO", 0)
                \/ pc' = "failed" /\ request' \in {NoRequest, Request("EHLO", 0)}
    <3>1. server'.to = "none"
      BY <1>3, <2>2 DEF IInv, TypeOK
    <3>. QED  BY <2>2, <3>1
  <2>. QED  BY <2>1, <2>2 DEF Handshake
<1>6. /\ Request("EHLO", 0).what = "EHLO" /\ NoRequest.what = "none"
      /\ Request("EHLO", 0) \in [what : Questions, recipient : 0 .. RcptCount]
  BY RemoteSmtpAssumption DEF Request, NoRequest, Questions
<1>7. TypeOK'
  <2>1. buffer' \in Seq(Lines) /\ Len(buffer') <= MaxInFlight
    BY <1>1, RemoteSmtpAssumption
  <2>2. sent' \subseteq [what : Questions, secure : BOOLEAN]
    <3>1. [what |-> "EHLO", secure |-> TRUE] \in [what : Questions, secure : BOOLEAN]
      BY DEF Questions
    <3>2. sent \subseteq [what : Questions, secure : BOOLEAN]
      BY DEF IInv, TypeOK
    <3>. QED  BY <1>5, <3>1, <3>2
  <2>3. pc' \in Awaiting \cup {"connect", "handshake", "ok", "failed"}
    BY <1>5 DEF Awaiting, Questions
  <2>4. request' \in {NoRequest} \cup [what : Questions, recipient : 0 .. RcptCount]
    BY <1>5, <1>6
  <2>5. net' \in Seq(Lines) /\ Len(net') <= MaxInFlight
    BY <1>1, RemoteSmtpAssumption
  <2>. QED  BY <1>1, <1>4, <2>1, <2>2, <2>3, <2>4, <2>5 DEF IInv, TypeOK, Servers
<1>8. Confidential'
  <2>1. OnlyGreetingsInClear'
    BY <1>5 DEF IInv, Confidential, OnlyGreetingsInClear
  <2>. QED  BY <1>1, <1>4, <1>5, <2>1 DEF Confidential, Questions
<1>9. InStep'
  BY <1>2 DEF InStep, Incoming
<1>10. Turns'
  <2>1. OneReply' \/ pc' \notin Awaiting
    BY <1>2, <1>4, <1>5, <1>6 DEF OneReply, Awaiting, Questions
  <2>. QED  BY <1>2, <1>5, <2>1 DEF Turns
<1>11. Listing'
  BY <1>2, <1>3, <1>5 DEF Listing, MechanismListedOverTls, Questions
<1>12. Counting'
  <2>1. request'.what # "RCPT"
    BY <1>5, <1>6
  <2>. QED  BY <1>1, <1>3, <1>4, <1>5, <2>1 DEF IInv, Counting
<1>13. Taking'
  <2>1. request'.what # "MESSAGE"
    BY <1>5, <1>6
  <2>. QED  BY <1>2, <1>3, <1>4, <1>5, <2>1 DEF Taking
<1>. QED  BY <1>7, <1>8, <1>9, <1>10, <1>11, <1>12, <1>13 DEF IInv

LEMMA RefillKeeps ==
  ASSUME IInv, Refill
  PROVE  IInv'
<1>1. /\ Incoming' = Incoming
      /\ buffer' \in Seq(Lines) /\ Len(buffer') <= MaxInFlight
      /\ net' \in Seq(Lines) /\ Len(net') <= MaxInFlight
      /\ UNCHANGED <<config, secure, capabilities, accepted, pc, reply, request, sent, server>>
  BY RefillKeepsIncoming DEF IInv, Refill, negotiated
<1>2. TypeOK'
  BY <1>1 DEF IInv, TypeOK
<1>3. Confidential'
  <2>1. OnlyGreetingsInClear'
    BY <1>1 DEF IInv, Confidential, OnlyGreetingsInClear
  <2>. QED  BY <1>1, <2>1 DEF IInv, Confidential
<1>4. InStep'
  BY <1>1 DEF IInv, InStep, Incoming
<1>5. Turns'
  <2>1. OneReply => OneReply'
    BY <1>1 DEF OneReply
  <2>. QED  BY <1>1, <2>1 DEF IInv, Turns
<1>6. Listing'
  BY <1>1 DEF IInv, Listing, MechanismListedOverTls
<1>7. Counting'
  BY <1>1 DEF IInv, Counting
<1>8. Taking'
  BY <1>1 DEF IInv, Taking
<1>. QED  BY <1>2, <1>3, <1>4, <1>5, <1>6, <1>7, <1>8 DEF IInv

LEMMA ContinueKeeps ==
  ASSUME IInv, Continue
  PROVE  IInv'
<1>1. /\ ReadsLine /\ reply' = reply \cup {Head(buffer).text}
      /\ UNCHANGED <<config, secure, capabilities, accepted, pc, net, request, sent, server>>
  BY DEF Continue, negotiated
<1>2. /\ 1 \in DOMAIN Incoming /\ Incoming[1] = Head(buffer) /\ Head(buffer) \in Lines
      /\ Incoming' \in Seq(Lines) /\ Incoming \in Seq(Lines)
      /\ buffer' \in Seq(Lines) /\ Len(buffer') <= MaxInFlight
      /\ \A i \in DOMAIN Incoming' :
           i + 1 \in DOMAIN Incoming /\ Incoming'[i] = Incoming[i + 1]
  BY <1>1, ReadConsumes, IncomingLines DEF IInv
<1>3. TypeOK'
  BY <1>1, <1>2 DEF IInv, TypeOK, Lines
<1>4. Confidential'
  <2>1. OnlyGreetingsInClear'
    BY <1>1 DEF IInv, Confidential, OnlyGreetingsInClear
  <2>. QED  BY <1>1, <2>1 DEF IInv, Confidential
<1>5. InStep'
  BY <1>1, <1>2 DEF IInv, InStep, Incoming
<1>6. Turns'
  <2>1. pc \in Awaiting /\ OneReply
    BY <1>1 DEF IInv, Turns, ReadsLine
  <2>2. DOMAIN Incoming' \subseteq Nat
    BY <1>2, LenProperties
  <2>3. request' = NoRequest
    <3>1. Incoming # <<>>
      BY <1>2, EmptySeq
    <3>. QED  BY <1>1, <2>1, <3>1 DEF OneReply
  <2>4. OneReply'
    <3>1. ASSUME NEW i \in DOMAIN Incoming', ~Incoming'[i].more, Incoming'[i].to = pc
          PROVE  /\ server.to = "none"
                 /\ \A j \in DOMAIN Incoming' : j > i => Incoming'[j].to = "ahead"
      <4>1. i + 1 \in DOMAIN Incoming /\ ~Incoming[i + 1].more /\ Incoming[i + 1].to = pc
        BY <1>2, <3>1
      <4>2. \A j \in DOMAIN Incoming : j > i + 1 => Incoming[j].to = "ahead"
        BY <2>1, <4>1 DEF OneReply
      <4>3. server.to = "none"
        BY <2>1, <4>1 DEF OneReply
      <4>. QED  BY SMTT(30), <1>2, <2>2, <4>2, <4>3
    <3>. QED  BY <1>1, <2>1, <2>3, <3>1 DEF OneReply
  <2>5. pc \notin {"connect", "handshake"}
    BY <2>1 DEF Awaiting, Questions
  <2>. QED  BY <1>1, <1>2, <2>4, <2>5 DEF IInv, Turns
<1>7. Listing'
  BY <1>1, <1>2 DEF IInv, Listing, MechanismListedOverTls
<1>8. Counting'
  BY <1>1, <1>2 DEF IInv, Counting
<1>9. Taking'
  BY <1>1, <1>2 DEF IInv, Taking
<1>. QED  BY <1>3, <1>4, <1>5, <1>6, <1>7, <1>8, <1>9 DEF IInv

-----------------------------------------------------------------------------
(* The server. *)

ServedAs(s, what, code, upgrading, rcpt, taken) ==
  /\ s \in Servers
  /\ s.tls = server.tls /\ s.listed = server.listed
  /\ s.to = what /\ s.code = code
  /\ s.upgrading = upgrading /\ s.rcpt = rcpt /\ s.taken = taken

(* What a decision changes. *)
LEMMA Decision ==
  ASSUME server \in Servers, NEW what \in Questions, NEW recipient \in 0 .. RcptCount,
         NEW code \in Codes, what = "RCPT" => recipient \in Recipients
  PROVE  \E upgrading \in BOOLEAN, rcpt \in SUBSET Recipients, taken \in SUBSET Recipients :
           /\ ServedAs(Decides(what, recipient, code), what, code, upgrading, rcpt, taken)
           /\ upgrading => server.upgrading \/ what = "STARTTLS"
           /\ server.rcpt \subseteq rcpt
           /\ what # "RCPT" => rcpt = server.rcpt
           /\ what = "RCPT" /\ code \in {250, 251} => recipient \in rcpt
           /\ taken # server.taken =>
                what = "MESSAGE" /\ code = 250 /\ taken = server.taken \cup server.rcpt
           /\ what = "MESSAGE" /\ code = 250 => taken = server.taken \cup server.rcpt
<1> DEFINE decided == [server EXCEPT !.to = what, !.code = code]
<1>1. /\ decided \in Servers /\ decided.to = what /\ decided.code = code
      /\ decided.tls = server.tls /\ decided.listed = server.listed
      /\ decided.upgrading = server.upgrading /\ decided.rcpt = server.rcpt
      /\ decided.taken = server.taken
  <2> DEFINE turned == [server EXCEPT !.to = what]
  <2>1. /\ turned \in Servers /\ turned.to = what
        /\ turned.tls = server.tls /\ turned.listed = server.listed
        /\ turned.upgrading = server.upgrading /\ turned.rcpt = server.rcpt
        /\ turned.taken = server.taken
    BY DEF Servers, Awaiting
  <2>2. decided = [turned EXCEPT !.code = code]
    OBVIOUS
  <2> HIDE DEF turned, decided
  <2>. QED  BY <2>1, <2>2 DEF Servers
<1>2. Decides(what, recipient, code) =
        CASE what = "STARTTLS" /\ code = 220 -> [decided EXCEPT !.upgrading = TRUE]
          [] what = "RCPT" /\ code \in {250, 251} ->
               [decided EXCEPT !.rcpt = @ \cup {recipient}]
          [] what = "MESSAGE" /\ code = 250 ->
               [decided EXCEPT !.taken = @ \cup server.rcpt]
          [] OTHER -> decided
  BY DEF Decides
<1>3. /\ server.rcpt \in SUBSET Recipients /\ server.taken \in SUBSET Recipients
      /\ server.upgrading \in BOOLEAN
  BY DEF Servers
<1> HIDE DEF decided
<1>4. CASE what = "STARTTLS" /\ code = 220
  <2>1. Decides(what, recipient, code) = [decided EXCEPT !.upgrading = TRUE]
    BY <1>2, <1>4
  <2>2. ServedAs(Decides(what, recipient, code), what, code, TRUE, server.rcpt, server.taken)
    BY <1>1, <2>1 DEF ServedAs, Servers
  <2>. QED  BY ZenonT(60), <1>3, <1>4, <2>2
<1>5. CASE what = "RCPT" /\ code \in {250, 251}
  <2>1. Decides(what, recipient, code) = [decided EXCEPT !.rcpt = @ \cup {recipient}]
    BY <1>2, <1>5
  <2>2. ServedAs(Decides(what, recipient, code), what, code, server.upgrading,
                 server.rcpt \cup {recipient}, server.taken)
    BY <1>1, <1>5, <2>1 DEF ServedAs, Servers
  <2>3. server.rcpt \cup {recipient} \in SUBSET Recipients
    BY <1>3, <1>5
  <2>. QED  BY <1>3, <1>5, <2>2, <2>3
<1>6. CASE what = "MESSAGE" /\ code = 250
  <2>1. Decides(what, recipient, code) = [decided EXCEPT !.taken = @ \cup server.rcpt]
    BY <1>2, <1>6
  <2>2. ServedAs(Decides(what, recipient, code), what, code, server.upgrading,
                 server.rcpt, server.taken \cup server.rcpt)
    BY <1>1, <1>3, <2>1 DEF ServedAs, Servers
  <2>3. server.taken \cup server.rcpt \in SUBSET Recipients
    BY <1>3
  <2>. QED  BY <1>3, <1>6, <2>2, <2>3
<1>7. CASE /\ ~(what = "STARTTLS" /\ code = 220)
           /\ ~(what = "RCPT" /\ code \in {250, 251})
           /\ ~(what = "MESSAGE" /\ code = 250)
  <2>1. Decides(what, recipient, code) = decided
    BY <1>2, <1>7
  <2>2. ServedAs(Decides(what, recipient, code), what, code, server.upgrading,
                 server.rcpt, server.taken)
    BY <1>1, <2>1 DEF ServedAs
  <2>. QED  BY <1>3, <1>7, <2>2
<1>. QED  BY <1>4, <1>5, <1>6, <1>7

LEMMA ServeKeeps ==
  ASSUME IInv, Serve
  PROVE  IInv'
<1> DEFINE what == request.what
           recipient == request.recipient
<1>1. /\ request # NoRequest /\ request' = NoRequest /\ server.to = "none"
      /\ UNCHANGED <<config, secure, capabilities, accepted, pc, reply, buffer, net, sent>>
  BY DEF Serve, negotiated
<1>2. /\ what \in Questions /\ recipient \in 0 .. RcptCount
      /\ what = "RCPT" => recipient \in Recipients
  BY <1>1 DEF IInv, TypeOK, Counting
<1>3. PICK code \in Codes : server' = Decides(what, recipient, code)
  BY DEF Serve, ServerCodes, Codes
<1>4. server \in Servers
  BY DEF IInv, TypeOK, Servers
<1>5. PICK upgrading \in BOOLEAN, rcpt \in SUBSET Recipients, taken \in SUBSET Recipients :
        /\ ServedAs(server', what, code, upgrading, rcpt, taken)
        /\ upgrading => server.upgrading \/ what = "STARTTLS"
        /\ server.rcpt \subseteq rcpt
        /\ what # "RCPT" => rcpt = server.rcpt
        /\ what = "RCPT" /\ code \in {250, 251} => recipient \in rcpt
        /\ taken # server.taken =>
             what = "MESSAGE" /\ code = 250 /\ taken = server.taken \cup server.rcpt
        /\ what = "MESSAGE" /\ code = 250 => taken = server.taken \cup server.rcpt
  BY <1>2, <1>3, <1>4, Decision
<1>6. /\ server' \in Servers
      /\ server'.tls = server.tls /\ server'.listed = server.listed
      /\ server'.to = what /\ server'.code = code
      /\ server'.upgrading = upgrading /\ server'.rcpt = rcpt /\ server'.taken = taken
  BY <1>5 DEF ServedAs
<1>7. /\ Incoming' = Incoming /\ NoRequest.what = "none"
      /\ pc \notin {"connect", "handshake"}
      /\ pc \in Awaiting => pc = what /\ Incoming = <<>> /\ DOMAIN Incoming = {}
  <2>1. Incoming' = Incoming
    BY <1>1 DEF Incoming
  <2>2. pc \in Awaiting => pc = what /\ Incoming = <<>>
    BY <1>1 DEF IInv, Turns, OneReply
  <2>. QED  BY <1>1, <2>1, <2>2, EmptySeq DEF NoRequest, IInv, Turns
<1> HIDE DEF what, recipient
<1>8. TypeOK'
  BY <1>1, <1>6 DEF IInv, TypeOK, Servers
<1>9. Confidential'
  <2>1. OnlyGreetingsInClear'
    BY <1>1 DEF IInv, Confidential, OnlyGreetingsInClear
  <2>2. upgrading /\ ~secure => pc \in {"STARTTLS", "handshake", "failed"}
    <3>1. CASE server.upgrading
      BY <3>1 DEF IInv, Confidential
    <3>2. CASE what = "STARTTLS" /\ pc \in Awaiting
      BY <1>7, <3>2
    <3>3. CASE pc \notin Awaiting
      <4>1. pc \in {"ok", "failed"}
        BY <1>7, <3>3 DEF IInv, TypeOK
      <4>. QED  BY <4>1 DEF IInv, Confidential
    <3>. QED  BY <1>5, <3>1, <3>2, <3>3
  <2>. QED  BY <1>1, <1>6, <2>1, <2>2 DEF IInv, Confidential
<1>10. InStep'
  BY <1>1 DEF IInv, InStep
<1>11. Turns'
  <2>1. pc \in Awaiting => OneReply'
    BY <1>1, <1>6, <1>7 DEF OneReply
  <2>. QED  BY <1>1, <1>7, <2>1 DEF IInv, Turns
<1>12. Listing'
  BY <1>1, <1>6, <1>7 DEF IInv, Listing, MechanismListedOverTls
<1>13. Counting'
  <2>1. /\ 1 .. accepted \subseteq rcpt
        /\ pc \in {"connect", "handshake", "greeting", "EHLO", "STARTTLS", "AUTH",
                   "CREDENTIALS", "CANCEL", "MAIL"} => accepted = 0
        /\ pc \in {"DATA", "MESSAGE", "QUIT", "ok"} => accepted = RcptCount
    BY <1>5 DEF IInv, Counting
  <2>2. pc = "RCPT" =>
          /\ accepted < RcptCount /\ what = "RCPT" /\ recipient = accepted + 1
          /\ DOMAIN Incoming = {}
    BY <1>1, <1>7 DEF IInv, Counting, recipient, Awaiting, Questions
  <2>. QED  BY <1>1, <1>5, <1>6, <1>7, <2>1, <2>2 DEF Counting
<1>14. Taking'
  <2>1. /\ server.taken \in {{}, Recipients}
        /\ what = "MESSAGE" => server.taken = {} /\ server.rcpt = Recipients
    BY DEF IInv, Taking, what
  <2>2. taken \in {server.taken, Recipients} /\ (what = "MESSAGE" /\ code = 250 => taken = Recipients)
    BY <1>5, <2>1
  <2>3. taken # server.taken => pc \in {"MESSAGE", "ok", "failed"}
    BY <1>5, <1>7 DEF IInv, TypeOK
  <2>4. server.taken = Recipients => taken = Recipients
    BY <2>2
  <2>. QED  BY <1>1, <1>6, <1>7, <2>1, <2>2, <2>3, <2>4 DEF IInv, Taking
<1>. QED  BY <1>8, <1>9, <1>10, <1>11, <1>12, <1>13, <1>14 DEF IInv

LEMMA SendLineKeeps ==
  ASSUME IInv, SendLine
  PROVE  IInv'
<1>1. /\ server.to # "none" /\ Len(net) < MaxInFlight
      /\ UNCHANGED <<config, secure, capabilities, accepted, pc, reply, buffer, request, sent>>
  BY DEF SendLine, negotiated
<1>2. PICK more \in BOOLEAN, text \in Texts :
        /\ net' = Append(net, [code |-> server.code, more |-> more,
                               text |-> text, to |-> server.to])
        /\ server' = [server EXCEPT !.to = IF more THEN @ ELSE "none",
                                    !.listed = IF server.tls THEN @ \cup {text} ELSE @]
  BY DEF SendLine, Texts
<1> DEFINE line == [code |-> server.code, more |-> more, text |-> text, to |-> server.to]
<1>3. server \in Servers
  BY DEF IInv, TypeOK, Servers
<1>4. /\ server' \in Servers
      /\ server'.tls = server.tls /\ server'.upgrading = server.upgrading
      /\ server'.code = server.code
      /\ server'.rcpt = server.rcpt /\ server'.taken = server.taken
      /\ server'.to = IF more THEN server.to ELSE "none"
      /\ server.listed \subseteq server'.listed
      /\ server.tls => text \in server'.listed
  <2> DEFINE turned == [server EXCEPT !.to = IF more THEN @ ELSE "none"]
  <2>1. /\ turned \in Servers /\ turned.to = IF more THEN server.to ELSE "none"
        /\ turned.code = server.code
        /\ turned.tls = server.tls /\ turned.listed = server.listed
        /\ turned.upgrading = server.upgrading /\ turned.rcpt = server.rcpt
        /\ turned.taken = server.taken
    BY <1>3 DEF Servers
  <2>2. server' = [turned EXCEPT !.listed = IF server.tls THEN server.listed \cup {text}
                                                          ELSE server.listed]
    BY <1>2, <1>3 DEF Servers
  <2> HIDE DEF turned
  <2>. QED  BY <2>1, <2>2 DEF Servers
<1>5. line \in Lines
  BY <1>1, <1>3 DEF Lines, Servers
<1> HIDE DEF line
<1>6. /\ net' \in Seq(Lines) /\ Len(net') <= MaxInFlight
      /\ Incoming' \in Seq(Lines) /\ Incoming \in Seq(Lines)
      /\ Len(Incoming') = Len(Incoming) + 1
      /\ Incoming'[Len(Incoming) + 1] = line
      /\ \A i \in DOMAIN Incoming' :
           i # Len(Incoming) + 1 => i \in DOMAIN Incoming /\ Incoming'[i] = Incoming[i]
  <2>1. net' = Append(net, line)
    BY <1>2 DEF line
  <2>. QED  BY <1>1, <1>5, <2>1, SendAppends, IncomingLines DEF IInv
<1>7. /\ line.code = server.code /\ line.more = more
      /\ line.text = text /\ line.to = server.to
  BY DEF line
<1>8. TypeOK'
  BY <1>1, <1>4, <1>6 DEF IInv, TypeOK, Servers
<1>9. Confidential'
  <2>1. OnlyGreetingsInClear'
    BY <1>1 DEF IInv, Confidential, OnlyGreetingsInClear
  <2>. QED  BY <1>1, <1>4, <2>1 DEF IInv, Confidential
<1>10. InStep'
  <2>1. pc \in Awaiting => line.to = pc
    BY <1>1, <1>7 DEF IInv, Turns, OneReply
  <2>. QED  BY <1>1, <1>6, <2>1 DEF IInv, InStep, Incoming
<1>11. Turns'
  <2>1. ASSUME pc \in Awaiting
        PROVE  OneReply'
    <3>1. OneReply
      BY <2>1 DEF IInv, Turns
    <3>2. request = NoRequest /\ line.to = pc
      BY <1>1, <1>7, <3>1 DEF OneReply
    <3>3. \A i \in DOMAIN Incoming : ~(~Incoming[i].more /\ Incoming[i].to = pc)
      BY <1>1, <3>1 DEF OneReply
    <3>4. ASSUME NEW i \in DOMAIN Incoming', ~Incoming'[i].more, Incoming'[i].to = pc
          PROVE  /\ server'.to = "none"
                 /\ \A j \in DOMAIN Incoming' : j > i => Incoming'[j].to = "ahead"
      <4>1. i = Len(Incoming) + 1
        BY <1>6, <3>3, <3>4
      <4>2. ~more
        BY <1>6, <1>7, <3>4, <4>1
      <4>3. \A j \in DOMAIN Incoming' : ~(j > i)
        BY <1>6, <4>1, LenProperties
      <4>. QED  BY <1>4, <4>2, <4>3
    <3>. QED  BY <1>1, <1>4, <3>1, <3>2, <3>4 DEF OneReply
  <2>2. pc \notin {"connect", "handshake"}
    BY <1>1 DEF IInv, Turns
  <2>3. line.to # "ahead"
    BY <1>3, <1>7 DEF Servers, Awaiting, Questions
  <2>4. \A i \in DOMAIN Incoming' : Incoming'[i].to = "ahead" => Incoming'[i].code = 250
    BY <1>6, <2>3 DEF IInv, Turns
  <2>. QED  BY <1>1, <2>1, <2>2, <2>4 DEF Turns
<1>12. Listing'
  <2>1. secure => \A i \in DOMAIN Incoming' :
          Incoming'[i].text = "AUTH" => "AUTH" \in server'.listed
    <3>1. secure => server.tls
      BY DEF IInv, Confidential
    <3>. QED  BY <1>4, <1>6, <1>7, <3>1 DEF IInv, Listing
  <2>. QED  BY <1>1, <1>4, <2>1 DEF IInv, Listing, MechanismListedOverTls
<1>13. Counting'
  <2>1. pc = "RCPT" => \A i \in DOMAIN Incoming' :
          Incoming'[i].to = "RCPT" /\ Incoming'[i].code \in {250, 251} =>
            accepted + 1 \in server.rcpt
    BY <1>6, <1>7 DEF IInv, Counting
  <2>2. server'.to = "RCPT" => server.to = "RCPT"
    BY <1>4
  <2>. QED  BY <1>1, <1>4, <2>1, <2>2 DEF IInv, Counting
<1>14. Taking'
  <2>1. \A i \in DOMAIN Incoming' :
          Incoming'[i].to = "MESSAGE" /\ Incoming'[i].code = 250 =>
            server.taken = Recipients
    BY <1>6, <1>7 DEF IInv, Taking
  <2>2. server'.to = "MESSAGE" => server.to = "MESSAGE"
    BY <1>4
  <2>. QED  BY <1>1, <1>4, <2>1, <2>2 DEF IInv, Taking
<1>. QED  BY <1>8, <1>9, <1>10, <1>11, <1>12, <1>13, <1>14 DEF IInv

LEMMA SendAheadKeeps ==
  ASSUME IInv, SendAhead
  PROVE  IInv'
<1> DEFINE line == [code |-> 250, more |-> FALSE, text |-> "AUTH", to |-> "ahead"]
<1>1. /\ server.upgrading /\ ~server.tls /\ server.to = "none" /\ Len(net) < MaxInFlight
      /\ net' = Append(net, line)
      /\ UNCHANGED <<config, secure, capabilities, accepted, pc, reply, buffer, request,
                     sent, server>>
  BY DEF SendAhead, negotiated
<1>2. line \in Lines /\ line.to = "ahead" /\ line.code = 250
  BY DEF Lines, Codes, Texts
<1> HIDE DEF line
<1>3. /\ net' \in Seq(Lines) /\ Len(net') <= MaxInFlight
      /\ Incoming' \in Seq(Lines) /\ Incoming \in Seq(Lines)
      /\ Len(Incoming') = Len(Incoming) + 1
      /\ Incoming'[Len(Incoming) + 1] = line
      /\ \A i \in DOMAIN Incoming' :
           i # Len(Incoming) + 1 => i \in DOMAIN Incoming /\ Incoming'[i] = Incoming[i]
  BY <1>1, <1>2, SendAppends, IncomingLines DEF IInv
<1>4. /\ ~secure /\ pc \in {"STARTTLS", "handshake", "failed"} /\ request = NoRequest
  BY <1>1 DEF IInv, Confidential
<1>5. TypeOK'
  BY <1>1, <1>3 DEF IInv, TypeOK
<1>6. Confidential'
  <2>1. OnlyGreetingsInClear'
    BY <1>1 DEF IInv, Confidential, OnlyGreetingsInClear
  <2>. QED  BY <1>1, <2>1 DEF IInv, Confidential
<1>7. InStep'
  BY SMTT(30), <1>1, <1>2, <1>3, <1>4 DEF IInv, InStep, Incoming, Awaiting, Questions
<1>8. Turns'
  <2>1. ASSUME pc \in Awaiting
        PROVE  OneReply'
    <3>1. OneReply /\ pc # "ahead"
      BY <1>4, <2>1 DEF IInv, Turns
    <3>2. ASSUME NEW i \in DOMAIN Incoming', ~Incoming'[i].more, Incoming'[i].to = pc
          PROVE  \A j \in DOMAIN Incoming' : j > i => Incoming'[j].to = "ahead"
      <4>1. i \in DOMAIN Incoming /\ ~Incoming[i].more /\ Incoming[i].to = pc
        BY <1>2, <1>3, <3>1, <3>2
      <4>2. \A j \in DOMAIN Incoming : j > i => Incoming[j].to = "ahead"
        BY <3>1, <4>1 DEF OneReply
      <4>. QED  BY <1>2, <1>3, <4>2
    <3>. QED  BY <1>1, <1>4, <3>1, <3>2 DEF OneReply
  <2>2. \A i \in DOMAIN Incoming' : Incoming'[i].to = "ahead" => Incoming'[i].code = 250
    BY <1>2, <1>3 DEF IInv, Turns
  <2>. QED  BY <1>1, <1>4, <2>1, <2>2 DEF IInv, Turns
<1>9. Listing'
  BY <1>1, <1>4 DEF IInv, Listing, MechanismListedOverTls
<1>10. Counting'
  BY <1>1, <1>4 DEF IInv, Counting
<1>11. Taking'
  <2>1. \A i \in DOMAIN Incoming' :
          Incoming'[i].to = "MESSAGE" /\ Incoming'[i].code = 250 =>
            server.taken = Recipients
    BY <1>2, <1>3 DEF IInv, Taking
  <2>. QED  BY <1>1, <2>1 DEF IInv, Taking
<1>. QED  BY <1>5, <1>6, <1>7, <1>8, <1>9, <1>10, <1>11 DEF IInv

-----------------------------------------------------------------------------
LEMMA InitialIInv ==
  ASSUME Init
  PROVE  IInv
<1>1. Incoming = <<>> /\ DOMAIN Incoming = {}
  <2>1. <<>> \in Seq(Lines)
    OBVIOUS
  <2>2. <<>> \o <<>> = <<>>
    BY <2>1, ConcatEmptySeq
  <2>. QED  BY <2>2, EmptySeq DEF Init, Incoming
<1>2. TypeOK
  <2>1. /\ buffer \in Seq(Lines) /\ Len(buffer) <= MaxInFlight
        /\ net \in Seq(Lines) /\ Len(net) <= MaxInFlight
    BY RemoteSmtpAssumption DEF Init
  <2>2. server \in Servers
    BY DEF Init, Servers, Codes
  <2>3. accepted \in 0 .. RcptCount
    BY RemoteSmtpAssumption DEF Init
  <2>. QED  BY <2>1, <2>2, <2>3 DEF Init, TypeOK, Servers
<1>3. Confidential
  BY DEF Init, Confidential, OnlyGreetingsInClear, Questions
<1>4. InStep
  BY <1>1 DEF InStep, Incoming
<1>5. Turns
  BY <1>1 DEF Init, Turns, Awaiting, Questions
<1>6. Listing
  BY <1>1 DEF Init, Listing, MechanismListedOverTls, Questions
<1>7. Counting
  BY <1>1 DEF Init, Counting, NoRequest
<1>8. Taking
  BY <1>1 DEF Init, Taking, NoRequest
<1>. QED  BY <1>2, <1>3, <1>4, <1>5, <1>6, <1>7, <1>8 DEF IInv

LEMMA StutterKeeps ==
  ASSUME IInv, UNCHANGED vars
  PROVE  IInv'
<1>1. /\ UNCHANGED <<config, secure, capabilities, accepted, pc, reply, buffer, net,
                     request, sent, server>>
  BY DEF vars, negotiated
<1>2. Incoming' = Incoming
  BY <1>1 DEF Incoming
<1>3. OneReply => OneReply'
  BY <1>1, <1>2 DEF OneReply
<1>4. Confidential'
  <2>1. OnlyGreetingsInClear'
    BY <1>1 DEF IInv, Confidential, OnlyGreetingsInClear
  <2>. QED  BY <1>1, <2>1 DEF IInv, Confidential
<1>5. TypeOK' /\ InStep'
  BY <1>1 DEF IInv, TypeOK, InStep
<1>6. Turns' /\ Listing'
  BY <1>1, <1>2, <1>3 DEF IInv, Turns, Listing, MechanismListedOverTls
<1>7. Counting' /\ Taking'
  BY <1>1, <1>2 DEF IInv, Counting, Taking
<1>. QED  BY <1>4, <1>5, <1>6, <1>7 DEF IInv

LEMMA StepKeeps ==
  ASSUME IInv, [Next]_vars
  PROVE  IInv'
<1>1. CASE Connect    BY <1>1, ConnectKeeps
<1>2. CASE Handshake  BY <1>2, HandshakeKeeps
<1>3. CASE Refill     BY <1>3, RefillKeeps
<1>4. CASE Continue   BY <1>4, ContinueKeeps
<1>5. CASE Greeting   BY <1>5, GreetingKeeps
<1>6. CASE Ehlo       BY <1>6, EhloKeeps
<1>7. CASE Starttls   BY <1>7, StarttlsKeeps
<1>8. CASE Auth       BY <1>8, AuthKeeps
<1>9. CASE Credentials  BY <1>9, CredentialsKeeps
<1>10. CASE Mail      BY <1>10, MailKeeps
<1>11. CASE Rcpt      BY <1>11, RcptKeeps
<1>12. CASE Data      BY <1>12, DataKeeps
<1>13. CASE Message   BY <1>13, MessageKeeps
<1>14. CASE Quit      BY <1>14, QuitKeeps
<1>15. CASE Rejected  BY <1>15, RejectedKeeps
<1>16. CASE GiveUp    BY <1>16, GiveUpKeeps
<1>17. CASE Serve     BY <1>17, ServeKeeps
<1>18. CASE SendLine  BY <1>18, SendLineKeeps
<1>19. CASE SendAhead  BY <1>19, SendAheadKeeps
<1>20. CASE UNCHANGED vars  BY <1>20, StutterKeeps
<1>. QED
  BY <1>1, <1>2, <1>3, <1>4, <1>5, <1>6, <1>7, <1>8, <1>9, <1>10, <1>11, <1>12,
     <1>13, <1>14, <1>15, <1>16, <1>17, <1>18, <1>19, <1>20
  DEF Next, Client, Server

(***************************************************************************)
(* The inductive invariant: at most one exchange is under way, the server  *)
(* is where the client thinks it is, and it takes the message once.        *)
(***************************************************************************)
THEOREM Invariance == Spec => []IInv
<1>1. Init => IInv
  BY InitialIInv
<1>2. IInv /\ [Next]_vars => IInv'
  BY StepKeeps
<1>. QED  BY <1>1, <1>2, PTL DEF Spec

(* The variables keep their shape, for any number of recipients. *)
THEOREM TypeCorrect == Spec => []TypeOK
<1>1. IInv => TypeOK
  BY DEF IInv
<1>. QED  BY <1>1, Invariance, PTL

(* Whatever the server lists, answers or omits, send_message writes nothing  *)
(* but EHLO and STARTTLS before the connection is the one over tls_stream.   *)
THEOREM NothingConfidentialInClear == Spec => []OnlyGreetingsInClear
<1>1. IInv => OnlyGreetingsInClear
  BY DEF IInv, Confidential
<1>. QED  BY <1>1, Invariance, PTL

(* read_response never returns a line as the answer to another request than  *)
(* the last one written.                                                     *)
THEOREM AnswersMatchRequests == Spec => []InStep
<1>1. IInv => InStep
  BY DEF IInv
<1>. QED  BY <1>1, Invariance, PTL

(* require_mechanism only passes on what the server listed over TLS. *)
THEOREM MechanismsAreListed == Spec => []MechanismListedOverTls
<1>1. IInv => MechanismListedOverTls
  BY DEF IInv, Listing
<1>. QED  BY <1>1, Invariance, PTL

-----------------------------------------------------------------------------
(* The refinement of DeliveryAttempt. *)

Outcome ==
  CASE pc \in {"QUIT", "ok"} -> "ok"
    [] pc = "failed"         -> "failed"
    [] OTHER                 -> "pending"

(* A step either lets the server take the message or moves the call on. *)
LEMMA TakenOnce ==
  ASSUME IInv, Next
  PROVE  \/ server'.taken = server.taken
         \/ server.taken = {} /\ server'.taken = Recipients /\ pc' = pc
<1>0. server \in Servers
  BY DEF IInv, TypeOK, Servers
<1>1. CASE UNCHANGED server
  BY <1>1
<1>2. CASE Connect \/ Handshake
  <2>1. CASE server' = [server EXCEPT !.tls = TRUE]
    BY <1>0, <2>1 DEF Servers
  <2>2. ASSUME NEW tls \in BOOLEAN, NEW code \in {220, 550},
               server' = Greeted(server, tls, code)
        PROVE  server'.taken = server.taken
    BY <1>0, <2>2, GreetedServer
  <2>3. CASE \E code \in {220, 550} :
               server' = [server EXCEPT !.tls = TRUE, !.to = "greeting", !.code = code]
    <3>1. PICK tls \in BOOLEAN : tls = TRUE
      OBVIOUS
    <3>2. PICK code \in {220, 550} : server' = Greeted(server, tls, code)
      BY ZenonT(60), <2>3, <3>1 DEF Greeted
    <3>. QED  BY <2>2, <3>2
  <2>4. CASE \E code \in {220, 550} :
               server' = [server EXCEPT !.to = "greeting", !.code = code]
    <3>1. PICK code \in {220, 550} : server' = [server EXCEPT !.to = "greeting", !.code = code]
      BY <2>4
    <3>2. server.tls \in BOOLEAN /\ server' = Greeted(server, server.tls, code)
      BY <1>0, <3>1 DEF Servers, Greeted
    <3>. QED  BY <2>2, <3>2
  <2>. QED  BY <1>2, <2>1, <2>3, <2>4 DEF Connect, Handshake
<1>3. CASE Serve
  <2> DEFINE what == request.what
             recipient == request.recipient
  <2>1. request # NoRequest /\ pc' = pc
    BY <1>3 DEF Serve
  <2>2. /\ what \in Questions /\ recipient \in 0 .. RcptCount
        /\ what = "RCPT" => recipient \in Recipients
        /\ what = "MESSAGE" => server.taken = {} /\ server.rcpt = Recipients
    BY <2>1 DEF IInv, TypeOK, Counting, Taking
  <2>3. PICK code \in Codes : server' = Decides(what, recipient, code)
    BY <1>3 DEF Serve, ServerCodes, Codes
  <2> HIDE DEF what, recipient
  <2>4. server'.taken # server.taken =>
          what = "MESSAGE" /\ server'.taken = server.taken \cup server.rcpt
    BY <1>0, <2>2, <2>3, Decision DEF ServedAs
  <2>. QED  BY <2>1, <2>2, <2>4
<1>4. CASE SendLine
  <2>1. PICK more \in BOOLEAN, text \in Texts :
          server' = [server EXCEPT !.to = IF more THEN @ ELSE "none",
                                   !.listed = IF server.tls THEN @ \cup {text} ELSE @]
    BY <1>4 DEF SendLine, Texts
  <2>. QED  BY <1>0, <2>1 DEF Servers
<1>. QED
  BY <1>1, <1>2, <1>3, <1>4
  DEF Next, Client, Server, Refill, Continue, Greeting, Ehlo, Starttls, Auth, Credentials,
      Mail, Rcpt, Data, Message, Quit, Rejected, GiveUp, SendAhead

(* Once the message is confirmed the call returns Ok, and an error is final. *)
LEMMA OutcomeStands ==
  ASSUME IInv, Next
  PROVE  /\ pc \in {"QUIT", "ok"} => pc' \in {"QUIT", "ok"}
         /\ pc = "failed" => pc' = "failed"
<1>1. CASE Server
  BY <1>1 DEF Server, Serve, SendLine, SendAhead
<1>2. CASE Quit \/ Rejected \/ GiveUp \/ Refill \/ Continue
  BY <1>2 DEF Quit, Rejected, GiveUp, Refill, Continue, Result, Answered, ReadsReply,
              ReadsLine, Awaiting, Questions
<1>3. CASE \/ Connect \/ Handshake \/ Greeting \/ Ehlo \/ Starttls \/ Auth
           \/ Credentials \/ Mail \/ Rcpt \/ Data \/ Message
  BY <1>3 DEF Connect, Handshake, Greeting, Ehlo, Starttls, Auth, Credentials, Mail, Rcpt,
              Data, Message, Answered
<1>. QED  BY <1>1, <1>2, <1>3 DEF Next, Client

(***************************************************************************)
(* A call is a delivery attempt: the server takes the message at most      *)
(* once and for all recipients, and send_message returns Ok, whatever      *)
(* becomes of QUIT, if and only if a 250 to it was read, which comes       *)
(* after that.                                                             *)
(***************************************************************************)
THEOREM ImplementsAttempt == Spec => IsAttempt
<1>1. Init => Attempt!Init
  BY DEF Init, Attempt!Init
<1>2. IInv /\ IInv' /\ [Next]_vars => [Attempt!Next]_<<server.taken, Outcome>>
  <2> SUFFICES ASSUME IInv, IInv', [Next]_vars
               PROVE  Attempt!Next \/ UNCHANGED <<server.taken, Outcome>>
    OBVIOUS
  <2>1. CASE UNCHANGED vars
    BY <2>1 DEF vars, Outcome
  <2>2. CASE Next
    <3>1. CASE server'.taken # server.taken
      <4>1. server.taken = {} /\ server'.taken = Recipients /\ pc' = pc
        BY <2>2, <3>1, TakenOnce
      <4>. QED  BY <4>1 DEF Attempt!Next, Attempt!Take, Recipients
    <3>2. CASE server'.taken = server.taken /\ Outcome' # Outcome
      <4>1. Outcome = "pending"
        BY <2>2, <3>2, OutcomeStands DEF Outcome
      <4>2. CASE Outcome' = "ok"
        <5>1. pc' \in {"QUIT", "ok"} /\ server'.taken = Recipients
          BY <4>2 DEF Outcome, IInv, Taking
        <5>. QED  BY <3>2, <4>1, <4>2, <5>1 DEF Attempt!Next, Attempt!Confirm, Outcome
      <4>3. CASE Outcome' = "failed"
        BY <3>2, <4>1, <4>3 DEF Attempt!Next, Attempt!Fail, Outcome
      <4>. QED  BY <3>2, <4>1, <4>2, <4>3 DEF Outcome
    <3>. QED  BY <3>1, <3>2
  <2>. QED  BY <2>1, <2>2
<1>. QED  BY <1>1, <1>2, Invariance, PTL DEF Spec, IsAttempt, Attempt!Spec, Outcome
=============================================================================

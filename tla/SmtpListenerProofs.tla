--------------------------- MODULE SmtpListenerProofs ---------------------------
(***************************************************************************)
(* Proofs about SmtpListener, for every set of connections, addresses and  *)
(* exceptions and every bound: its properties, and that it implements      *)
(* RelayPromise.                                                           *)
(***************************************************************************)
EXTENDS SmtpListener, SequenceTheorems, TLAPS

-----------------------------------------------------------------------------
(* Lemmas about the deliveries of a message. *)

(* The two parts of the envelope are disjoint and leave nobody out. *)
LEMMA PartsPartition ==
  ASSUME NEW rcpt_to
  PROVE  /\ EncryptedPart(rcpt_to) \cup UnencryptedPart(rcpt_to) = DOMAIN rcpt_to
         /\ EncryptedPart(rcpt_to) \cap UnencryptedPart(rcpt_to) = {}
BY DEF EncryptedPart, UnencryptedPart

(* The planned kinds are one or both kinds, encrypted first. *)
LEMMA PlanKindsShape ==
  ASSUME NEW rcpt_to
  PROVE  /\ PlanKinds(rcpt_to) \in Seq({"Encrypted", "Unencrypted"})
         /\ Len(PlanKinds(rcpt_to)) \in {1, 2}
         /\ DOMAIN PlanKinds(rcpt_to) = 1 .. Len(PlanKinds(rcpt_to))
         /\ PlanKinds(rcpt_to)[1] = "Unencrypted" =>
              EncryptedPart(rcpt_to) = {} /\ Len(PlanKinds(rcpt_to)) = 1
         /\ PlanKinds(rcpt_to)[1] \in {"Encrypted", "Unencrypted"}
         /\ PlanKinds(rcpt_to)[1] = "Encrypted" /\ rcpt_to # <<>> /\ rcpt_to \in Seq(Address)
              => EncryptedPart(rcpt_to) # {}
         /\ Len(PlanKinds(rcpt_to)) = 1 /\ PlanKinds(rcpt_to)[1] = "Encrypted"
              => UnencryptedPart(rcpt_to) = {}
         /\ Len(PlanKinds(rcpt_to)) = 2 =>
              /\ PlanKinds(rcpt_to)[1] = "Encrypted"
              /\ PlanKinds(rcpt_to)[2] = "Unencrypted"
              /\ EncryptedPart(rcpt_to) # {}
              /\ UnencryptedPart(rcpt_to) # {}
<1>1. CASE UnencryptedPart(rcpt_to) = {}
  <2>1. PlanKinds(rcpt_to) = <<"Encrypted">>
    BY <1>1 DEF PlanKinds
  <2>2. rcpt_to # <<>> /\ rcpt_to \in Seq(Address) => EncryptedPart(rcpt_to) # {}
    <3>1. rcpt_to # <<>> /\ rcpt_to \in Seq(Address) => 1 \in DOMAIN rcpt_to
      BY EmptySeq, LenProperties
    <3>. QED  BY <1>1, <3>1, PartsPartition
  <2>. QED  BY <2>1, <2>2, <1>1
<1>2. CASE UnencryptedPart(rcpt_to) # {} /\ EncryptedPart(rcpt_to) = {}
  <2>1. PlanKinds(rcpt_to) = <<"Unencrypted">>
    BY <1>2 DEF PlanKinds
  <2>. QED  BY <2>1, <1>2
<1>3. CASE UnencryptedPart(rcpt_to) # {} /\ EncryptedPart(rcpt_to) # {}
  <2>1. PlanKinds(rcpt_to) = <<"Encrypted", "Unencrypted">>
    BY <1>3 DEF PlanKinds
  <2>. QED  BY <2>1, <1>3
<1>. QED  BY <1>1, <1>2, <1>3

(* A prepared delivery is one. *)
LEMMA PreparedDeliveryType ==
  ASSUME NEW kind \in {"Encrypted", "Unencrypted"}, NEW mail_from \in Sender,
         NEW rcpt_to \in Recipients, NEW headers \in Headers
  PROVE  PreparedDelivery(kind, mail_from, rcpt_to, headers) \in Delivery
<1> DEFINE part == IF kind = "Encrypted" THEN EncryptedPart(rcpt_to)
                                        ELSE UnencryptedPart(rcpt_to)
           group == RecipientGroup(rcpt_to, part)
           readers == IF kind = "Encrypted"
                        THEN EncryptionRecipients(headers, rcpt_to) ELSE {}
<1>1. DOMAIN rcpt_to = 1 .. Len(rcpt_to) /\ Len(rcpt_to) \in 0 .. MaxRcpt
  BY SmtpListenerAssumption DEF Recipients
<1>2. part \in SUBSET (1 .. MaxRcpt) /\ part \subseteq DOMAIN rcpt_to
  BY <1>1, SmtpListenerAssumption DEF EncryptedPart, UnencryptedPart
<1>3. group \in [part -> Address]
  BY <1>1, <1>2 DEF RecipientGroup, Recipients
<1>4. group \in Groups
  BY <1>2, <1>3 DEF Groups
<1>5. headers \subseteq Name \ {NoName}
  BY SmtpListenerAssumption
<1>6. \A p \in SUBSET DOMAIN rcpt_to :
        NormalizedRecipients(RecipientGroup(rcpt_to, p)) \subseteq Name \ {NoName}
  BY <1>1, DeliveryPlanAssumption DEF NormalizedRecipients, RecipientGroup, Recipients
<1>7. readers \subseteq Name \ {NoName}
  BY <1>5, <1>6, PartsPartition DEF EncryptionRecipients
<1>8. PreparedDelivery(kind, mail_from, rcpt_to, headers) =
        [kind |-> kind, mail_from |-> mail_from, rcpt_to |-> group, readers |-> readers]
  BY DEF PreparedDelivery
<1>. QED  BY <1>4, <1>7, <1>8 DEF Delivery

-----------------------------------------------------------------------------
(***************************************************************************)
(* The inductive invariant.  Sound says of a submitted message how far its *)
(* deliveries can have come; Standing ties what a session has in hand to   *)
(* the message it is working on.                                           *)
(***************************************************************************)
Plannable(message) ==
  /\ ~Refused(message.rcpt_to)
  /\ EncryptedPart(message.rcpt_to) # {} =>
       EncryptionRecipients(message.header_recipients, message.rcpt_to) # {}

Planned(message, n) ==
  PreparedDelivery(PlanKinds(message.rcpt_to)[n], message.mail_from,
                   message.rcpt_to, message.header_recipients)

Sound(message) ==
  /\ message.rcpt_to # <<>>
  /\ Len(message.offered) <= Len(PlanKinds(message.rcpt_to))
  /\ \A n \in 1 .. Len(message.offered) : message.offered[n] = Planned(message, n)
  /\ message.offered # <<>> => Plannable(message)
  /\ message.took \in {Len(message.offered), Len(message.offered) - 1}
  /\ message.reply = 250 =>
       /\ Len(message.offered) = Len(PlanKinds(message.rcpt_to))
       /\ message.took = Len(message.offered)

Standing(c) ==
  /\ state[c].mail_from = wire[c].mail_from
  /\ state[c].rcpt_to = wire[c].rcpt_to
  /\ pc[c] # "closed" => state[c].authenticated = wire[c].authenticated
  /\ pc[c] = "unconnected" => state[c] = InitialState
  /\ pc[c] \in {"unconnected", "accepted"} => ledger[c] = <<>>
  /\ pc[c] \in {"command", "auth", "data", "prepare", "relay"} => c \in AllowedPeers
  /\ state[c].mail_from # NoSender => state[c].authenticated
  /\ ledger[c] # <<>> => c \in AllowedPeers /\ wire[c].authenticated
  /\ pc[c] \in {"data", "prepare", "relay"} =>
       state[c].mail_from # NoSender /\ state[c].rcpt_to # <<>>
  /\ pc[c] \in {"prepare", "relay"} =>
       /\ ledger[c] # <<>>
       /\ Submission(c).mail_from = state[c].mail_from
       /\ Submission(c).rcpt_to = state[c].rcpt_to
       /\ Submission(c).reply = 0
  /\ pc[c] = "prepare" => Submission(c).offered = <<>>
  /\ pc[c] = "relay" =>
       /\ Plannable(Submission(c))
       /\ deliveries[c] = Deliveries(Submission(c).mail_from, Submission(c).rcpt_to,
                                     Submission(c).header_recipients)
       /\ Len(Submission(c).offered) = completed_deliveries[c] + 1

SoundLedger(c) == \A m \in DOMAIN ledger[c] : Sound(ledger[c][m])

IInv == TypeOK /\ \A c \in Conn : Standing(c) /\ SoundLedger(c)

-----------------------------------------------------------------------------
(* Steps that leave the ledger alone. *)

SessionStates ==
  [helo : BOOLEAN, authenticated : BOOLEAN,
   mail_from : Sender \cup {NoSender}, rcpt_to : Recipients]

Wires ==
  [authenticated : BOOLEAN, mail_from : Sender \cup {NoSender}, rcpt_to : Recipients]

(* No RCPT yet is a sequence of recipients. *)
LEMMA EmptyRecipients == <<>> \in Recipients
BY EmptySeq, SmtpListenerAssumption DEF Recipients

(* What is true of every session but c stays true when only c's part changes. *)
LEMMA OthersStand ==
  ASSUME NEW c \in Conn, NEW d \in Conn, c # d,
         Standing(d), SoundLedger(d),
         pc'[d] = pc[d], state'[d] = state[d], wire'[d] = wire[d],
         deliveries'[d] = deliveries[d],
         completed_deliveries'[d] = completed_deliveries[d], ledger'[d] = ledger[d]
  PROVE  Standing(d)' /\ SoundLedger(d)'
BY DEF Standing, SoundLedger, Submission

(* Ending a session, with whatever was under way in it. *)
LEMMA EndSessionKeeps ==
  ASSUME IInv, NEW c \in Conn, pc[c] # "unconnected",
         pc[c] # "accepted" \/ ledger[c] = <<>>,
         EndSession(c), UNCHANGED <<listener, ledger>>
  PROVE  IInv'
<1>. USE DEF EndSession, Discard, NoTransaction
<1>1. InitialState \in SessionStates
  BY EmptyRecipients DEF InitialState, SessionStates
<1>2. wire[c] \in Wires /\ NoTransaction(wire[c]) \in Wires
  BY EmptyRecipients DEF IInv, TypeOK, Wires
<1>3. TypeOK'
  BY <1>1, <1>2, EmptySeq DEF IInv, TypeOK, SessionStates, Wires
<1>4. ASSUME NEW d \in Conn PROVE Standing(d)' /\ SoundLedger(d)'
  <2>1. CASE d = c
    <3>1. /\ pc'[d] = "closed" /\ state'[d] = InitialState
          /\ wire'[d] = NoTransaction(wire[d]) /\ ledger'[d] = ledger[d]
      BY <2>1 DEF IInv, TypeOK
    <3>2. Standing(d) /\ SoundLedger(d)
      BY DEF IInv
    <3>3. /\ wire'[d].mail_from = NoSender /\ wire'[d].rcpt_to = <<>>
          /\ wire'[d].authenticated = wire[d].authenticated
      BY <3>1, <1>2, <2>1 DEF Wires
    <3>4. state'[d].mail_from = NoSender /\ state'[d].rcpt_to = <<>>
      BY <3>1 DEF InitialState
    <3>5. Standing(d)'
      BY <3>1, <3>2, <3>3, <3>4 DEF Standing
    <3>. QED  BY <3>1, <3>2, <3>5 DEF SoundLedger
  <2>2. CASE d # c
    BY <2>2, OthersStand DEF IInv, TypeOK
  <2>. QED  BY <2>1, <2>2
<1>. QED  BY <1>3, <1>4 DEF IInv

(***************************************************************************)
(* A handler that ends in a written reply, if what it left in the session  *)
(* agrees with what the client makes of the reply.                         *)
(***************************************************************************)
LEMMA RespondKeeps ==
  ASSUME IInv, NEW c \in Conn, NEW s \in SessionStates,
         NEW command, NEW argument, NEW code,
         pc[c] # "unconnected", c \in AllowedPeers,
         pc[c] # "accepted" \/ ledger[c] = <<>>,
         Exchange(wire[c], command, argument, code) =
           [authenticated |-> s.authenticated, mail_from |-> s.mail_from,
            rcpt_to |-> s.rcpt_to],
         s.mail_from # NoSender => s.authenticated,
         wire[c].authenticated => s.authenticated,
         Respond(c, s, command, argument, code), UNCHANGED <<listener, ledger>>
  PROVE  IInv'
<1> DEFINE w == [authenticated |-> s.authenticated, mail_from |-> s.mail_from,
                 rcpt_to |-> s.rcpt_to]
<1>1. CASE EndSession(c)
  BY <1>1, EndSessionKeeps
<1>2. CASE Written(c, s, command, argument, code)
  <2>. USE DEF Written, Discard
  <2>1. w \in Wires
    BY DEF SessionStates, Wires
  <2>2. wire' = [wire EXCEPT ![c] = w]
    BY <1>2
  <2>3. TypeOK'
    BY <1>2, <2>1, <2>2, EmptySeq DEF IInv, TypeOK, SessionStates, Wires
  <2>4. ASSUME NEW d \in Conn PROVE Standing(d)' /\ SoundLedger(d)'
    <3>1. CASE d = c
      <4>1. /\ pc'[d] = "command" /\ state'[d] = s
            /\ wire'[d] = w /\ ledger'[d] = ledger[d]
        BY <1>2, <2>2, <3>1 DEF IInv, TypeOK
      <4>2. Standing(d) /\ SoundLedger(d)
        BY DEF IInv
      <4>3. Standing(d)'
        BY <4>1, <4>2, <3>1 DEF Standing, InitialState
      <4>. QED  BY <4>1, <4>2, <4>3 DEF SoundLedger
    <3>2. CASE d # c
      BY <1>2, <3>2, OthersStand DEF IInv, TypeOK
    <3>. QED  BY <3>1, <3>2
  <2>. QED  BY <2>3, <2>4 DEF IInv
<1>. QED  BY <1>1, <1>2 DEF Respond

(* A reply that changes nothing. *)
LEMMA RefuseKeeps ==
  ASSUME IInv, NEW c \in Conn, NEW command, NEW code,
         pc[c] \in {"accepted", "command", "auth"}, c \in AllowedPeers,
         command \notin {"HELO", "RSET", "."},
         <<command, code>> \notin {<<"AUTH", 235>>, <<"MAIL", 250>>, <<"RCPT", 250>>},
         Refuse(c, command, code), UNCHANGED <<listener, ledger>>
  PROVE  IInv'
<1>1. state[c] \in SessionStates /\ wire[c] \in Wires /\ Standing(c)
  BY DEF IInv, TypeOK, SessionStates, Wires
<1>2. Exchange(wire[c], command, NoSender, code) = wire[c]
  BY DEF Exchange
<1>3. wire[c] = [authenticated |-> state[c].authenticated,
                 mail_from |-> state[c].mail_from, rcpt_to |-> state[c].rcpt_to]
  BY <1>1 DEF Standing, Wires, SessionStates
<1>4. Respond(c, state[c], command, NoSender, code)
  BY DEF Refuse
<1>5. /\ wire[c].authenticated => state[c].authenticated
      /\ state[c].mail_from # NoSender => state[c].authenticated
      /\ pc[c] # "accepted" \/ ledger[c] = <<>>
      /\ pc[c] # "unconnected"
  BY <1>1 DEF Standing
<1>6. Exchange(wire[c], command, NoSender, code) =
        [authenticated |-> state[c].authenticated,
         mail_from |-> state[c].mail_from, rcpt_to |-> state[c].rcpt_to]
  BY <1>2, <1>3
<1>. QED  BY <1>1, <1>4, <1>5, <1>6, RespondKeeps

(* A handler that only moves on to read something else. *)
LEMMA MoveKeeps ==
  ASSUME IInv, NEW c \in Conn, NEW here, NEW there,
         pc[c] = here, pc' = [pc EXCEPT ![c] = there],
         \/ here = "unconnected" /\ there = "accepted"
         \/ here = "auth" /\ there = "command"
         \/ here = "command" /\ there = "auth"
         \/ /\ here = "command" /\ there = "data"
            /\ state[c].mail_from # NoSender /\ state[c].rcpt_to # <<>>,
         listener' \in {"accepting", "interrupted", "stopped"},
         UNCHANGED <<state, relaying, wire, ledger>>
  PROVE  IInv'
<1>1. TypeOK'
  BY DEF IInv, TypeOK, relaying
<1>2. ASSUME NEW d \in Conn PROVE Standing(d)' /\ SoundLedger(d)'
  <2>1. Standing(d) /\ SoundLedger(d)
    BY DEF IInv
  <2>2. CASE d = c
    <3>1. /\ pc'[d] = there /\ state'[d] = state[d] /\ wire'[d] = wire[d]
          /\ ledger'[d] = ledger[d]
      BY <2>2 DEF IInv, TypeOK
    <3>2. Standing(d)'
      BY <2>1, <2>2, <3>1 DEF Standing
    <3>. QED  BY <2>1, <3>1, <3>2 DEF SoundLedger
  <2>3. CASE d # c
    BY <2>3, <2>1, OthersStand DEF IInv, TypeOK, relaying
  <2>. QED  BY <2>2, <2>3
<1>. QED  BY <1>1, <1>2 DEF IInv

(* The actions of a session up to the end of DATA's lines. *)
LEMMA DialogueKeeps ==
  ASSUME IInv, NEW c \in Conn,
         \/ Greet(c) \/ Hello(c) \/ Auth(c) \/ AuthResponse(c) \/ Mail(c) \/ Rcpt(c)
         \/ Rset(c) \/ NoopOrUnknown(c) \/ Quit(c) \/ Data(c) \/ ReadEnds(c)
         \/ Cancel(c) \/ Accept(c)
  PROVE  IInv'
<1> DEFINE s == state[c]
           w == wire[c]
<1>1. s \in SessionStates /\ w \in Wires /\ Standing(c)
  BY DEF IInv, TypeOK, SessionStates, Wires
<1>2. /\ s.mail_from = w.mail_from /\ s.rcpt_to = w.rcpt_to
      /\ pc[c] # "closed" => s.authenticated = w.authenticated
      /\ s.mail_from # NoSender => s.authenticated
      /\ pc[c] \in {"command", "auth"} => c \in AllowedPeers
      /\ pc[c] = "accepted" => ledger[c] = <<>>
  BY <1>1 DEF Standing
<1>3. CASE Greet(c)
  BY <1>3, <1>2, EndSessionKeeps, RefuseKeeps DEF Greet
<1>4. CASE Hello(c)
  <2> DEFINE t == ResetTransaction([s EXCEPT !.helo = TRUE])
  <2>1. t \in SessionStates
    BY <1>1, EmptyRecipients DEF ResetTransaction, SessionStates
  <2>2. t.mail_from = NoSender /\ t.rcpt_to = <<>> /\ t.authenticated = s.authenticated
    BY <1>1 DEF ResetTransaction, SessionStates
  <2>3. Exchange(w, "HELO", NoSender, 250) =
          [authenticated |-> t.authenticated, mail_from |-> t.mail_from,
           rcpt_to |-> t.rcpt_to]
    BY <1>1, <1>2, <1>4, <2>2 DEF Exchange, NoTransaction, Wires, Hello, AtCommand
  <2>4. /\ Respond(c, t, "HELO", NoSender, 250) /\ pc[c] = "command"
        /\ UNCHANGED <<listener, ledger>>
    BY <1>4 DEF Hello, AtCommand
  <2>. HIDE DEF t
  <2>. QED  BY <1>2, <2>1, <2>2, <2>3, <2>4, RespondKeeps
<1>5. ASSUME CheckCredentials(c), pc[c] \in {"command", "auth"},
             UNCHANGED <<listener, ledger>>
      PROVE  IInv'
  <2> DEFINE t == [s EXCEPT !.authenticated = TRUE]
  <2>1. t \in SessionStates
    BY <1>1 DEF SessionStates
  <2>2. t.mail_from = s.mail_from /\ t.rcpt_to = s.rcpt_to /\ t.authenticated = TRUE
    BY <1>1 DEF SessionStates
  <2>3. Exchange(w, "AUTH", NoSender, 235) =
          [authenticated |-> t.authenticated, mail_from |-> t.mail_from,
           rcpt_to |-> t.rcpt_to]
    BY <1>1, <1>2, <2>2 DEF Exchange, Wires
  <2>4. CASE Respond(c, t, "AUTH", NoSender, 235)
    BY ZenonT(60), <1>2, <1>5, <2>1, <2>2, <2>3, <2>4, RespondKeeps
  <2>5. CASE Refuse(c, "AUTH", 535)
    BY <1>2, <1>5, <2>5, RefuseKeeps
  <2>. QED  BY <1>5, <2>4, <2>5 DEF CheckCredentials
<1>6. CASE Auth(c)
  <2>. USE <1>6 DEF Auth, AtCommand
  <2>1. CASE Refuse(c, "AUTH", 503) \/ Refuse(c, "AUTH", 504)
    BY <1>2, <2>1, RefuseKeeps
  <2>2. CASE CheckCredentials(c)
    BY <1>5, <2>2
  <2>3. CASE pc' = [pc EXCEPT ![c] = "auth"] /\ UNCHANGED <<state, wire, relaying>>
    BY <2>3, MoveKeeps DEF IInv, TypeOK
  <2>4. CASE EndSession(c)
    BY <2>4, EndSessionKeeps
  <2>. QED  BY <2>1, <2>2, <2>3, <2>4
<1>7. CASE AuthResponse(c)
  BY <1>5, <1>7 DEF AuthResponse
<1>8. CASE Mail(c)
  <2>0. pc[c] = "command" /\ UNCHANGED <<listener, ledger>>
    BY <1>8 DEF Mail, AtCommand
  <2>1. CASE \E code \in {501, 503, 530} : Refuse(c, "MAIL", code)
    BY <1>2, <2>0, <2>1, RefuseKeeps
  <2>2. ASSUME NEW sender \in Sender, s.authenticated,
               Respond(c, [ResetTransaction(s) EXCEPT !.mail_from = sender],
                       "MAIL", sender, 250)
        PROVE  IInv'
    <3> DEFINE t == [ResetTransaction(s) EXCEPT !.mail_from = sender]
    <3>1. t \in SessionStates
      BY <1>1, EmptyRecipients DEF ResetTransaction, SessionStates
    <3>2. t.mail_from = sender /\ t.rcpt_to = <<>> /\ t.authenticated = s.authenticated
      BY <1>1 DEF ResetTransaction, SessionStates
    <3>3. Exchange(w, "MAIL", sender, 250) =
            [authenticated |-> t.authenticated, mail_from |-> t.mail_from,
             rcpt_to |-> t.rcpt_to]
      BY <1>1, <1>2, <2>0, <3>2 DEF Exchange, Wires
    <3>4. /\ Respond(c, t, "MAIL", sender, 250) /\ pc[c] = "command"
          /\ UNCHANGED <<listener, ledger>>
      BY <2>0, <2>2
    <3>5. /\ t.mail_from # NoSender => t.authenticated
          /\ wire[c].authenticated => t.authenticated
          /\ pc[c] # "unconnected" /\ pc[c] # "accepted" /\ c \in AllowedPeers
      BY <1>2, <2>0, <2>2, <3>2
    <3>. HIDE DEF t
    <3>. QED  BY <3>1, <3>3, <3>4, <3>5, RespondKeeps
  <2>3. CASE /\ s.authenticated
             /\ \E sender \in Sender :
                  Respond(c, [ResetTransaction(s) EXCEPT !.mail_from = sender],
                          "MAIL", sender, 250)
    BY <2>2, <2>3
  <2>4. CASE Refuse(c, "MAIL", 501) \/ Refuse(c, "MAIL", 503) \/ Refuse(c, "MAIL", 530)
    BY <2>1, <2>4
  <2>. QED  BY <1>8, <2>3, <2>4, ZenonT(60) DEF Mail
<1>9. CASE Rcpt(c)
  <2>0. pc[c] = "command" /\ UNCHANGED <<listener, ledger>>
    BY <1>9 DEF Rcpt, AtCommand
  <2>1. CASE \E code \in {501, 503} : Refuse(c, "RCPT", code)
    BY <1>2, <2>0, <2>1, RefuseKeeps
  <2>2. ASSUME NEW recipient \in Address, Len(s.rcpt_to) < MaxRcpt,
               Respond(c, [s EXCEPT !.rcpt_to = Append(@, recipient)],
                       "RCPT", recipient, 250)
        PROVE  IInv'
    <3> DEFINE t == [s EXCEPT !.rcpt_to = Append(@, recipient)]
    <3>1. Append(s.rcpt_to, recipient) \in Recipients
      BY <1>1, <2>2, SmtpListenerAssumption DEF SessionStates, Recipients
    <3>2. t \in SessionStates
      BY <1>1, <3>1 DEF SessionStates
    <3>3. /\ t.mail_from = s.mail_from /\ t.rcpt_to = Append(s.rcpt_to, recipient)
          /\ t.authenticated = s.authenticated
      BY <1>1 DEF SessionStates
    <3>4. Exchange(w, "RCPT", recipient, 250) =
            [authenticated |-> t.authenticated, mail_from |-> t.mail_from,
             rcpt_to |-> t.rcpt_to]
      BY <1>1, <1>2, <2>0, <3>3 DEF Exchange, Wires
    <3>5. /\ Respond(c, t, "RCPT", recipient, 250) /\ pc[c] = "command"
          /\ UNCHANGED <<listener, ledger>>
      BY <2>0, <2>2
    <3>6. /\ t.mail_from # NoSender => t.authenticated
          /\ wire[c].authenticated => t.authenticated
          /\ pc[c] # "unconnected" /\ pc[c] # "accepted" /\ c \in AllowedPeers
      BY <1>2, <2>0, <3>3
    <3>. HIDE DEF t
    <3>. QED  BY <3>2, <3>4, <3>5, <3>6, RespondKeeps
  <2>3. CASE /\ Len(s.rcpt_to) < MaxRcpt
             /\ \E recipient \in Address :
                  Respond(c, [s EXCEPT !.rcpt_to = Append(@, recipient)],
                          "RCPT", recipient, 250)
    BY <2>2, <2>3
  <2>4. CASE Refuse(c, "RCPT", 501) \/ Refuse(c, "RCPT", 503)
    BY <2>1, <2>4
  <2>. QED  BY <1>9, <2>3, <2>4, Zenon DEF Rcpt
<1>10. CASE Rset(c)
  <2> DEFINE t == ResetTransaction(s)
  <2>1. t \in SessionStates
    BY <1>1, EmptyRecipients DEF ResetTransaction, SessionStates
  <2>2. t.mail_from = NoSender /\ t.rcpt_to = <<>> /\ t.authenticated = s.authenticated
    BY <1>1 DEF ResetTransaction, SessionStates
  <2>3. Exchange(w, "RSET", NoSender, 250) =
          [authenticated |-> t.authenticated, mail_from |-> t.mail_from,
           rcpt_to |-> t.rcpt_to]
    BY <1>1, <1>2, <1>10, <2>2 DEF Exchange, NoTransaction, Wires, Rset, AtCommand
  <2>4. /\ Respond(c, t, "RSET", NoSender, 250) /\ pc[c] = "command"
        /\ UNCHANGED <<listener, ledger>>
    BY <1>10 DEF Rset, AtCommand
  <2>. QED  BY <1>2, <2>1, <2>2, <2>3, <2>4, RespondKeeps
<1>11. CASE NoopOrUnknown(c)
  BY <1>2, <1>11, RefuseKeeps DEF NoopOrUnknown, AtCommand
<1>12. CASE Quit(c)
  BY <1>12, EndSessionKeeps DEF Quit, AtCommand
<1>13. CASE Data(c)
  <2>. USE <1>13 DEF Data, AtCommand
  <2>1. CASE Refuse(c, "DATA", 503)
    BY <1>2, <2>1, RefuseKeeps
  <2>2. CASE /\ state[c].mail_from # NoSender /\ state[c].rcpt_to # <<>>
             /\ pc' = [pc EXCEPT ![c] = "data"] /\ UNCHANGED <<state, wire, relaying>>
    BY <2>2, MoveKeeps DEF IInv, TypeOK
  <2>3. CASE EndSession(c)
    BY <2>3, EndSessionKeeps
  <2>. QED  BY <2>1, <2>2, <2>3
<1>14. CASE ReadEnds(c)
  <2>. USE <1>14 DEF ReadEnds
  <2>1. CASE EndSession(c)
    BY <2>1, EndSessionKeeps
  <2>2. CASE /\ pc[c] = "auth" /\ pc' = [pc EXCEPT ![c] = "command"]
             /\ UNCHANGED <<state, wire, relaying>>
    BY <2>2, MoveKeeps DEF IInv, TypeOK
  <2>. QED  BY <2>1, <2>2
<1>15. CASE Cancel(c)
  BY <1>2, <1>15, EndSessionKeeps DEF Cancel
<1>16. CASE Accept(c)
  BY <1>16, MoveKeeps DEF Accept
<1>. QED  BY <1>3, <1>4, <1>6, <1>7, <1>8, <1>9, <1>10, <1>11, <1>12, <1>13, <1>14,
             <1>15, <1>16

-----------------------------------------------------------------------------
(* Steps that write to the ledger. *)

(* The deliveries of a message: one for each planned kind. *)
LEMMA DeliveriesShape ==
  ASSUME NEW mail_from \in Sender, NEW rcpt_to \in Recipients, NEW headers \in Headers
  PROVE  LET all == Deliveries(mail_from, rcpt_to, headers)
         IN  /\ all \in Seq(Delivery)
             /\ Len(all) = Len(PlanKinds(rcpt_to))
             /\ \A n \in 1 .. Len(all) :
                  all[n] = PreparedDelivery(PlanKinds(rcpt_to)[n], mail_from, rcpt_to, headers)
<1> DEFINE all == Deliveries(mail_from, rcpt_to, headers)
           kinds == PlanKinds(rcpt_to)
           one(n) == PreparedDelivery(kinds[n], mail_from, rcpt_to, headers)
<1>1. /\ kinds \in Seq({"Encrypted", "Unencrypted"}) /\ Len(kinds) \in Nat
      /\ DOMAIN kinds = 1 .. Len(kinds)
  BY PlanKindsShape
<1>2. all = [n \in 1 .. Len(kinds) |-> one(n)]
  BY <1>1 DEF Deliveries
<1>3. \A n \in 1 .. Len(kinds) : one(n) \in Delivery
  BY <1>1, PreparedDeliveryType
<1>. HIDE DEF all, one
<1>4. all \in [1 .. Len(kinds) -> Delivery]
  BY <1>2, <1>3
<1>5. all \in Seq(Delivery) /\ Len(all) = Len(kinds)
  BY <1>1, <1>4, SeqDef, LenProperties
<1>6. \A n \in 1 .. Len(all) : all[n] = one(n)
  BY <1>2, <1>5
<1>. QED  BY <1>5, <1>6 DEF all, one

(* Changing one message of one connection. *)
Amends(c, m, message) ==
  ledger' = [ledger EXCEPT ![c] = [ledger[c] EXCEPT ![m] = message]]

(* It changes that message and nothing else, and keeps the type. *)
LEMMA LedgerUpdate ==
  ASSUME TypeOK, NEW c \in Conn, NEW m \in 1 .. Len(ledger[c]), NEW e \in Message,
         Amends(c, m, e)
  PROVE  /\ ledger' \in [Conn -> Seq(Message)]
         /\ Len(ledger'[c]) = Len(ledger[c])
         /\ ledger'[c] # <<>>
         /\ DOMAIN ledger'[c] = 1 .. Len(ledger[c])
         /\ \A n \in 1 .. Len(ledger[c]) : ledger'[c][n] = IF n = m THEN e ELSE ledger[c][n]
         /\ \A d \in Conn : d # c => ledger'[d] = ledger[d]
<1>1. ledger[c] \in Seq(Message)
  BY DEF TypeOK
<1> DEFINE new == [ledger[c] EXCEPT ![m] = e]
<1>2. /\ new \in Seq(Message) /\ Len(new) = Len(ledger[c])
      /\ \A n \in 1 .. Len(ledger[c]) : new[n] = IF n = m THEN e ELSE ledger[c][n]
  BY <1>1, ExceptSeq
<1>. HIDE DEF new
<1>3. ledger' = [ledger EXCEPT ![c] = new] /\ ledger \in [Conn -> Seq(Message)]
  BY DEF new, TypeOK, Amends
<1>4. new # <<>>
  BY <1>2, EmptySeq
<1>5. DOMAIN new = 1 .. Len(ledger[c])
  BY <1>2, LenProperties
<1>. QED  BY <1>2, <1>3, <1>4, <1>5

(* The message a session works on is the last of its messages. *)
LEMMA SubmissionType ==
  ASSUME TypeOK, NEW c \in Conn, ledger[c] # <<>>
  PROVE  /\ Len(ledger[c]) \in 1 .. Len(ledger[c])
         /\ DOMAIN ledger[c] = 1 .. Len(ledger[c])
         /\ Submission(c) \in Message
BY EmptySeq, LenProperties, ElementOfSeq DEF TypeOK, Submission

(* The final reply to a message. *)
LEMMA FinishKeeps ==
  ASSUME IInv, NEW c \in Conn, NEW code \in {250, 554},
         pc[c] \in {"prepare", "relay"},
         code = 250 =>
           /\ pc[c] = "relay"
           /\ Submission(c).took = Len(Submission(c).offered)
           /\ completed_deliveries[c] + 1 = Len(deliveries[c]),
         Finish(c, code), UNCHANGED listener
  PROVE  IInv'
<1> DEFINE old == Submission(c)
           new == [old EXCEPT !.reply = code]
           last == Len(ledger[c])
<1>1. CASE EndSession(c) /\ UNCHANGED ledger
  BY <1>1, EndSessionKeeps
<1>2. CASE /\ Written(c, ResetTransaction(state[c]), ".", NoSender, code)
           /\ ledger' = [ledger EXCEPT ![c][Len(ledger[c])].reply = code]
  <2>1. TypeOK /\ Standing(c) /\ SoundLedger(c)
    BY DEF IInv
  <2>2. ledger[c] # <<>>
    BY <2>1 DEF Standing
  <2>3. last \in 1 .. last /\ old \in Message /\ DOMAIN ledger[c] = 1 .. last
    BY <2>1, <2>2, SubmissionType
  <2>4. new \in Message
    BY <2>3 DEF Message
  <2>5. Sound(old)
    BY <2>1, <2>3 DEF SoundLedger, Submission
  <2>6. Sound(new)
    <3>1. /\ new.mail_from = old.mail_from /\ new.rcpt_to = old.rcpt_to
          /\ new.header_recipients = old.header_recipients
          /\ new.offered = old.offered /\ new.took = old.took /\ new.reply = code
      BY <2>3 DEF Message
    <3>2. code = 250 => Len(old.offered) = Len(PlanKinds(old.rcpt_to))
      <4>1. pc[c] = "relay" =>
              /\ deliveries[c] = Deliveries(old.mail_from, old.rcpt_to, old.header_recipients)
              /\ Len(old.offered) = completed_deliveries[c] + 1
        BY <2>1 DEF Standing
      <4>2. Len(Deliveries(old.mail_from, old.rcpt_to, old.header_recipients))
              = Len(PlanKinds(old.rcpt_to))
        BY <2>3, DeliveriesShape DEF Message
      <4>. QED  BY <4>1, <4>2
    <3>. HIDE DEF new, old
    <3>. QED  BY <2>5, <3>1, <3>2 DEF Sound, Plannable, Planned, old
  <2>7. Amends(c, last, new)
    BY <1>2 DEF Submission, Amends
  <2>. HIDE DEF new
  <2>8. /\ ledger' \in [Conn -> Seq(Message)]
        /\ ledger'[c] # <<>>
        /\ DOMAIN ledger'[c] = 1 .. last
        /\ \A n \in 1 .. last : ledger'[c][n] = IF n = last THEN new ELSE ledger[c][n]
        /\ \A d \in Conn : d # c => ledger'[d] = ledger[d]
    BY <2>1, <2>3, <2>4, <2>7, LedgerUpdate
  <2> DEFINE s == ResetTransaction(state[c])
             w == NoTransaction(wire[c])
  <2>9. /\ state[c] \in SessionStates /\ wire[c] \in Wires
        /\ s \in SessionStates /\ w \in Wires
        /\ s.mail_from = NoSender /\ s.rcpt_to = <<>> /\ s.authenticated = state[c].authenticated
        /\ w.mail_from = NoSender /\ w.rcpt_to = <<>> /\ w.authenticated = wire[c].authenticated
    <3>1. state[c] \in SessionStates /\ wire[c] \in Wires
      BY <2>1 DEF TypeOK, SessionStates, Wires
    <3>2. s \in SessionStates
      BY <3>1, EmptyRecipients DEF SessionStates, ResetTransaction
    <3>3. /\ s.mail_from = NoSender /\ s.rcpt_to = <<>>
          /\ s.authenticated = state[c].authenticated
      BY <3>1 DEF SessionStates, ResetTransaction
    <3>4. w \in Wires
      BY <3>1, EmptyRecipients DEF Wires, NoTransaction
    <3>5. /\ w.mail_from = NoSender /\ w.rcpt_to = <<>>
          /\ w.authenticated = wire[c].authenticated
      BY <3>1 DEF Wires, NoTransaction
    <3>. QED  BY <3>1, <3>2, <3>3, <3>4, <3>5
  <2>. HIDE DEF s
  <2>10. /\ pc' = [pc EXCEPT ![c] = "command"] /\ state' = [state EXCEPT ![c] = s]
         /\ wire' = [wire EXCEPT ![c] = w]
         /\ deliveries' = [deliveries EXCEPT ![c] = <<>>]
         /\ completed_deliveries' = [completed_deliveries EXCEPT ![c] = 0]
    BY <1>2 DEF Written, Discard, Exchange, s
  <2>. HIDE DEF w
  <2>11. TypeOK'
    BY <2>1, <2>8, <2>9, <2>10, EmptySeq DEF TypeOK, SessionStates, Wires
  <2>12. ASSUME NEW d \in Conn PROVE Standing(d)' /\ SoundLedger(d)'
    <3>1. CASE d = c
      <4>1. /\ pc'[d] = "command" /\ state'[d] = s /\ wire'[d] = w
        BY <2>1, <2>10, <3>1 DEF TypeOK
      <4>2. Standing(d)'
        BY <4>1, <2>1, <2>2, <2>9, <3>1 DEF Standing
      <4>3. SoundLedger(d)'
        BY <2>1, <2>3, <2>6, <2>8, <3>1 DEF SoundLedger
      <4>. QED  BY <4>2, <4>3
    <3>2. CASE d # c
      BY <2>8, <2>10, <3>2, OthersStand DEF IInv, TypeOK
    <3>. QED  BY <3>1, <3>2
  <2>. QED  BY <2>11, <2>12 DEF IInv
<1>. QED  BY <1>1, <1>2 DEF Finish

(* The rest of such a step: where the session waits now and what it holds. *)
Moves(c, p, prepared, completed) ==
  /\ pc' = [pc EXCEPT ![c] = p]
  /\ deliveries' = [deliveries EXCEPT ![c] = prepared]
  /\ completed_deliveries' = [completed_deliveries EXCEPT ![c] = completed]
  /\ UNCHANGED <<listener, state, wire>>

(***************************************************************************)
(* A step of a session that amends one of its messages into a sound one:   *)
(* only what the session itself has in hand remains to be looked at.       *)
(***************************************************************************)
LEMMA AmendKeeps ==
  ASSUME IInv, NEW c \in Conn, NEW m \in 1 .. Len(ledger[c]), NEW e \in Message,
         Sound(e), Amends(c, m, e),
         NEW p \in {"unconnected", "accepted", "command", "auth", "data",
                    "prepare", "relay", "closed"},
         NEW prepared \in Seq(Delivery), NEW completed \in Nat,
         Moves(c, p, prepared, completed), Standing(c)'
  PROVE  IInv'
<1>1. TypeOK /\ Standing(c) /\ SoundLedger(c)
  BY DEF IInv
<1>2. /\ ledger' \in [Conn -> Seq(Message)]
      /\ DOMAIN ledger'[c] = 1 .. Len(ledger[c])
      /\ \A n \in 1 .. Len(ledger[c]) : ledger'[c][n] = IF n = m THEN e ELSE ledger[c][n]
      /\ \A d \in Conn : d # c => ledger'[d] = ledger[d]
  BY <1>1, LedgerUpdate
<1>3. DOMAIN ledger[c] = 1 .. Len(ledger[c])
  BY <1>1, LenProperties DEF TypeOK
<1>4. TypeOK'
  BY <1>1, <1>2 DEF TypeOK, Moves
<1>5. ASSUME NEW d \in Conn PROVE Standing(d)' /\ SoundLedger(d)'
  <2>1. CASE d = c
    BY <1>1, <1>2, <1>3, <2>1 DEF SoundLedger
  <2>2. CASE d # c
    BY <1>2, <2>2, OthersStand DEF IInv, TypeOK, Moves
  <2>. QED  BY <2>1, <2>2
<1>. QED  BY <1>4, <1>5 DEF IInv

(* A message with one more delivery of its plan offered. *)
NextOffer(message) ==
  [message EXCEPT !.offered = Append(@, Planned(message, Len(message.offered) + 1))]

(* One more delivery of the plan offered keeps a message sound. *)
LEMMA OfferSound ==
  ASSUME NEW message \in Message, Sound(message), Plannable(message), message.reply = 0,
         message.took = Len(message.offered),
         Len(message.offered) < Len(PlanKinds(message.rcpt_to)),
         message.mail_from \in Sender
  PROVE  /\ NextOffer(message) \in Message
         /\ Sound(NextOffer(message))
         /\ NextOffer(message).mail_from = message.mail_from
         /\ NextOffer(message).rcpt_to = message.rcpt_to
         /\ NextOffer(message).header_recipients = message.header_recipients
         /\ NextOffer(message).reply = 0
         /\ Len(NextOffer(message).offered) = Len(message.offered) + 1
<1> DEFINE k == Len(message.offered)
           one == Planned(message, k + 1)
           next == [message EXCEPT !.offered = Append(@, one)]
<1>1. message.offered \in Seq(Delivery) /\ k \in Nat
  BY LenProperties DEF Message
<1>2. one \in Delivery
  <2>1. PlanKinds(message.rcpt_to)[k + 1] \in {"Encrypted", "Unencrypted"}
    BY <1>1, PlanKindsShape, ElementOfSeq
  <2>. QED  BY <2>1, PreparedDeliveryType DEF Planned, Message
<1>. HIDE DEF one
<1>3. /\ Append(message.offered, one) \in Seq(Delivery)
      /\ Len(Append(message.offered, one)) = k + 1
      /\ Append(message.offered, one) # <<>>
      /\ \A n \in 1 .. k + 1 : Append(message.offered, one)[n] =
           IF n = k + 1 THEN one ELSE message.offered[n]
  BY <1>1, <1>2
<1>4. /\ next \in Message
      /\ next.mail_from = message.mail_from /\ next.rcpt_to = message.rcpt_to
      /\ next.header_recipients = message.header_recipients
      /\ next.offered = Append(message.offered, one) /\ next.took = message.took
      /\ next.reply = message.reply
  BY <1>3 DEF Message
<1>. HIDE DEF next
<1>5. \A n \in 1 .. Len(next.offered) : next.offered[n] = Planned(next, n)
  <2>1. \A n : Planned(next, n) = Planned(message, n)
    BY <1>4 DEF Planned
  <2>2. \A n \in 1 .. k : message.offered[n] = Planned(message, n)
    BY DEF Sound
  <2>. QED  BY <1>1, <1>3, <1>4, <2>1, <2>2 DEF one
<1>6. Sound(next)
  BY <1>1, <1>3, <1>4, <1>5, PlanKindsShape DEF Sound, Plannable
<1>7. next = NextOffer(message)
  BY DEF next, one, NextOffer
<1>. QED  BY <1>3, <1>4, <1>6, <1>7

(* A message is submitted. *)
LEMMA DataEndsKeeps ==
  ASSUME IInv, NEW c \in Conn, DataEnds(c)
  PROVE  IInv'
<1>1. TypeOK /\ Standing(c) /\ SoundLedger(c) /\ pc[c] = "data"
  BY DEF IInv, DataEnds
<1>2. PICK headers \in Headers :
        ledger' = [ledger EXCEPT ![c] = Append(@,
                    [mail_from |-> wire[c].mail_from, rcpt_to |-> wire[c].rcpt_to,
                     header_recipients |-> headers,
                     offered |-> <<>>, took |-> 0, reply |-> 0])]
  BY DEF DataEnds
<1> DEFINE new == [mail_from |-> wire[c].mail_from, rcpt_to |-> wire[c].rcpt_to,
                   header_recipients |-> headers,
                   offered |-> <<>>, took |-> 0, reply |-> 0]
<1>3. /\ wire[c].mail_from = state[c].mail_from /\ wire[c].rcpt_to = state[c].rcpt_to
      /\ wire[c].mail_from # NoSender /\ wire[c].rcpt_to # <<>>
      /\ c \in AllowedPeers /\ wire[c].authenticated
  BY <1>1 DEF Standing
<1>4. new \in Message
  BY <1>1, <1>3, EmptySeq DEF TypeOK, Message
<1>5. Sound(new)
  BY <1>3, EmptySeq, PlanKindsShape DEF Sound
<1>6. /\ new.mail_from = state[c].mail_from /\ new.rcpt_to = state[c].rcpt_to
      /\ new.reply = 0 /\ new.offered = <<>>
  BY <1>3
<1>. HIDE DEF new
<1>7. ledger[c] \in Seq(Message) /\ ledger' = [ledger EXCEPT ![c] = Append(ledger[c], new)]
  BY <1>1, <1>2 DEF TypeOK, new
<1>8. /\ ledger' \in [Conn -> Seq(Message)]
      /\ ledger'[c] = Append(ledger[c], new)
      /\ \A d \in Conn : d # c => ledger'[d] = ledger[d]
  BY <1>1, <1>4, <1>7 DEF TypeOK
<1>9. /\ Len(Append(ledger[c], new)) = Len(ledger[c]) + 1
      /\ Append(ledger[c], new) # <<>>
      /\ Append(ledger[c], new)[Len(ledger[c]) + 1] = new
      /\ DOMAIN Append(ledger[c], new) = 1 .. Len(ledger[c]) + 1
      /\ \A n \in 1 .. Len(ledger[c]) : Append(ledger[c], new)[n] = ledger[c][n]
      /\ Len(ledger[c]) \in Nat /\ DOMAIN ledger[c] = 1 .. Len(ledger[c])
  BY <1>4, <1>7
<1>10. /\ pc' = [pc EXCEPT ![c] = "prepare"]
       /\ UNCHANGED <<listener, state, wire, deliveries, completed_deliveries>>
  BY DEF DataEnds, relaying
<1>11. TypeOK'
  BY <1>1, <1>8, <1>10 DEF TypeOK
<1>12. ASSUME NEW d \in Conn PROVE Standing(d)' /\ SoundLedger(d)'
  <2>1. CASE d = c
    <3>1. Submission(d)' = new /\ ledger'[d] # <<>>
      BY <1>8, <1>9, <2>1 DEF Submission
    <3>2. Standing(d)'
      BY <1>1, <1>3, <1>6, <1>10, <2>1, <3>1 DEF Standing, TypeOK
    <3>3. SoundLedger(d)'
      BY <1>1, <1>5, <1>8, <1>9, <2>1 DEF SoundLedger
    <3>. QED  BY <3>2, <3>3
  <2>2. CASE d # c
    BY <1>8, <1>10, <2>2, OthersStand DEF IInv, TypeOK
  <2>. QED  BY <2>1, <2>2
<1>. QED  BY <1>11, <1>12 DEF IInv

(* The deliveries are prepared and the first one is offered. *)
LEMMA PrepareKeeps ==
  ASSUME IInv, NEW c \in Conn, Prepare(c)
  PROVE  IInv'
<1> DEFINE old  == Submission(c)
           all  == Deliveries(state[c].mail_from, state[c].rcpt_to, old.header_recipients)
           new  == NextOffer(old)
           last == Len(ledger[c])
<1>1. TypeOK /\ Standing(c) /\ SoundLedger(c) /\ pc[c] = "prepare"
  BY DEF IInv, Prepare
<1>2. /\ ledger[c] # <<>> /\ old.mail_from = state[c].mail_from
      /\ old.rcpt_to = state[c].rcpt_to /\ old.reply = 0 /\ old.offered = <<>>
  BY <1>1 DEF Standing
<1>3. last \in 1 .. last /\ old \in Message /\ DOMAIN ledger[c] = 1 .. last
  BY <1>1, <1>2, SubmissionType
<1>4. Sound(old) /\ Plannable(old)
  BY <1>1, <1>2, <1>3 DEF SoundLedger, Submission, Prepare, Plannable
<1>5. Len(old.offered) = 0 /\ old.took = 0 /\ Len(PlanKinds(old.rcpt_to)) \in {1, 2}
  BY <1>2, <1>3, <1>4, PlanKindsShape DEF Sound, Message
<1>6. /\ new \in Message /\ Sound(new)
      /\ new.mail_from = old.mail_from /\ new.rcpt_to = old.rcpt_to
      /\ new.header_recipients = old.header_recipients /\ new.reply = 0
      /\ Len(new.offered) = 1
  <2>1. old.mail_from \in Sender
    BY <1>3 DEF Message
  <2> DEFINE kinds == Len(PlanKinds(old.rcpt_to))
  <2>. HIDE DEF old, kinds
  <2>2. Len(old.offered) = 0 /\ old.took = 0 /\ kinds \in {1, 2}
    BY <1>5 DEF kinds
  <2>3. old.took = Len(old.offered) /\ Len(old.offered) < kinds /\ Len(old.offered) + 1 = 1
    BY <2>2
  <2>. QED  BY <1>2, <1>3, <1>4, <2>1, <2>3, OfferSound DEF kinds
<1>7. /\ all \in Seq(Delivery) /\ Len(all) = Len(PlanKinds(old.rcpt_to))
      /\ all[1] = Planned(old, 1)
  BY <1>2, <1>3, <1>5, DeliveriesShape DEF Message, Planned
<1>8. all = Deliveries(new.mail_from, new.rcpt_to, new.header_recipients)
  BY <1>2, <1>6
<1>9. /\ pc' = [pc EXCEPT ![c] = "relay"] /\ deliveries' = [deliveries EXCEPT ![c] = all]
      /\ completed_deliveries' = [completed_deliveries EXCEPT ![c] = 0]
      /\ UNCHANGED <<listener, state, wire>>
      /\ Offer(c, deliveries'[c][1])
  BY DEF Prepare
<1>. HIDE DEF all
<1>10. deliveries'[c] = all /\ pc'[c] = "relay" /\ completed_deliveries'[c] = 0
  BY <1>1, <1>9 DEF TypeOK
<1>11. Amends(c, last, new)
  <2>1. all[1] = Planned(old, Len(old.offered) + 1)
    BY <1>5, <1>7
  <2>2. ledger' = [ledger EXCEPT ![c][last].offered = Append(@, all[1])]
    BY <1>9, <1>10 DEF Offer
  <2>3. ledger' = [ledger EXCEPT ![c] = [ledger[c] EXCEPT ![last] =
                     [old EXCEPT !.offered = Append(@, all[1])]]]
    BY <2>2 DEF Submission
  <2>. QED  BY <2>1, <2>3 DEF Amends, NextOffer
<1>. HIDE DEF new, old
<1>12. Submission(c)' = new /\ ledger'[c] # <<>>
  BY <1>1, <1>3, <1>6, <1>11, LedgerUpdate DEF Submission
<1>13. Plannable(new)
  BY <1>4, <1>6 DEF Plannable
<1>14. Standing(c)'
  <2>1. state'[c] = state[c] /\ wire'[c] = wire[c]
    BY <1>9
  <2>. QED  BY <1>1, <1>2, <1>6, <1>8, <1>10, <1>12, <1>13, <2>1 DEF Standing
<1>15. Moves(c, "relay", all, 0)
  BY <1>9 DEF Moves
<1>. QED  BY <1>3, <1>6, <1>7, <1>11, <1>14, <1>15, AmendKeeps

(* The remote server takes a delivery. *)
LEMMA RemoteTakesKeeps ==
  ASSUME IInv, NEW c \in Conn, RemoteTakes(c)
  PROVE  IInv'
<1>1. TypeOK /\ Standing(c) /\ SoundLedger(c)
  BY DEF IInv
<1>2. ledger[c] \in Seq(Message) /\ DOMAIN ledger[c] = 1 .. Len(ledger[c])
  BY <1>1, LenProperties DEF TypeOK
<1>3. PICK m \in 1 .. Len(ledger[c]) :
        /\ ledger[c][m].took < Len(ledger[c][m].offered)
        /\ ledger' = [ledger EXCEPT ![c][m].took = @ + 1]
  BY <1>2 DEF RemoteTakes
<1> DEFINE old == ledger[c][m]
           new == [old EXCEPT !.took = @ + 1]
<1>4. old \in Message /\ Sound(old)
  BY <1>1, <1>2, ElementOfSeq DEF SoundLedger
<1>5. /\ new \in Message
      /\ new.mail_from = old.mail_from /\ new.rcpt_to = old.rcpt_to
      /\ new.header_recipients = old.header_recipients /\ new.offered = old.offered
      /\ new.reply = old.reply /\ new.took = old.took + 1
  BY <1>4 DEF Message
<1>6. Amends(c, m, new)
  BY <1>3 DEF Amends
<1>. HIDE DEF new, old
<1>7. Sound(new)
  <2>1. old.took < Len(old.offered) /\ Len(old.offered) \in Nat /\ old.took \in Nat
    BY <1>3, <1>4, LenProperties DEF old, Message
  <2>. QED  BY <2>1, <1>4, <1>5 DEF Sound, Plannable, Planned
<1>8. /\ UNCHANGED <<listener, pc, state, deliveries, completed_deliveries, wire>>
  BY DEF RemoteTakes, relaying
<1>9. /\ ledger[c] # <<>> /\ ledger'[c] # <<>> /\ Len(ledger'[c]) = Len(ledger[c])
      /\ \A n \in 1 .. Len(ledger[c]) : ledger'[c][n] = IF n = m THEN new ELSE ledger[c][n]
  BY <1>1, <1>2, <1>5, <1>6, LedgerUpdate, EmptySeq
<1>10. /\ Submission(c)'.mail_from = Submission(c).mail_from
       /\ Submission(c)'.rcpt_to = Submission(c).rcpt_to
       /\ Submission(c)'.header_recipients = Submission(c).header_recipients
       /\ Submission(c)'.offered = Submission(c).offered
       /\ Submission(c)'.reply = Submission(c).reply
  BY <1>1, <1>5, <1>9, SubmissionType DEF Submission, old
<1>11. Standing(c)'
  BY <1>1, <1>8, <1>9, <1>10 DEF Standing, Plannable
<1>12. /\ pc' = [pc EXCEPT ![c] = pc[c]]
       /\ deliveries' = [deliveries EXCEPT ![c] = deliveries[c]]
       /\ completed_deliveries' = [completed_deliveries EXCEPT ![c] = completed_deliveries[c]]
  BY <1>1, <1>8 DEF TypeOK
<1>13. /\ pc[c] \in {"unconnected", "accepted", "command", "auth", "data",
                    "prepare", "relay", "closed"}
       /\ deliveries[c] \in Seq(Delivery) /\ completed_deliveries[c] \in Nat
  BY <1>1 DEF TypeOK
<1>14. Moves(c, pc[c], deliveries[c], completed_deliveries[c])
  BY <1>8, <1>12 DEF Moves
<1>. QED  BY <1>5, <1>6, <1>7, <1>11, <1>13, <1>14, AmendKeeps

(* A delivery is confirmed, and the next is offered or the message is done. *)
LEMMA SendSucceedsKeeps ==
  ASSUME IInv, NEW c \in Conn, SendSucceeds(c)
  PROVE  IInv'
<1> DEFINE old  == Submission(c)
           k    == completed_deliveries[c]
           new  == NextOffer(old)
           last == Len(ledger[c])
<1>1. /\ TypeOK /\ Standing(c) /\ SoundLedger(c) /\ pc[c] = "relay"
      /\ old.took = Len(old.offered)
  BY DEF IInv, SendSucceeds
<1>2. CASE /\ k + 1 = Len(deliveries[c])
           /\ Finish(c, 250)
  BY <1>1, <1>2, FinishKeeps DEF SendSucceeds
<1>3. CASE /\ k + 1 < Len(deliveries[c])
           /\ completed_deliveries' = [completed_deliveries EXCEPT ![c] = @ + 1]
           /\ Offer(c, deliveries[c][k + 2])
           /\ UNCHANGED <<pc, state, deliveries, wire>>
  <2>1. /\ ledger[c] # <<>> /\ old.reply = 0
        /\ old.mail_from = state[c].mail_from /\ old.rcpt_to = state[c].rcpt_to
        /\ old.mail_from # NoSender /\ Plannable(old)
        /\ deliveries[c] = Deliveries(old.mail_from, old.rcpt_to, old.header_recipients)
        /\ Len(old.offered) = k + 1
    BY <1>1 DEF Standing
  <2>2. /\ last \in 1 .. last /\ old \in Message /\ DOMAIN ledger[c] = 1 .. last
        /\ k \in Nat
    BY <1>1, <2>1, SubmissionType DEF TypeOK
  <2>3. Sound(old)
    BY <1>1, <2>2 DEF SoundLedger, Submission
  <2>4. /\ Len(deliveries[c]) = Len(PlanKinds(old.rcpt_to))
        /\ deliveries[c][k + 2] = Planned(old, k + 2)
    <3>1. \A n \in 1 .. Len(deliveries[c]) : deliveries[c][n] = Planned(old, n)
      BY <2>1, <2>2, DeliveriesShape DEF Message, Planned
    <3>2. Len(deliveries[c]) = Len(PlanKinds(old.rcpt_to))
      BY <2>1, <2>2, DeliveriesShape DEF Message
    <3>3. k + 2 \in 1 .. Len(deliveries[c])
      BY <1>3, <2>2, <3>2, PlanKindsShape
    <3>. QED  BY <3>1, <3>2, <3>3
  <2>5. /\ new \in Message /\ Sound(new)
        /\ new.mail_from = old.mail_from /\ new.rcpt_to = old.rcpt_to
        /\ new.header_recipients = old.header_recipients /\ new.reply = 0
        /\ Len(new.offered) = k + 2
    <3>1. old.mail_from \in Sender
      BY <2>2 DEF Message
    <3>2. Len(old.offered) < Len(PlanKinds(old.rcpt_to))
      BY <1>3, <2>1, <2>4
    <3>. HIDE DEF old
    <3>. QED  BY <1>1, <2>1, <2>2, <2>3, <3>1, <3>2, OfferSound
  <2>7. Amends(c, last, new)
    <3>1. deliveries[c][k + 2] = Planned(old, Len(old.offered) + 1)
      <4>1. Len(old.offered) + 1 = k + 2
        BY <2>1, <2>2
      <4>. QED  BY <2>4, <4>1
    <3>2. ledger' = [ledger EXCEPT ![c] = [ledger[c] EXCEPT ![last] =
                       [old EXCEPT !.offered = Append(@, deliveries[c][k + 2])]]]
      BY <1>3 DEF Offer, Submission
    <3>. QED  BY <3>1, <3>2 DEF Amends, NextOffer
  <2>. HIDE DEF new
  <2>8. Submission(c)' = new /\ ledger'[c] # <<>>
    BY <1>1, <2>2, <2>5, <2>7, LedgerUpdate DEF Submission
  <2>9. /\ completed_deliveries' = [completed_deliveries EXCEPT ![c] = k + 1]
        /\ completed_deliveries'[c] = k + 1 /\ k + 1 \in Nat
    BY <1>1, <1>3, <2>2 DEF TypeOK
  <2>10. Plannable(new)
    BY <2>1, <2>5 DEF Plannable
  <2>. HIDE DEF old, k
  <2>11. Standing(c)'
    BY <1>1, <1>3, <2>1, <2>2, <2>5, <2>8, <2>9, <2>10 DEF Standing
  <2>12. /\ pc' = [pc EXCEPT ![c] = "relay"]
         /\ deliveries' = [deliveries EXCEPT ![c] = deliveries[c]]
         /\ deliveries[c] \in Seq(Delivery)
         /\ UNCHANGED <<listener, state, wire>>
    BY <1>1, <1>3 DEF TypeOK, SendSucceeds
  <2>13. Moves(c, "relay", deliveries[c], k + 1)
    BY <2>9, <2>12 DEF Moves
  <2>. QED  BY <2>2, <2>5, <2>7, <2>9, <2>11, <2>12, <2>13, AmendKeeps
<1>. QED  BY <1>2, <1>3 DEF SendSucceeds

-----------------------------------------------------------------------------
(* The invariant holds at the start. *)
LEMMA InitStands == Init => IInv
<1>. SUFFICES ASSUME Init PROVE IInv
  OBVIOUS
<1>1. /\ InitialState \in SessionStates
      /\ InitialState.mail_from = NoSender /\ InitialState.rcpt_to = <<>>
      /\ InitialState.authenticated = FALSE
  BY EmptyRecipients DEF InitialState, SessionStates
<1>2. TypeOK
  BY <1>1, EmptyRecipients, EmptySeq DEF Init, TypeOK, SessionStates
<1>3. ASSUME NEW c \in Conn PROVE Standing(c) /\ SoundLedger(c)
  <2>1. /\ pc[c] = "unconnected" /\ state[c] = InitialState /\ ledger[c] = <<>>
        /\ wire[c].mail_from = NoSender /\ wire[c].rcpt_to = <<>>
        /\ wire[c].authenticated = FALSE
    BY DEF Init
  <2>2. DOMAIN ledger[c] = {}
    BY <2>1
  <2>. QED  BY <1>1, <2>1, <2>2 DEF Standing, SoundLedger
<1>. QED  BY <1>2, <1>3 DEF IInv

(* Every step keeps it. *)
LEMMA StepKeeps == IInv /\ [Next]_vars => IInv'
<1>. SUFFICES ASSUME IInv, [Next]_vars PROVE IInv'
  OBVIOUS
<1>1. ASSUME NEW c \in Conn, Session(c) PROVE IInv'
  <2>1. CASE PrepareFails(c)
    BY <2>1, FinishKeeps DEF PrepareFails
  <2>2. CASE SendFails(c)
    BY <2>2, FinishKeeps DEF SendFails
  <2>. QED  BY <1>1, <2>1, <2>2, DialogueKeeps, DataEndsKeeps, PrepareKeeps,
               RemoteTakesKeeps, SendSucceedsKeeps DEF Session, Client, Task
<1>2. ASSUME listener' \in {"accepting", "interrupted", "stopped"},
             UNCHANGED <<pc, state, deliveries, completed_deliveries, wire, ledger>>
      PROVE  IInv'
  <2>1. TypeOK'
    BY <1>2 DEF IInv, TypeOK
  <2>2. ASSUME NEW c \in Conn PROVE Standing(c)' /\ SoundLedger(c)'
    BY <1>2 DEF IInv, Standing, SoundLedger, Submission
  <2>. QED  BY <2>1, <2>2 DEF IInv
<1>3. CASE CtrlC \/ Stop \/ AcceptError
  BY <1>2, <1>3 DEF CtrlC, Stop, AcceptError, relaying
<1>4. CASE Exited \/ UNCHANGED vars
  BY <1>2, <1>4 DEF Exited, vars, IInv, TypeOK
<1>. QED  BY <1>1, <1>3, <1>4 DEF Next

(* The inductive invariant is an invariant. *)
THEOREM Invariance == Spec => []IInv
BY InitStands, StepKeeps, PTL DEF Spec

(* Every variable keeps its shape. *)
THEOREM TypeCorrect == Spec => []TypeOK
<1>1. IInv => TypeOK
  BY DEF IInv
<1>. QED  BY <1>1, Invariance, PTL

(***************************************************************************)
(* The session and its client never disagree about the transaction: the    *)
(* recipients a message is relayed to are the ones acknowledged for it.    *)
(***************************************************************************)
THEOREM TransactionAgreement == Spec => []SameTransaction
<1>1. IInv => SameTransaction
  BY DEF IInv, Standing, SameTransaction
<1>. QED  BY <1>1, Invariance, PTL

(***************************************************************************)
(* Whatever is relayed came from an allowed peer that had authenticated.   *)
(***************************************************************************)
THEOREM AuthenticatedRelaying == Spec => []OnlyAuthenticatedSubmissions
<1>1. IInv => OnlyAuthenticatedSubmissions
  BY DEF IInv, Standing, OnlyAuthenticatedSubmissions
<1>. QED  BY <1>1, Invariance, PTL
-----------------------------------------------------------------------------
(* What the plan of a message says about its recipients. *)

(* Each part that is not empty has its delivery, and no kind comes twice. *)
LEMMA KindsCoverParts ==
  ASSUME NEW rcpt_to \in Seq(Address), rcpt_to # <<>>
  PROVE  /\ \A n, k \in 1 .. Len(PlanKinds(rcpt_to)) :
              PlanKinds(rcpt_to)[n] = PlanKinds(rcpt_to)[k] => n = k
         /\ \A n \in 1 .. Len(PlanKinds(rcpt_to)) :
              \/ PlanKinds(rcpt_to)[n] = "Encrypted" /\ EncryptedPart(rcpt_to) # {}
              \/ PlanKinds(rcpt_to)[n] = "Unencrypted"
         /\ EncryptedPart(rcpt_to) # {} =>
              \E n \in 1 .. Len(PlanKinds(rcpt_to)) : PlanKinds(rcpt_to)[n] = "Encrypted"
         /\ UnencryptedPart(rcpt_to) # {} =>
              \E n \in 1 .. Len(PlanKinds(rcpt_to)) : PlanKinds(rcpt_to)[n] = "Unencrypted"
<1> DEFINE kinds == PlanKinds(rcpt_to)
<1>1. EncryptedPart(rcpt_to) # {} \/ UnencryptedPart(rcpt_to) # {}
  <2>1. 1 \in DOMAIN rcpt_to
    BY EmptySeq, LenProperties
  <2>. QED  BY <2>1, PartsPartition
<1>2. CASE UnencryptedPart(rcpt_to) = {}
  <2>1. kinds = <<"Encrypted">>
    BY <1>2 DEF PlanKinds
  <2>2. Len(kinds) = 1 /\ kinds[1] = "Encrypted"
    BY <2>1
  <2>. HIDE DEF kinds
  <2>3. \A n \in 1 .. Len(kinds) : n = 1
    BY <2>2
  <2>. QED  BY <1>1, <1>2, <2>2, <2>3 DEF kinds
<1>3. CASE UnencryptedPart(rcpt_to) # {} /\ EncryptedPart(rcpt_to) = {}
  <2>1. kinds = <<"Unencrypted">>
    BY <1>3 DEF PlanKinds
  <2>2. Len(kinds) = 1 /\ kinds[1] = "Unencrypted"
    BY <2>1
  <2>. HIDE DEF kinds
  <2>3. \A n \in 1 .. Len(kinds) : n = 1
    BY <2>2
  <2>. QED  BY <1>3, <2>2, <2>3 DEF kinds
<1>4. CASE UnencryptedPart(rcpt_to) # {} /\ EncryptedPart(rcpt_to) # {}
  <2>1. kinds = <<"Encrypted", "Unencrypted">>
    BY <1>4 DEF PlanKinds
  <2>2. Len(kinds) = 2 /\ kinds[1] = "Encrypted" /\ kinds[2] = "Unencrypted"
    BY <2>1
  <2>. HIDE DEF kinds
  <2>3. 1 \in 1 .. Len(kinds) /\ 2 \in 1 .. Len(kinds)
        /\ \A n \in 1 .. Len(kinds) : n = 1 \/ n = 2
    BY <2>2
  <2>. QED  BY <1>4, <2>2, <2>3 DEF kinds
<1>. QED  BY <1>2, <1>3, <1>4

(* The fields of a planned delivery. *)
LEMMA PlannedFields ==
  ASSUME NEW message, NEW n
  PROVE  LET kind == PlanKinds(message.rcpt_to)[n]
             part == IF kind = "Encrypted" THEN EncryptedPart(message.rcpt_to)
                                           ELSE UnencryptedPart(message.rcpt_to)
         IN  /\ Planned(message, n).kind = kind
             /\ Planned(message, n).mail_from = message.mail_from
             /\ DOMAIN Planned(message, n).rcpt_to = part
             /\ \A i \in part : Planned(message, n).rcpt_to[i] = message.rcpt_to[i]
             /\ Planned(message, n).readers =
                  IF kind = "Encrypted"
                  THEN EncryptionRecipients(message.header_recipients, message.rcpt_to)
                  ELSE {}
BY DEF Planned, PreparedDelivery, RecipientGroup

(***************************************************************************)
(* "250 message relayed" is only ever said of a message all of whose       *)
(* deliveries the remote server took, and they reach each acknowledged     *)
(* recipient exactly once.                                                 *)
(***************************************************************************)
THEOREM ConfirmationIsTrue == Spec => []ConfirmedMeansTaken
<1>1. ASSUME NEW message \in Message, Sound(message), message.reply = 250
      PROVE  /\ message.took = Len(message.offered)
             /\ \A n \in 1 .. message.took :
                  message.offered[n].mail_from = message.mail_from
             /\ \A i \in DOMAIN message.rcpt_to :
                  \E n \in 1 .. message.took :
                    /\ i \in DOMAIN message.offered[n].rcpt_to
                    /\ message.offered[n].rcpt_to[i] = message.rcpt_to[i]
                    /\ \A k \in 1 .. message.took :
                         i \in DOMAIN message.offered[k].rcpt_to => k = n
  <2> DEFINE kinds == PlanKinds(message.rcpt_to)
  <2>1. /\ message.took = Len(message.offered) /\ message.took = Len(kinds)
        /\ \A n \in 1 .. message.took : message.offered[n] = Planned(message, n)
        /\ message.rcpt_to \in Seq(Address) /\ message.rcpt_to # <<>>
    BY <1>1 DEF Sound, Message, Recipients
  <2>2. \A n \in 1 .. message.took : message.offered[n].mail_from = message.mail_from
    BY <2>1, PlannedFields
  <2>3. ASSUME NEW i \in DOMAIN message.rcpt_to, NEW part, NEW kind,
               i \in part, kind \in {"Encrypted", "Unencrypted"},
               part = IF kind = "Encrypted" THEN EncryptedPart(message.rcpt_to)
                                            ELSE UnencryptedPart(message.rcpt_to)
        PROVE  \E n \in 1 .. message.took :
                 /\ i \in DOMAIN message.offered[n].rcpt_to
                 /\ message.offered[n].rcpt_to[i] = message.rcpt_to[i]
                 /\ \A k \in 1 .. message.took :
                      i \in DOMAIN message.offered[k].rcpt_to => k = n
    <3>1. PICK n \in 1 .. Len(kinds) : kinds[n] = kind
      BY <2>1, <2>3, KindsCoverParts
    <3>2. /\ i \in DOMAIN message.offered[n].rcpt_to
          /\ message.offered[n].rcpt_to[i] = message.rcpt_to[i]
      BY <2>1, <2>3, <3>1, PlannedFields
    <3>3. ASSUME NEW k \in 1 .. message.took, i \in DOMAIN message.offered[k].rcpt_to
          PROVE  k = n
      <4>1. kinds[k] = kind
        <5>1. DOMAIN message.offered[k].rcpt_to =
                IF kinds[k] = "Encrypted" THEN EncryptedPart(message.rcpt_to)
                                          ELSE UnencryptedPart(message.rcpt_to)
          BY <2>1, PlannedFields
        <5>2. kinds[k] \in {"Encrypted", "Unencrypted"}
          BY <2>1, KindsCoverParts
        <5>3. i \in IF kinds[k] = "Encrypted" THEN EncryptedPart(message.rcpt_to)
                                             ELSE UnencryptedPart(message.rcpt_to)
          BY <3>3, <5>1
        <5>4. ~(i \in EncryptedPart(message.rcpt_to) /\ i \in UnencryptedPart(message.rcpt_to))
          BY PartsPartition
        <5>. HIDE DEF kinds
        <5>. QED  BY <2>3, <5>2, <5>3, <5>4
      <4>. QED  BY <2>1, <3>1, <4>1, KindsCoverParts
    <3>. QED  BY <2>1, <3>1, <3>2, <3>3
  <2>4. ASSUME NEW i \in DOMAIN message.rcpt_to
        PROVE  \/ i \in EncryptedPart(message.rcpt_to)
               \/ i \in UnencryptedPart(message.rcpt_to)
    BY PartsPartition
  <2>. QED  BY <2>1, <2>2, <2>3, <2>4
<1>2. IInv => ConfirmedMeansTaken
  <2>. SUFFICES ASSUME IInv, NEW c \in Conn, NEW m \in DOMAIN ledger[c]
                PROVE  ledger[c][m] \in Message /\ Sound(ledger[c][m])
    BY <1>1 DEF ConfirmedMeansTaken
  <2>1. ledger[c] \in Seq(Message) /\ SoundLedger(c)
    BY DEF IInv, TypeOK
  <2>. QED  BY <2>1, ElementOfSeq DEF SoundLedger
<1>. QED  BY <1>2, Invariance, PTL

(***************************************************************************)
(* Nothing leaves in clear that the configured exceptions do not cover,    *)
(* nobody who is sent the clear copy can read the encrypted one, and       *)
(* everybody else the header or the envelope names can.                    *)
(***************************************************************************)
THEOREM ClearIsExempt == Spec => []ClearOnlyByPolicy
<1>1. ASSUME NEW message \in Message, Sound(message),
             NEW n \in DOMAIN message.offered
      PROVE  LET delivery == message.offered[n]
                 names    == {normalize_email[delivery.rcpt_to[i]] :
                                i \in DOMAIN delivery.rcpt_to}
             IN
             /\ delivery.kind = "Unencrypted" =>
                  /\ names \subseteq DOMAIN unencrypted_recipients
                  /\ \A i \in DOMAIN message.rcpt_to :
                       ~IsUnencrypted(message.rcpt_to[i]) =>
                         \A name \in names : unencrypted_recipients[name]
             /\ delivery.kind = "Encrypted" =>
                  /\ delivery.readers # {}
                  /\ names \ {NoName} \subseteq delivery.readers
                  /\ names \cap DOMAIN unencrypted_recipients = {}
                  /\ \A i \in DOMAIN message.rcpt_to :
                       IsUnencrypted(message.rcpt_to[i]) =>
                         normalize_email[message.rcpt_to[i]] \notin delivery.readers
                  /\ \A name \in message.header_recipients \ delivery.readers :
                       \E i \in DOMAIN message.rcpt_to :
                         IsUnencrypted(message.rcpt_to[i])
                           /\ name = normalize_email[message.rcpt_to[i]]
  <2> DEFINE delivery == message.offered[n]
             rcpt_to  == message.rcpt_to
             enc      == EncryptedPart(rcpt_to)
             clear    == UnencryptedPart(rcpt_to)
             names    == {normalize_email[delivery.rcpt_to[i]] : i \in DOMAIN delivery.rcpt_to}
             NamesOf(part) == {normalize_email[rcpt_to[i]] : i \in part}
  <2>1. /\ message.offered \in Seq(Delivery) /\ rcpt_to \in Seq(Address) /\ rcpt_to # <<>>
        /\ DOMAIN message.offered = 1 .. Len(message.offered)
        /\ message.header_recipients \subseteq Name \ {NoName}
    BY <1>1, SmtpListenerAssumption DEF Message, Recipients, Sound
  <2>2. /\ delivery = Planned(message, n) /\ message.offered # <<>>
        /\ n \in 1 .. Len(PlanKinds(rcpt_to)) /\ Plannable(message)
    <3>1. message.offered # <<>>
      BY <2>1
    <3>2. Len(PlanKinds(rcpt_to)) \in {1, 2} /\ Len(message.offered) \in Nat
      BY <2>1, PlanKindsShape, LenProperties
    <3>. QED  BY <1>1, <2>1, <3>1, <3>2 DEF Sound
  <2>3. \/ delivery.kind = "Encrypted" /\ enc # {} /\ DOMAIN delivery.rcpt_to = enc
           /\ delivery.readers = EncryptionRecipients(message.header_recipients, rcpt_to)
        \/ delivery.kind = "Unencrypted" /\ DOMAIN delivery.rcpt_to = clear
    BY <2>1, <2>2, PlannedFields, KindsCoverParts
  <2>4. \A i \in DOMAIN delivery.rcpt_to : delivery.rcpt_to[i] = rcpt_to[i]
    BY <2>2, PlannedFields
  <2>5. names = NamesOf(DOMAIN delivery.rcpt_to)
    BY <2>4
  <2>6. /\ NamesOf(clear) \subseteq DOMAIN unencrypted_recipients
        /\ NamesOf(enc) \cap DOMAIN unencrypted_recipients = {}
    BY DEF EncryptedPart, UnencryptedPart, IsUnencrypted
  <2>7. /\ NormalizedRecipients(RecipientGroup(rcpt_to, enc)) = NamesOf(enc) \ {NoName}
        /\ NormalizedRecipients(RecipientGroup(rcpt_to, clear)) = NamesOf(clear) \ {NoName}
    BY DEF NormalizedRecipients, RecipientGroup
  <2>. HIDE DEF delivery, names
  <2>8. CASE delivery.kind = "Unencrypted"
    <3>1. names = NamesOf(clear)
      BY <2>3, <2>5, <2>8
    <3>2. ASSUME NEW i \in DOMAIN rcpt_to, ~IsUnencrypted(rcpt_to[i]), NEW name \in names
          PROVE  unencrypted_recipients[name]
      <4>1. enc # {} /\ clear # {}
        BY <3>1, <3>2 DEF EncryptedPart
      <4>2. EveryUnencryptedRecipientAllowsSplit(rcpt_to)
        BY <2>2, <4>1 DEF Plannable, Refused
      <4>. QED  BY <3>1, <3>2, <4>2 DEF EveryUnencryptedRecipientAllowsSplit
    <3>. QED  BY <2>6, <2>8, <3>1, <3>2 DEF delivery, names
  <2>9. CASE delivery.kind = "Encrypted"
    <3>1. /\ names = NamesOf(enc) /\ enc # {}
          /\ delivery.readers = EncryptionRecipients(message.header_recipients, rcpt_to)
      BY <2>3, <2>5, <2>9
    <3>2. delivery.readers # {}
      BY <2>2, <3>1 DEF Plannable
    <3>3. /\ ExcludedRecipients(rcpt_to) \subseteq NamesOf(clear)
          /\ clear # {} => ExcludedRecipients(rcpt_to) = NamesOf(clear) \ {NoName}
      BY <2>7, <3>1 DEF ExcludedRecipients
    <3>4. /\ NamesOf(enc) \ {NoName} \subseteq delivery.readers
          /\ delivery.readers \cap ExcludedRecipients(rcpt_to) = {}
          /\ NoName \notin delivery.readers
      BY <2>1, <2>6, <2>7, <3>1, <3>3 DEF EncryptionRecipients
    <3>5. ASSUME NEW i \in DOMAIN rcpt_to, IsUnencrypted(rcpt_to[i])
          PROVE  normalize_email[rcpt_to[i]] \notin delivery.readers
      <4>1. i \in clear
        BY <3>5 DEF UnencryptedPart
      <4>2. normalize_email[rcpt_to[i]] \in NamesOf(clear)
        BY <4>1
      <4>. QED  BY <3>3, <3>4, <4>1, <4>2
    <3>6. ASSUME NEW name \in message.header_recipients \ delivery.readers
          PROVE  \E i \in DOMAIN rcpt_to :
                   IsUnencrypted(rcpt_to[i]) /\ name = normalize_email[rcpt_to[i]]
      <4>1. name \in NamesOf(clear)
        BY <3>1, <3>3, <3>6 DEF EncryptionRecipients
      <4>. QED  BY <4>1 DEF UnencryptedPart
    <3>. QED  BY <2>6, <2>9, <3>1, <3>2, <3>4, <3>5, <3>6 DEF delivery, names
  <2>. QED  BY <2>3, <2>8, <2>9 DEF delivery, names
<1>2. IInv => ClearOnlyByPolicy
  <2>. SUFFICES ASSUME IInv, NEW c \in Conn, NEW m \in DOMAIN ledger[c]
                PROVE  ledger[c][m] \in Message /\ Sound(ledger[c][m])
    BY <1>1 DEF ClearOnlyByPolicy
  <2>1. ledger[c] \in Seq(Message) /\ SoundLedger(c)
    BY DEF IInv, TypeOK
  <2>. QED  BY <2>1, ElementOfSeq DEF SoundLedger
<1>. QED  BY <1>2, Invariance, PTL

-----------------------------------------------------------------------------
(***************************************************************************)
(* SmtpListener implements RelayPromise.                                   *)
(*                                                                         *)
(* What the promise needs beside IInv: outside the hand-over of a message  *)
(* every message of a session that goes on has its reply.                  *)
(***************************************************************************)
Answered(c) ==
  pc[c] \notin {"prepare", "relay", "closed"} =>
    ledger[c] = <<>> \/ Submission(c).reply # 0

AllAnswered == \A c \in Conn : Answered(c)

(* A final reply, or the end of the session. *)
LEMMA FinishAnswers ==
  ASSUME IInv, NEW c \in Conn, NEW code \in {250, 554},
         pc[c] \in {"prepare", "relay"}, Finish(c, code)
  PROVE  /\ Answered(c)'
         /\ \A d \in Conn : d # c => pc'[d] = pc[d] /\ ledger'[d] = ledger[d]
<1>1. TypeOK /\ Standing(c)
  BY DEF IInv
<1>2. CASE EndSession(c) /\ UNCHANGED ledger
  <2>1. pc'[c] = "closed" /\ \A d \in Conn : d # c => pc'[d] = pc[d]
    BY <1>1, <1>2 DEF EndSession, TypeOK
  <2>. QED  BY <1>2, <2>1 DEF Answered
<1>3. CASE /\ Written(c, ResetTransaction(state[c]), ".", NoSender, code)
           /\ ledger' = [ledger EXCEPT ![c][Len(ledger[c])].reply = code]
  <2> DEFINE last == Len(ledger[c])
             new == [Submission(c) EXCEPT !.reply = code]
  <2>1. ledger[c] # <<>>
    BY <1>1 DEF Standing
  <2>2. last \in 1 .. last /\ Submission(c) \in Message
    BY <1>1, <2>1, SubmissionType
  <2>3. new \in Message /\ new.reply = code
    BY <2>2 DEF Message
  <2>4. Amends(c, last, new)
    BY <1>3 DEF Amends, Submission
  <2>. HIDE DEF new
  <2>5. /\ Submission(c)' = new
        /\ \A d \in Conn : d # c => ledger'[d] = ledger[d]
    BY <1>1, <2>2, <2>3, <2>4, LedgerUpdate DEF Submission
  <2>6. \A d \in Conn : d # c => pc'[d] = pc[d]
    BY <1>1, <1>3 DEF Written, TypeOK
  <2>. QED  BY <2>3, <2>5, <2>6 DEF Answered
<1>. QED  BY <1>2, <1>3 DEF Finish

(***************************************************************************)
(* What Prepare and SendSucceeds do when they call send_message: the next  *)
(* delivery of the plan is offered for a message that has no reply and     *)
(* whose deliveries so far were all taken.                                 *)
(***************************************************************************)
Offers(c) ==
  /\ ledger[c] # <<>>
  /\ Submission(c) \in Message /\ Sound(Submission(c)) /\ Plannable(Submission(c))
  /\ Submission(c).reply = 0
  /\ Submission(c).took = Len(Submission(c).offered)
  /\ Len(Submission(c).offered) < Len(PlanKinds(Submission(c).rcpt_to))
  /\ Amends(c, Len(ledger[c]), NextOffer(Submission(c)))

(* The first delivery is offered when all are prepared. *)
LEMMA PrepareOffers ==
  ASSUME IInv, NEW c \in Conn, Prepare(c)
  PROVE  Offers(c)
<1> DEFINE old  == Submission(c)
           all  == Deliveries(state[c].mail_from, state[c].rcpt_to, old.header_recipients)
           last == Len(ledger[c])
<1>1. TypeOK /\ Standing(c) /\ SoundLedger(c) /\ pc[c] = "prepare"
  BY DEF IInv, Prepare
<1>2. /\ ledger[c] # <<>> /\ old.mail_from = state[c].mail_from
      /\ old.rcpt_to = state[c].rcpt_to /\ old.reply = 0 /\ old.offered = <<>>
  BY <1>1 DEF Standing
<1>3. last \in 1 .. last /\ old \in Message /\ DOMAIN ledger[c] = 1 .. last
  BY <1>1, <1>2, SubmissionType
<1>4. Sound(old) /\ Plannable(old)
  BY <1>1, <1>2, <1>3 DEF SoundLedger, Submission, Prepare, Plannable
<1>5. Len(old.offered) = 0 /\ old.took = 0 /\ Len(PlanKinds(old.rcpt_to)) \in {1, 2}
  BY <1>2, <1>3, <1>4, PlanKindsShape DEF Sound, Message
<1>6. all[1] = Planned(old, Len(old.offered) + 1)
  <2>1. all[1] = Planned(old, 1)
    BY <1>2, <1>3, <1>5, DeliveriesShape DEF Message, Planned
  <2>2. Len(old.offered) + 1 = 1
    BY <1>5
  <2>. HIDE DEF all, old
  <2>. QED  BY <2>1, <2>2
<1>7. /\ deliveries' = [deliveries EXCEPT ![c] = all]
      /\ Offer(c, deliveries'[c][1])
  BY DEF Prepare
<1>. HIDE DEF all
<1>8. Amends(c, last, NextOffer(old))
  <2>1. deliveries'[c] = all
    BY <1>1, <1>7 DEF TypeOK
  <2>2. ledger' = [ledger EXCEPT ![c][last].offered = Append(@, all[1])]
    BY <1>7, <2>1 DEF Offer
  <2>3. ledger' = [ledger EXCEPT ![c] = [ledger[c] EXCEPT ![last] =
                     [old EXCEPT !.offered = Append(@, all[1])]]]
    BY <2>2 DEF Submission
  <2>. QED  BY <1>6, <2>3 DEF Amends, NextOffer
<1>9. old.took = Len(old.offered) /\ Len(old.offered) < Len(PlanKinds(old.rcpt_to))
  <2>. HIDE DEF old
  <2>. QED  BY SMTT(30), <1>5
<1>. QED  BY <1>2, <1>3, <1>4, <1>8, <1>9 DEF Offers

(* The next one is offered when the one before is confirmed. *)
LEMMA ConfirmedOffers ==
  ASSUME IInv, NEW c \in Conn, SendSucceeds(c),
         completed_deliveries[c] + 1 < Len(deliveries[c]),
         Offer(c, deliveries[c][completed_deliveries[c] + 2])
  PROVE  Offers(c)
<1> DEFINE old  == Submission(c)
           k    == completed_deliveries[c]
           last == Len(ledger[c])
<1>1. /\ TypeOK /\ Standing(c) /\ SoundLedger(c) /\ pc[c] = "relay"
      /\ old.took = Len(old.offered)
  BY DEF IInv, SendSucceeds
<1>2. /\ ledger[c] # <<>> /\ old.reply = 0 /\ Plannable(old)
      /\ deliveries[c] = Deliveries(old.mail_from, old.rcpt_to, old.header_recipients)
      /\ Len(old.offered) = k + 1
  BY <1>1 DEF Standing
<1>3. /\ last \in 1 .. last /\ old \in Message /\ DOMAIN ledger[c] = 1 .. last
      /\ k \in Nat
  BY <1>1, <1>2, SubmissionType DEF TypeOK
<1>4. Sound(old)
  BY <1>1, <1>3 DEF SoundLedger, Submission
<1>5. Len(deliveries[c]) = Len(PlanKinds(old.rcpt_to))
  BY <1>2, <1>3, DeliveriesShape DEF Message
<1>6. deliveries[c][k + 2] = Planned(old, Len(old.offered) + 1)
  <2>1. \A n \in 1 .. Len(deliveries[c]) : deliveries[c][n] = Planned(old, n)
    BY <1>2, <1>3, DeliveriesShape DEF Message, Planned
  <2>2. k + 2 \in 1 .. Len(deliveries[c]) /\ Len(old.offered) + 1 = k + 2
    BY <1>2, <1>3, <1>5, PlanKindsShape
  <2>. QED  BY <2>1, <2>2
<1>7. Amends(c, last, NextOffer(old))
  <2>1. ledger' = [ledger EXCEPT ![c] = [ledger[c] EXCEPT ![last] =
                     [old EXCEPT !.offered = Append(@, deliveries[c][k + 2])]]]
    BY DEF Offer, Submission
  <2>. QED  BY <1>6, <2>1 DEF Amends, NextOffer
<1>. QED  BY <1>1, <1>2, <1>3, <1>4, <1>5, <1>7 DEF Offers

(* The remote server takes one of the deliveries offered for a message. *)
LEMMA RemoteAmends ==
  ASSUME IInv, NEW c \in Conn, RemoteTakes(c)
  PROVE  \E m \in 1 .. Len(ledger[c]) :
           /\ ledger[c][m] \in Message
           /\ ledger[c][m].took < Len(ledger[c][m].offered)
           /\ [ledger[c][m] EXCEPT !.took = @ + 1] \in Message
           /\ Amends(c, m, [ledger[c][m] EXCEPT !.took = @ + 1])
<1>1. ledger[c] \in Seq(Message) /\ DOMAIN ledger[c] = 1 .. Len(ledger[c])
  BY LenProperties DEF IInv, TypeOK
<1>2. PICK m \in 1 .. Len(ledger[c]) :
        /\ ledger[c][m].took < Len(ledger[c][m].offered)
        /\ ledger' = [ledger EXCEPT ![c][m].took = @ + 1]
  BY <1>1 DEF RemoteTakes
<1>3. ledger[c][m] \in Message
  BY <1>1, ElementOfSeq
<1>4. [ledger[c][m] EXCEPT !.took = @ + 1] \in Message
  BY <1>3 DEF Message
<1>5. Amends(c, m, [ledger[c][m] EXCEPT !.took = @ + 1])
  BY <1>2 DEF Amends
<1>. QED  BY <1>2, <1>3, <1>4, <1>5

(* Amending a message without touching its reply answers nothing less. *)
LEMMA AmendAnswers ==
  ASSUME TypeOK, AllAnswered, NEW c \in Conn, NEW m \in 1 .. Len(ledger[c]),
         NEW e \in Message, Amends(c, m, e), e.reply = ledger[c][m].reply, UNCHANGED pc
  PROVE  AllAnswered'
<1>1. /\ Len(ledger'[c]) = Len(ledger[c]) /\ ledger'[c] # <<>>
      /\ \A n \in 1 .. Len(ledger[c]) : ledger'[c][n] = IF n = m THEN e ELSE ledger[c][n]
      /\ \A d \in Conn : d # c => ledger'[d] = ledger[d]
  BY LedgerUpdate
<1>2. ledger[c] # <<>> /\ Len(ledger[c]) \in 1 .. Len(ledger[c])
  BY EmptySeq, LenProperties DEF TypeOK
<1>3. Submission(c)'.reply = Submission(c).reply
  BY <1>1, <1>2 DEF Submission
<1>. QED  BY <1>1, <1>2, <1>3 DEF AllAnswered, Answered, Submission

(* Every step keeps it. *)
LEMMA AnsweredKeeps ==
  ASSUME IInv, AllAnswered, [Next]_vars
  PROVE  AllAnswered'
<1>0. TypeOK /\ \A c \in Conn : Standing(c) /\ Answered(c)
  BY DEF IInv, AllAnswered
<1>1. ASSUME NEW c \in Conn, Answered(c)',
             \A d \in Conn : d # c => pc'[d] = pc[d] /\ ledger'[d] = ledger[d]
      PROVE  AllAnswered'
  BY <1>0, <1>1 DEF AllAnswered, Answered, Submission
<1>2. ASSUME NEW c \in Conn, NEW p, pc' = [pc EXCEPT ![c] = p], UNCHANGED ledger,
             pc[c] \notin {"prepare", "relay", "closed"} \/ p = "closed"
      PROVE  AllAnswered'
  <2>1. pc'[c] = p /\ \A d \in Conn : d # c => pc'[d] = pc[d] /\ ledger'[d] = ledger[d]
    BY <1>0, <1>2 DEF TypeOK
  <2>2. Answered(c)'
    BY <1>0, <1>2, <2>1 DEF Answered, Submission
  <2>. QED  BY <1>1, <2>1, <2>2
<1>3. ASSUME NEW c \in Conn,
             \/ Greet(c) \/ Hello(c) \/ Auth(c) \/ AuthResponse(c) \/ Mail(c) \/ Rcpt(c)
             \/ Rset(c) \/ NoopOrUnknown(c) \/ Quit(c) \/ Data(c) \/ ReadEnds(c)
             \/ Cancel(c) \/ Accept(c)
      PROVE  AllAnswered'
  <2>1. /\ UNCHANGED ledger
        /\ \/ pc[c] \in {"unconnected", "accepted", "command", "auth", "data"}
           \/ pc' = [pc EXCEPT ![c] = "closed"]
        /\ \E p : pc' = [pc EXCEPT ![c] = p]
    BY <1>3, ZenonT(60) DEF Greet, Hello, Auth, AuthResponse, Mail, Rcpt, Rset, NoopOrUnknown, Quit,
       Data, ReadEnds, Cancel, Accept, CheckCredentials, Refuse, Respond, Written,
       EndSession, AtCommand, relaying
  <2>. QED  BY <1>2, <2>1
<1>4. ASSUME NEW c \in Conn, DataEnds(c) \/ Prepare(c)
      PROVE  AllAnswered'
  <2>1. /\ \/ pc' = [pc EXCEPT ![c] = "prepare"]
           \/ pc' = [pc EXCEPT ![c] = "relay"]
        /\ \E messages : ledger' = [ledger EXCEPT ![c] = messages]
    BY <1>4, Zenon DEF DataEnds, Prepare, Offer
  <2>2. /\ pc'[c] \in {"prepare", "relay"}
        /\ \A d \in Conn : d # c => pc'[d] = pc[d] /\ ledger'[d] = ledger[d]
    BY <1>0, <2>1 DEF TypeOK
  <2>. QED  BY <1>1, <2>2 DEF Answered
<1>5. ASSUME NEW c \in Conn, NEW code \in {250, 554}, pc[c] \in {"prepare", "relay"},
             Finish(c, code)
      PROVE  AllAnswered'
  BY <1>1, <1>5, FinishAnswers DEF IInv
<1>6. ASSUME NEW c \in Conn, RemoteTakes(c)
      PROVE  AllAnswered'
  <2>1. PICK m \in 1 .. Len(ledger[c]) :
          /\ ledger[c][m] \in Message
          /\ [ledger[c][m] EXCEPT !.took = @ + 1] \in Message
          /\ Amends(c, m, [ledger[c][m] EXCEPT !.took = @ + 1])
    BY <1>6, RemoteAmends
  <2> DEFINE new == [ledger[c][m] EXCEPT !.took = @ + 1]
  <2>2. new \in Message /\ Amends(c, m, new) /\ new.reply = ledger[c][m].reply
    BY <2>1 DEF Message
  <2>. HIDE DEF new
  <2>3. UNCHANGED pc
    BY <1>6 DEF RemoteTakes
  <2>. QED  BY <1>0, <2>2, <2>3, AmendAnswers
<1>7. ASSUME NEW c \in Conn, SendSucceeds(c), Offers(c), UNCHANGED pc
      PROVE  AllAnswered'
  <2>1. /\ Len(ledger[c]) \in 1 .. Len(ledger[c])
        /\ NextOffer(Submission(c)) \in Message
        /\ NextOffer(Submission(c)).reply = Submission(c).reply
    <3>1. Submission(c).mail_from \in Sender
      BY <1>7 DEF Offers, Message
    <3>. QED  BY <1>0, <1>7, <3>1, SubmissionType, OfferSound DEF Offers
  <2>. QED  BY <1>0, <1>7, <2>1, AmendAnswers DEF Offers, Submission
<1>8. ASSUME NEW c \in Conn, SendSucceeds(c)
      PROVE  AllAnswered'
  <2>1. CASE /\ completed_deliveries[c] + 1 < Len(deliveries[c])
             /\ Offer(c, deliveries[c][completed_deliveries[c] + 2])
             /\ UNCHANGED pc
    BY <1>7, <1>8, <2>1, ConfirmedOffers
  <2>2. CASE Finish(c, 250)
    BY <1>5, <1>8, <2>2 DEF SendSucceeds
  <2>. QED  BY <1>8, <2>1, <2>2, Zenon DEF SendSucceeds
<1>9. ASSUME NEW c \in Conn, PrepareFails(c) \/ SendFails(c)
      PROVE  AllAnswered'
  BY <1>5, <1>9 DEF PrepareFails, SendFails
<1>10. ASSUME UNCHANGED <<pc, ledger>>
       PROVE  AllAnswered'
  BY <1>10 DEF AllAnswered, Answered, Submission
<1>11. CtrlC \/ Stop \/ AcceptError \/ Exited \/ UNCHANGED vars => UNCHANGED <<pc, ledger>>
  BY DEF CtrlC, Stop, AcceptError, Exited, vars
<1>12. ASSUME NEW c \in Conn, Session(c) PROVE AllAnswered'
  BY <1>3, <1>4, <1>6, <1>8, <1>9, <1>12, Zenon DEF Session, Client, Task
<1>. QED  BY <1>10, <1>11, <1>12, Zenon DEF Next

-----------------------------------------------------------------------------
(* The ledger as the promise sees it. *)

(* A step that leaves the ledger alone is none of the promise. *)
LEMMA SameBook ==
  ASSUME UNCHANGED ledger
  PROVE  UNCHANGED Book
BY DEF Book

SentAll(offered) == [n \in DOMAIN offered |-> Sent(offered[n])]

(* The deliveries as the promise sees them are as many, in the same order. *)
LEMMA SentAllProperties ==
  ASSUME NEW offered \in Seq(Delivery)
  PROVE  /\ Len(SentAll(offered)) = Len(offered)
         /\ SentAll(<<>>) = <<>>
         /\ \A d \in Delivery :
              SentAll(Append(offered, d)) = Append(SentAll(offered), Sent(d))
<1> DEFINE S == {Sent(d) : d \in Delivery}
<1>1. ASSUME NEW s \in Seq(Delivery)
      PROVE  /\ SentAll(s) \in Seq(S) /\ Len(SentAll(s)) = Len(s)
             /\ \A n \in 1 .. Len(s) : SentAll(s)[n] = Sent(s[n])
  <2>1. DOMAIN s = 1 .. Len(s) /\ Len(s) \in Nat /\ \A n \in 1 .. Len(s) : s[n] \in Delivery
    BY LenProperties, ElementOfSeq
  <2>2. SentAll(s) \in [1 .. Len(s) -> S]
    BY <2>1 DEF SentAll
  <2>3. SentAll(s) \in Seq(S)
    BY <2>1, <2>2, SeqDef
  <2>4. Len(SentAll(s)) = Len(s)
    BY <2>1, <2>2, <2>3, LenProperties
  <2>. QED  BY <2>1, <2>3, <2>4 DEF SentAll
<1>2. SentAll(<<>>) = <<>>
  BY DEF SentAll
<1>3. ASSUME NEW d \in Delivery
      PROVE  SentAll(Append(offered, d)) = Append(SentAll(offered), Sent(d))
  <2> DEFINE s == Append(offered, d)
             t == Append(SentAll(offered), Sent(d))
             k == Len(offered)
  <2>1. /\ k \in Nat /\ s \in Seq(Delivery) /\ Len(s) = k + 1 /\ s[k + 1] = d
        /\ \A n \in 1 .. k : s[n] = offered[n]
    BY LenProperties, AppendProperties
  <2>2. /\ Sent(d) \in S /\ SentAll(offered) \in Seq(S) /\ Len(SentAll(offered)) = k
        /\ \A n \in 1 .. k : SentAll(offered)[n] = Sent(offered[n])
    BY <1>1
  <2>3. /\ SentAll(s) \in Seq(S) /\ Len(SentAll(s)) = k + 1
        /\ \A n \in 1 .. k + 1 : SentAll(s)[n] = Sent(s[n])
    BY <1>1, <2>1
  <2>. HIDE DEF S, s
  <2>4. /\ t \in Seq(S) /\ Len(t) = k + 1 /\ t[k + 1] = Sent(d)
        /\ \A n \in 1 .. k : t[n] = Sent(offered[n])
    BY <2>1, <2>2, AppendProperties
  <2>. HIDE DEF t
  <2>5. \A n \in 1 .. k + 1 : SentAll(s)[n] = t[n]
    BY <2>1, <2>3, <2>4
  <2>6. SentAll(s) = t
    BY <2>1, <2>3, <2>4, <2>5, SeqEqual
  <2>. QED  BY <2>6 DEF s, t
<1>. QED  BY <1>1, <1>2, <1>3

(* A message of the book and its updates, field by field. *)
Entry(mail_from, rcpt_to, offered, took, reply) ==
  [mail_from |-> mail_from, rcpt_to |-> rcpt_to, offered |-> offered,
   took |-> took, reply |-> reply]

LEMMA SeenEntry ==
  ASSUME NEW x
  PROVE  Seen(x) = Entry(x.mail_from, x.rcpt_to, SentAll(x.offered), x.took, x.reply)
BY DEF Seen, SentAll, Entry

LEMMA EntryUpdates ==
  ASSUME NEW a, NEW b, NEW f, NEW t, NEW r, NEW v
  PROVE  /\ [Entry(a, b, f, t, r) EXCEPT !.offered = v] = Entry(a, b, v, t, r)
         /\ [Entry(a, b, f, t, r) EXCEPT !.took = v] = Entry(a, b, f, v, r)
         /\ [Entry(a, b, f, t, r) EXCEPT !.reply = v] = Entry(a, b, f, t, v)
         /\ Entry(a, b, f, t, r).offered = f /\ Entry(a, b, f, t, r).took = t
BY DEF Entry

Seens == {Seen(message) : message \in Message}

(* The messages of one connection as the promise sees them. *)
LEMMA BookProperties ==
  ASSUME TypeOK, NEW c \in Conn
  PROVE  /\ Book[c] \in Seq(Seens) /\ Len(Book[c]) = Len(ledger[c])
         /\ DOMAIN Book[c] = 1 .. Len(ledger[c])
         /\ Book[c] = <<>> <=> ledger[c] = <<>>
         /\ \A m \in 1 .. Len(ledger[c]) : Book[c][m] = Seen(ledger[c][m])
<1>1. /\ ledger[c] \in Seq(Message) /\ Len(ledger[c]) \in Nat
      /\ DOMAIN ledger[c] = 1 .. Len(ledger[c])
      /\ \A m \in 1 .. Len(ledger[c]) : ledger[c][m] \in Message
  BY LenProperties, ElementOfSeq DEF TypeOK
<1>2. Book[c] = [m \in 1 .. Len(ledger[c]) |-> Seen(ledger[c][m])]
  BY <1>1 DEF Book
<1>3. Book[c] \in [1 .. Len(ledger[c]) -> Seens]
  BY <1>1, <1>2 DEF Seens
<1>4. Book[c] \in Seq(Seens)
  BY <1>1, <1>3, SeqDef
<1>5. Len(Book[c]) = Len(ledger[c])
  BY <1>1, <1>3, <1>4, LenProperties
<1>6. Book[c] = <<>> <=> ledger[c] = <<>>
  BY <1>1, <1>4, <1>5, EmptySeq
<1>. QED  BY <1>2, <1>3, <1>4, <1>5, <1>6

(* Amending a message of the ledger amends it in the book. *)
LEMMA BookAmend ==
  ASSUME TypeOK, NEW c \in Conn, NEW m \in 1 .. Len(ledger[c]), NEW e \in Message,
         Amends(c, m, e)
  PROVE  Book' = [Book EXCEPT ![c] = [Book[c] EXCEPT ![m] = Seen(e)]]
<1>1. /\ DOMAIN ledger'[c] = 1 .. Len(ledger[c])
      /\ \A n \in 1 .. Len(ledger[c]) : ledger'[c][n] = IF n = m THEN e ELSE ledger[c][n]
      /\ \A d \in Conn : d # c => ledger'[d] = ledger[d]
  BY LedgerUpdate
<1>2. DOMAIN ledger[c] = 1 .. Len(ledger[c])
  BY LenProperties DEF TypeOK
<1> DEFINE old == [n \in 1 .. Len(ledger[c]) |-> Seen(ledger[c][n])]
           new == [n \in 1 .. Len(ledger[c]) |-> Seen(ledger'[c][n])]
<1>3. new = [old EXCEPT ![m] = Seen(e)]
  BY <1>1
<1>4. Book[c] = old /\ Book'[c] = new
  BY <1>1, <1>2 DEF Book
<1>5. \A d \in Conn : d # c => Book'[d] = Book[d]
  BY <1>1 DEF Book
<1>6. Book = [d \in Conn |-> Book[d]] /\ Book' = [d \in Conn |-> Book'[d]]
  BY DEF Book
<1>. HIDE DEF old, new
<1>. QED  BY <1>3, <1>4, <1>5, <1>6

(* The two modules split the recipients of a message alike. *)
LEMMA SamePlan ==
  ASSUME NEW rcpt_to \in Recipients
  PROVE  /\ Promise!Sealed(rcpt_to) = EncryptedPart(rcpt_to)
         /\ Promise!Clear(rcpt_to) = UnencryptedPart(rcpt_to)
         /\ Promise!Owed(rcpt_to) = PlanKinds(rcpt_to)
         /\ ~Refused(rcpt_to) => Promise!Permitted(rcpt_to)
<1>1. \A i \in DOMAIN rcpt_to : rcpt_to[i] \in Address
  BY LenProperties, ElementOfSeq DEF Recipients
<1>2. Promise!Sealed(rcpt_to) = EncryptedPart(rcpt_to)
  BY <1>1 DEF Promise!Sealed, EncryptedPart, ExemptAddresses
<1>3. Promise!Clear(rcpt_to) = UnencryptedPart(rcpt_to)
  BY <1>2 DEF Promise!Clear, EncryptedPart, UnencryptedPart
<1>4. Promise!Owed(rcpt_to) = PlanKinds(rcpt_to)
  BY <1>2, <1>3 DEF Promise!Owed, PlanKinds
<1>5. ~Refused(rcpt_to) => Promise!Permitted(rcpt_to)
  BY <1>1, <1>2, <1>3
  DEF Promise!Permitted, Refused, UnencryptedPart, EveryUnencryptedRecipientAllowsSplit,
      SplitAddresses, ExemptAddresses
<1>. QED  BY <1>2, <1>3, <1>4, <1>5

(* The message a session works on is the latest one of the promise. *)
LEMMA LatestSubmission ==
  ASSUME TypeOK, NEW c \in Conn, ledger[c] # <<>>
  PROVE  /\ Promise!Latest(c) = Seen(Submission(c))
         /\ Len(Book[c]) = Len(ledger[c])
         /\ Promise!Pending(c) <=> Submission(c).reply = 0
         /\ Promise!AllTaken(Promise!Latest(c)) <=>
              Submission(c).took = Len(Submission(c).offered)
<1>1. Len(ledger[c]) \in 1 .. Len(ledger[c]) /\ Submission(c) \in Message
  BY SubmissionType
<1>2. Promise!Latest(c) = Seen(Submission(c)) /\ Book[c] # <<>>
  BY <1>1, BookProperties DEF Promise!Latest, Submission
<1>3. Len(Seen(Submission(c)).offered) = Len(Submission(c).offered)
  <2>1. Submission(c).offered \in Seq(Delivery)
    BY <1>1 DEF Message
  <2>. QED  BY <2>1, SentAllProperties DEF Seen, SentAll
<1>4. Promise!Pending(c) <=> Submission(c).reply = 0
  BY <1>2 DEF Promise!Pending, Seen
<1>5. Promise!AllTaken(Promise!Latest(c)) <=>
        Submission(c).took = Len(Submission(c).offered)
  BY <1>2, <1>3 DEF Promise!AllTaken, Seen
<1>. QED  BY <1>2, <1>4, <1>5, BookProperties

-----------------------------------------------------------------------------
(* The steps of the hand-over are steps of the promise. *)

(* A message submitted. *)
LEMMA DataEndsSubmits ==
  ASSUME IInv, AllAnswered, NEW c \in Conn, DataEnds(c)
  PROVE  Promise!Submit(c)
<1>1. TypeOK /\ Standing(c) /\ Answered(c) /\ pc[c] = "data"
  BY DEF IInv, AllAnswered, DataEnds
<1>2. ~Promise!Pending(c)
  <2>1. ledger[c] = <<>> \/ Submission(c).reply # 0
    BY <1>1 DEF Answered
  <2>2. CASE ledger[c] = <<>>
    BY <1>1, <2>2, BookProperties DEF Promise!Pending
  <2>3. CASE ledger[c] # <<>> /\ Submission(c).reply # 0
    BY <1>1, <2>3, LatestSubmission
  <2>. QED  BY <2>1, <2>2, <2>3
<1>3. PICK headers \in Headers :
        ledger' = [ledger EXCEPT ![c] = Append(@,
                    [mail_from |-> wire[c].mail_from, rcpt_to |-> wire[c].rcpt_to,
                     header_recipients |-> headers,
                     offered |-> <<>>, took |-> 0, reply |-> 0])]
  BY DEF DataEnds
<1> DEFINE new  == [mail_from |-> wire[c].mail_from, rcpt_to |-> wire[c].rcpt_to,
                    header_recipients |-> headers,
                    offered |-> <<>>, took |-> 0, reply |-> 0]
           seen == [mail_from |-> wire[c].mail_from, rcpt_to |-> wire[c].rcpt_to,
                    offered |-> <<>>, took |-> 0, reply |-> 0]
           n    == Len(wire[c].rcpt_to)
<1>4. /\ wire[c].mail_from \in Sender /\ wire[c].rcpt_to \in Recipients
      /\ wire[c].rcpt_to # <<>>
  BY <1>1 DEF Standing, TypeOK
<1>5. n \in 1 .. MaxRcpt /\ wire[c].rcpt_to \in [1 .. n -> Address]
  BY <1>4, EmptySeq, LenProperties, SmtpListenerAssumption DEF Recipients
<1>6. new \in Message /\ Seen(new) = seen
  <2>1. new \in Message
    BY <1>4, EmptySeq DEF Message
  <2>2. Seen(new) = seen
    BY SentAllProperties, EmptySeq DEF Seen, SentAll
  <2>. QED  BY <2>1, <2>2
<1>7. ledger[c] \in Seq(Message) /\ ledger' = [ledger EXCEPT ![c] = Append(ledger[c], new)]
  BY <1>1, <1>3 DEF TypeOK
<1>. HIDE DEF new, seen, n
<1> DEFINE k == Len(ledger[c])
<1>8. /\ k \in Nat /\ DOMAIN Append(ledger[c], new) = 1 .. k + 1
      /\ Append(ledger[c], new)[k + 1] = new
      /\ \A m \in 1 .. k : Append(ledger[c], new)[m] = ledger[c][m]
  BY <1>6, <1>7, AppendProperties, LenProperties
<1>9. /\ ledger'[c] = Append(ledger[c], new)
      /\ \A d \in Conn : d # c => ledger'[d] = ledger[d]
  BY <1>1, <1>7 DEF TypeOK
<1>10. Book'[c] = Append(Book[c], seen) /\ Len(Book'[c]) = Len(Book[c]) + 1
  <2>1. /\ Book[c] \in Seq(Seens) /\ Len(Book[c]) = k
        /\ \A m \in 1 .. k : Book[c][m] = Seen(ledger[c][m])
    BY <1>1, BookProperties
  <2>2. seen \in Seens
    BY <1>6 DEF Seens
  <2>3. /\ Append(Book[c], seen) \in Seq(Seens) /\ Len(Append(Book[c], seen)) = k + 1
        /\ DOMAIN Append(Book[c], seen) = 1 .. k + 1
        /\ Append(Book[c], seen)[k + 1] = seen
        /\ \A m \in 1 .. k : Append(Book[c], seen)[m] = Seen(ledger[c][m])
    BY <1>8, <2>1, <2>2, AppendProperties, LenProperties
  <2>4. Book'[c] = [m \in 1 .. k + 1 |-> Seen(Append(ledger[c], new)[m])]
    BY <1>8, <1>9 DEF Book
  <2>5. Append(Book[c], seen) = [m \in 1 .. k + 1 |-> Append(Book[c], seen)[m]]
    BY <2>3, SeqDef
  <2>6. \A m \in 1 .. k + 1 : Append(Book[c], seen)[m] = Seen(Append(ledger[c], new)[m])
    BY <1>6, <1>8, <2>3
  <2>. QED  BY <2>1, <2>3, <2>4, <2>5, <2>6
<1>11. Book' = [Book EXCEPT ![c] = Append(@, seen)]
  <2>1. \A d \in Conn : d # c => Book'[d] = Book[d]
    BY <1>9 DEF Book
  <2>2. Book = [d \in Conn |-> Book[d]] /\ Book' = [d \in Conn |-> Book'[d]]
    BY DEF Book
  <2>. QED  BY <1>10, <2>1, <2>2
<1>. QED  BY <1>2, <1>4, <1>5, <1>10, <1>11 DEF Promise!Submit, seen

(* A delivery offered. *)
LEMMA OffersOffers ==
  ASSUME IInv, NEW c \in Conn, Offers(c)
  PROVE  Promise!Offer(c)
<1> DEFINE old  == Submission(c)
           one  == Planned(old, Len(old.offered) + 1)
           kind == PlanKinds(old.rcpt_to)[Len(old.offered) + 1]
<1>1. /\ TypeOK /\ ledger[c] # <<>> /\ old \in Message /\ Sound(old) /\ Plannable(old)
      /\ old.reply = 0 /\ old.took = Len(old.offered)
      /\ Len(old.offered) < Len(PlanKinds(old.rcpt_to))
      /\ old.mail_from \in Sender /\ old.rcpt_to \in Recipients
      /\ old.offered \in Seq(Delivery)
  BY DEF Offers, IInv, Message
<1>2. NextOffer(old) \in Message
  <2>. HIDE DEF old
  <2>. QED  BY <1>1, OfferSound
<1>3. Book' = [Book EXCEPT ![c] = [Book[c] EXCEPT ![Len(ledger[c])] = Seen(NextOffer(old))]]
  BY <1>1, <1>2, SubmissionType, BookAmend DEF Offers
<1>4. /\ Promise!Latest(c) = Seen(old) /\ Len(Book[c]) = Len(ledger[c])
      /\ Promise!Pending(c) /\ Promise!AllTaken(Promise!Latest(c))
  BY <1>1, LatestSubmission
<1>. HIDE DEF old
<1>5. /\ Seen(old).rcpt_to = old.rcpt_to /\ Seen(old).mail_from = old.mail_from
      /\ Seen(old).took = old.took /\ Seen(old).offered = SentAll(old.offered)
  BY DEF Seen, SentAll
<1>6. Promise!Owed(old.rcpt_to) = PlanKinds(old.rcpt_to) /\ Promise!Permitted(old.rcpt_to)
  BY <1>1, SamePlan DEF Plannable
<1>7. Sent(one) = Promise!Delivery(Seen(old), kind)
  BY <1>1, <1>5, SamePlan
  DEF Sent, Planned, PreparedDelivery, RecipientGroup, Promise!Delivery
<1>8. one \in Delivery
  <2>1. kind \in {"Encrypted", "Unencrypted"}
    <3>1. Len(old.offered) \in Nat
      BY <1>1, LenProperties
    <3>. QED  BY <1>1, <3>1, PlanKindsShape, ElementOfSeq
  <2>. QED  BY <1>1, <2>1, PreparedDeliveryType DEF Planned, Message
<1>. HIDE DEF one, kind
<1>9. Seen(NextOffer(old)) =
        [Seen(old) EXCEPT !.offered = Append(@, Promise!Delivery(Seen(old), kind))]
  <2> DEFINE next == NextOffer(old)
  <2>1. /\ next.mail_from = old.mail_from /\ next.rcpt_to = old.rcpt_to
        /\ next.offered = Append(old.offered, one)
        /\ next.took = old.took /\ next.reply = old.reply
    <3> DEFINE more == Append(old.offered, one)
    <3>1. next = [old EXCEPT !.offered = more]
      BY DEF NextOffer, one
    <3>. HIDE DEF next, more
    <3>2. /\ next.mail_from = old.mail_from /\ next.rcpt_to = old.rcpt_to
          /\ next.offered = more /\ next.took = old.took /\ next.reply = old.reply
      BY <1>1, <3>1 DEF Message
    <3>. QED  BY <3>2 DEF more
  <2>. HIDE DEF next
  <2>2. SentAll(Append(old.offered, one)) = Append(SentAll(old.offered), Sent(one))
    BY <1>1, <1>8, SentAllProperties
  <2> DEFINE all == SentAll(old.offered)
  <2>3. Seen(next) = Entry(old.mail_from, old.rcpt_to, Append(all, Sent(one)),
                           old.took, old.reply)
    BY <2>1, <2>2, SeenEntry
  <2>4. Seen(old) = Entry(old.mail_from, old.rcpt_to, all, old.took, old.reply)
    BY SeenEntry
  <2>. HIDE DEF all
  <2>5. Seen(old).offered = all
    BY <2>4, EntryUpdates
  <2> DEFINE more == Append(all, Sent(one))
  <2>6. Seen(next) = Entry(old.mail_from, old.rcpt_to, more, old.took, old.reply)
    BY <2>3
  <2>. HIDE DEF more
  <2>7. [Seen(old) EXCEPT !.offered = more] = Seen(next)
    BY <2>4, <2>6, EntryUpdates
  <2>8. [Seen(old) EXCEPT !.offered = Append(@, Sent(one))] = Seen(next)
    BY <2>5, <2>7 DEF more
  <2>. QED  BY <1>7, <2>8 DEF next
<1>10. /\ Promise!Permitted(Promise!Latest(c).rcpt_to)
       /\ Promise!Latest(c).took < Len(Promise!Owed(Promise!Latest(c).rcpt_to))
       /\ Promise!Owed(Promise!Latest(c).rcpt_to)[Promise!Latest(c).took + 1] = kind
  BY <1>1, <1>4, <1>5, <1>6 DEF kind
<1>11. Book' = [Book EXCEPT ![c] = [Book[c] EXCEPT ![Len(Book[c])] =
         [Promise!Latest(c) EXCEPT !.offered =
            Append(@, Promise!Delivery(Promise!Latest(c), kind))]]]
  BY <1>3, <1>4, <1>9
<1>12. Book' = [Book EXCEPT ![c][Len(Book[c])].offered =
         Append(@, Promise!Delivery(Promise!Latest(c), kind))]
  BY <1>11 DEF Promise!Latest
<1>. QED  BY <1>4, <1>10, <1>12 DEF Promise!Offer

(* A delivery taken. *)
LEMMA RemoteTakesTakes ==
  ASSUME IInv, NEW c \in Conn, RemoteTakes(c)
  PROVE  Promise!Take(c)
<1>1. TypeOK
  BY DEF IInv
<1>2. PICK m \in 1 .. Len(ledger[c]) :
        /\ ledger[c][m] \in Message
        /\ ledger[c][m].took < Len(ledger[c][m].offered)
        /\ [ledger[c][m] EXCEPT !.took = @ + 1] \in Message
        /\ Amends(c, m, [ledger[c][m] EXCEPT !.took = @ + 1])
  BY RemoteAmends
<1> DEFINE old == ledger[c][m]
           new == [old EXCEPT !.took = @ + 1]
<1>3. Book' = [Book EXCEPT ![c] = [Book[c] EXCEPT ![m] = Seen(new)]]
  BY <1>1, <1>2, BookAmend
<1>4. DOMAIN Book[c] = 1 .. Len(ledger[c]) /\ Book[c][m] = Seen(old)
  BY <1>1, BookProperties
<1>5. Seen(new) = [Seen(old) EXCEPT !.took = @ + 1]
  <2>1. /\ new.mail_from = old.mail_from /\ new.rcpt_to = old.rcpt_to
        /\ new.offered = old.offered /\ new.took = old.took + 1 /\ new.reply = old.reply
    BY <1>2 DEF Message
  <2>. HIDE DEF old, new
  <2> DEFINE more == old.took + 1
  <2>2. Seen(old) = Entry(old.mail_from, old.rcpt_to, SentAll(old.offered),
                          old.took, old.reply)
    BY SeenEntry
  <2>3. Seen(new) = Entry(old.mail_from, old.rcpt_to, SentAll(old.offered),
                          more, old.reply)
    BY <2>1, SeenEntry
  <2>. HIDE DEF more
  <2>4. Seen(new) = [Seen(old) EXCEPT !.took = more] /\ Seen(old).took = old.took
    BY <2>2, <2>3, EntryUpdates
  <2>. QED  BY <2>4 DEF more
<1>6. ~Promise!AllTaken(Book[c][m])
  <2>1. old.offered \in Seq(Delivery) /\ old.took \in Nat
    BY <1>2 DEF Message
  <2>2. Len(Seen(old).offered) = Len(old.offered) /\ Seen(old).took = old.took
    BY <2>1, SentAllProperties DEF Seen, SentAll
  <2>. QED  BY <1>2, <1>4, <2>1, <2>2, LenProperties DEF Promise!AllTaken
<1>7. Book' = [Book EXCEPT ![c][m].took = @ + 1]
  BY <1>3, <1>4, <1>5
<1>. QED  BY <1>4, <1>6, <1>7 DEF Promise!Take

(* The final reply, unless the session ends before it is written. *)
Replies(c, code) ==
  \/ UNCHANGED Book
  \/ Book' = [Book EXCEPT ![c][Len(Book[c])].reply = code]

LEMMA FinishReplies ==
  ASSUME IInv, NEW c \in Conn, NEW code \in {250, 554},
         pc[c] \in {"prepare", "relay"}, Finish(c, code)
  PROVE  Promise!Pending(c) /\ Replies(c, code)
<1> DEFINE old == Submission(c)
           new == [old EXCEPT !.reply = code]
<1>1. TypeOK /\ ledger[c] # <<>> /\ old.reply = 0
  BY DEF IInv, Standing
<1>2. /\ Promise!Latest(c) = Seen(old) /\ Len(Book[c]) = Len(ledger[c])
      /\ Promise!Pending(c)
  BY <1>1, LatestSubmission
<1>3. CASE EndSession(c) /\ UNCHANGED ledger
  BY <1>2, <1>3, SameBook DEF Replies
<1>4. CASE ledger' = [ledger EXCEPT ![c][Len(ledger[c])].reply = code]
  <2>1. Len(ledger[c]) \in 1 .. Len(ledger[c]) /\ old \in Message
    BY <1>1, SubmissionType
  <2>2. new \in Message /\ Seen(new) = [Seen(old) EXCEPT !.reply = code]
    <3>1. /\ new \in Message
          /\ new.mail_from = old.mail_from /\ new.rcpt_to = old.rcpt_to
          /\ new.offered = old.offered /\ new.took = old.took /\ new.reply = code
      BY <2>1 DEF Message
    <3>. HIDE DEF old, new
    <3>2. Seen(old) = Entry(old.mail_from, old.rcpt_to, SentAll(old.offered),
                            old.took, old.reply)
      BY SeenEntry
    <3>3. Seen(new) = Entry(old.mail_from, old.rcpt_to, SentAll(old.offered),
                            old.took, code)
      BY <3>1, SeenEntry
    <3>4. [Seen(old) EXCEPT !.reply = code] = Seen(new)
      BY <3>2, <3>3, SMT DEF Entry
    <3>. QED  BY <3>1, <3>4
  <2>3. Amends(c, Len(ledger[c]), new)
    BY <1>4 DEF Amends, Submission
  <2>4. Book' = [Book EXCEPT ![c] = [Book[c] EXCEPT ![Len(ledger[c])] = Seen(new)]]
    BY <1>1, <2>1, <2>2, <2>3, BookAmend
  <2>. HIDE DEF old, new
  <2>5. Book' = [Book EXCEPT ![c][Len(Book[c])].reply = code]
    BY <1>2, <2>2, <2>4 DEF Promise!Latest
  <2>. QED  BY <1>2, <2>5, Zenon DEF Replies
<1>. QED  BY <1>3, <1>4 DEF Finish

(* All that is owed was taken when a message is confirmed. *)
LEMMA ConfirmsAll ==
  ASSUME IInv, NEW c \in Conn, SendSucceeds(c), Finish(c, 250),
         completed_deliveries[c] + 1 = Len(deliveries[c])
  PROVE  Promise!Confirm(c) \/ UNCHANGED Book
<1> DEFINE old == Submission(c)
<1>1. /\ TypeOK /\ Standing(c) /\ pc[c] = "relay" /\ old.took = Len(old.offered)
      /\ ledger[c] # <<>>
  BY DEF IInv, SendSucceeds, Standing
<1>2. /\ deliveries[c] = Deliveries(old.mail_from, old.rcpt_to, old.header_recipients)
      /\ Len(old.offered) = completed_deliveries[c] + 1
  BY <1>1 DEF Standing
<1>3. old \in Message
  BY <1>1, SubmissionType
<1>4. Len(deliveries[c]) = Len(PlanKinds(old.rcpt_to))
  BY <1>2, <1>3, DeliveriesShape DEF Message
<1>5. Promise!Owed(old.rcpt_to) = PlanKinds(old.rcpt_to)
  BY <1>3, SamePlan DEF Message
<1>6. Promise!Latest(c) = Seen(old) /\ Promise!AllTaken(Promise!Latest(c))
  BY <1>1, LatestSubmission
<1>7. Promise!Latest(c).took = Len(Promise!Owed(Promise!Latest(c).rcpt_to))
  <2>1. Seen(old).took = old.took /\ Seen(old).rcpt_to = old.rcpt_to
    BY DEF Seen
  <2>. HIDE DEF old
  <2>. QED  BY <1>1, <1>2, <1>4, <1>5, <1>6, <2>1
<1>8. Promise!Pending(c) /\ Replies(c, 250)
  BY <1>1, FinishReplies
<1>. QED  BY <1>6, <1>7, <1>8, Zenon DEF Promise!Confirm, Replies

(* Every step of a session is a step of the promise or none of it. *)
LEMMA SessionPromises ==
  ASSUME IInv, AllAnswered, NEW c \in Conn, Session(c)
  PROVE  Promise!Next \/ UNCHANGED Book
<1>1. CASE DataEnds(c)
  BY <1>1, DataEndsSubmits DEF Promise!Next
<1>2. CASE Prepare(c)
  BY <1>2, PrepareOffers, OffersOffers DEF Promise!Next
<1>3. CASE RemoteTakes(c)
  BY <1>3, RemoteTakesTakes DEF Promise!Next
<1>4. CASE PrepareFails(c) \/ SendFails(c)
  <2>1. pc[c] \in {"prepare", "relay"} /\ Finish(c, 554)
    BY <1>4 DEF PrepareFails, SendFails
  <2>2. Promise!Refuse(c) \/ UNCHANGED Book
    <3>1. Promise!Pending(c) /\ Replies(c, 554)
      BY <2>1, FinishReplies
    <3>. QED  BY <3>1, Zenon DEF Promise!Refuse, Replies
  <2>. QED  BY <2>2 DEF Promise!Next
<1>5. CASE SendSucceeds(c)
  <2>1. CASE /\ completed_deliveries[c] + 1 < Len(deliveries[c])
             /\ Offer(c, deliveries[c][completed_deliveries[c] + 2])
    BY <1>5, <2>1, ConfirmedOffers, OffersOffers DEF Promise!Next
  <2>2. CASE completed_deliveries[c] + 1 = Len(deliveries[c]) /\ Finish(c, 250)
    BY <1>5, <2>2, ConfirmsAll DEF Promise!Next
  <2>. QED  BY <1>5, <2>1, <2>2, Zenon DEF SendSucceeds
<1>6. CASE \/ Greet(c) \/ Hello(c) \/ Auth(c) \/ AuthResponse(c) \/ Mail(c) \/ Rcpt(c)
           \/ Rset(c) \/ NoopOrUnknown(c) \/ Quit(c) \/ Data(c) \/ ReadEnds(c)
           \/ Cancel(c) \/ Accept(c)
  <2>1. UNCHANGED ledger
    BY <1>6, Zenon DEF Greet, Hello, Auth, AuthResponse, Mail, Rcpt, Rset, NoopOrUnknown,
       Quit, Data, ReadEnds, Cancel, Accept
  <2>. QED  BY <2>1, SameBook
<1>. QED  BY <1>1, <1>2, <1>3, <1>4, <1>5, <1>6, Zenon DEF Session, Client, Task

(***************************************************************************)
(* The relay keeps its promise: under every interleaving of any number of  *)
(* sessions, whatever fails and whenever it stops, each delivery of a      *)
(* message is offered once, in order and after the one before was taken,   *)
(* "250 message relayed" comes only when all of them were, and a message   *)
(* with a reply is offered nothing more.                                   *)
(***************************************************************************)
THEOREM KeepsThePromise == Spec => KeepsPromise
<1>1. Init => Promise!Init
  <2>. SUFFICES ASSUME Init PROVE Promise!Init
    OBVIOUS
  <2>1. \A c \in Conn : [m \in DOMAIN ledger[c] |-> Seen(ledger[c][m])] = <<>>
    BY DEF Init
  <2>. QED  BY <2>1 DEF Promise!Init, Book
<1>2. Init => AllAnswered
  BY DEF Init, AllAnswered, Answered
<1>3. IInv /\ AllAnswered /\ [Next]_vars => AllAnswered'
  BY AnsweredKeeps
<1>4. IInv /\ AllAnswered /\ [Next]_vars => [Promise!Next]_Book
  <2>. SUFFICES ASSUME IInv, AllAnswered, [Next]_vars
                PROVE  Promise!Next \/ UNCHANGED Book
    OBVIOUS
  <2>1. ASSUME NEW c \in Conn, Session(c) PROVE Promise!Next \/ UNCHANGED Book
    BY <2>1, SessionPromises
  <2>2. CtrlC \/ Stop \/ AcceptError \/ Exited \/ UNCHANGED vars => UNCHANGED ledger
    BY DEF CtrlC, Stop, AcceptError, Exited, vars
  <2>. QED  BY <2>1, <2>2, SameBook, Zenon DEF Next
<1>. QED  BY <1>1, <1>2, <1>3, <1>4, Invariance, PTL DEF Spec, KeepsPromise, Promise!Spec
=============================================================================

----------------------------- MODULE RelayPromise -----------------------------
(***************************************************************************)
(* What the relay promises about a submitted message, without sessions,    *)
(* commands or causes of failure.  A message owes one delivery to its      *)
(* recipients without a configured exception, encrypted, and then one to   *)
(* those with an exception, in clear; it owes nothing when the two may not *)
(* be mixed.  Each delivery is offered to the remote server once, in that  *)
(* order and only after the one before was taken.  The message is          *)
(* confirmed only when all it owes is taken and may be refused at any time *)
(* before; afterwards nothing is offered for it, though an offer made      *)
(* before a refusal may still be taken.                                    *)
(***************************************************************************)
EXTENDS Naturals, Sequences

CONSTANTS
  Conn,         \* who submits
  Sender, Address,
  MaxRcpt,      \* bound of the model: recipients of a message
  Exempt,       \* addresses that may be sent to in clear
  SplitExempt   \* those of them that may be so beside encrypted recipients

VARIABLE book   \* per connection, its messages: what was submitted, the
                \* deliveries offered, how many of them were taken, and the
                \* final reply (0: none)

Sealed(rcpt_to) == {i \in DOMAIN rcpt_to : rcpt_to[i] \notin Exempt}
Clear(rcpt_to)  == DOMAIN rcpt_to \ Sealed(rcpt_to)

Permitted(rcpt_to) ==
  Sealed(rcpt_to) = {} \/ \A i \in Clear(rcpt_to) : rcpt_to[i] \in SplitExempt

(* The kinds of delivery a message may see, in order. *)
Owed(rcpt_to) ==
  IF Clear(rcpt_to) = {} THEN <<"Encrypted">>
  ELSE IF Sealed(rcpt_to) = {} THEN <<"Unencrypted">>
  ELSE <<"Encrypted", "Unencrypted">>

(* The delivery of a kind: where it comes from and whom it goes to. *)
Delivery(message, kind) ==
  [kind |-> kind, mail_from |-> message.mail_from,
   rcpt_to |-> [i \in IF kind = "Encrypted" THEN Sealed(message.rcpt_to)
                                            ELSE Clear(message.rcpt_to)
                  |-> message.rcpt_to[i]]]

-----------------------------------------------------------------------------
Init == book = [c \in Conn |-> <<>>]

Latest(c) == book[c][Len(book[c])]

Pending(c) == book[c] # <<>> /\ Latest(c).reply = 0

(* The length comes first: checked as a property, it spares trying every *)
(* message on the steps that submit none.                                *)
Submit(c) ==
  /\ ~Pending(c)
  /\ Len(book'[c]) = Len(book[c]) + 1
  /\ \E sender \in Sender, n \in 1 .. MaxRcpt : \E rcpt_to \in [1 .. n -> Address] :
       book' = [book EXCEPT ![c] = Append(@,
                  [mail_from |-> sender, rcpt_to |-> rcpt_to,
                   offered |-> <<>>, took |-> 0, reply |-> 0])]

AllTaken(message) == message.took = Len(message.offered)

Offer(c) ==
  /\ Pending(c)
  /\ Permitted(Latest(c).rcpt_to)
  /\ AllTaken(Latest(c))
  /\ Latest(c).took < Len(Owed(Latest(c).rcpt_to))
  /\ book' = [book EXCEPT ![c][Len(book[c])].offered = Append(@,
       Delivery(Latest(c), Owed(Latest(c).rcpt_to)[Latest(c).took + 1]))]

Take(c) ==
  \E m \in DOMAIN book[c] :
    /\ ~AllTaken(book[c][m])
    /\ book' = [book EXCEPT ![c][m].took = @ + 1]

Confirm(c) ==
  /\ Pending(c)
  /\ AllTaken(Latest(c))
  /\ Latest(c).took = Len(Owed(Latest(c).rcpt_to))
  /\ book' = [book EXCEPT ![c][Len(book[c])].reply = 250]

Refuse(c) ==
  /\ Pending(c)
  /\ book' = [book EXCEPT ![c][Len(book[c])].reply = 554]

Next ==
  \E c \in Conn : Submit(c) \/ Offer(c) \/ Take(c) \/ Confirm(c) \/ Refuse(c)

Spec == Init /\ [][Next]_book
=============================================================================

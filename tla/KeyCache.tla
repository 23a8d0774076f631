-------------------------------- MODULE KeyCache --------------------------------
(***************************************************************************)
(* The resolution of certificates and the cache the sessions share         *)
(* (prepare_encrypted_delivery and resolve_recipient_certs, openpgp.rs),   *)
(* while the owners of keys replace them.  A lookup holds the lock of the  *)
(* cache while it reads and again while it stores, but not between, so     *)
(* sessions that miss together fetch together and store in any order.      *)
(*                                                                         *)
(* Time is what http_timeout_secs and key_cache_ttl_secs count; computing  *)
(* and waiting for the lock take none.  A certificate is the version of    *)
(* its owner's key it came with; all key services hold the owner's latest, *)
(* when they answer at all.                                                *)
(***************************************************************************)
EXTENDS Naturals, Sequences

CONSTANTS
  Session,             \* sessions that prepare messages
  Name,                \* normalized recipient addresses
  Local,               \* names in the local key index
  Orders,              \* the recipient lists of messages
  key_cache_ttl,       \* openpgp.key_cache_ttl_secs
  http_timeout,        \* openpgp.http_timeout_secs
  Sources,             \* where to look, in order: WKD advanced and direct,
                       \* keys.openpgp.org, as far as enabled
  MaxTime,             \* bound of the model: when the last message arrives
  MaxRotations         \* bound of the model: key replacements per name

ASSUME KeyCacheAssumption ==
  /\ Local \subseteq Name
  /\ Orders \subseteq Seq(Name) \ {<<>>}
  /\ key_cache_ttl \in Nat
  /\ http_timeout \in Nat \ {0}
  /\ Sources \in Seq({"advanced", "direct", "keyserver"})
  /\ MaxTime \in Nat
  /\ MaxRotations \in Nat

VARIABLES
  now,
  retired,     \* per name, when each of its earlier keys was replaced
  cache,       \* CachedCerts per name: version and expires_at
  pc,          \* what a session does: "idle", "lookup", "asked" (a key service),
               \* "found" or "absent" (its answer is on the way), "store", "encrypt"
  recipients,  \* the recipients whose certificates it needs
  certs,       \* the certificates it has, one per recipient so far
  source,      \* the place in Sources it is asking
  deadline,    \* when that request times out
  answer       \* the version it is about to get and store

resolving == <<pc, recipients, certs, source, deadline, answer>>

vars == <<now, retired, cache, resolving>>

-----------------------------------------------------------------------------
(* The local index is read once, at start, and has no later version. *)
FromIndex == 0

Latest(n) == Len(retired[n]) + 1

Versions == 0 .. MaxRotations + 1

Requesting(s) == pc[s] \in {"asked", "found", "absent"}

Recipient(s) == recipients[s][Len(certs[s]) + 1]

(* An entry that is not there serves nobody, like one that has expired. *)
NoEntry == [version |-> FromIndex, expires_at |-> 0]

Cached(n) == cache[n].expires_at > now

-----------------------------------------------------------------------------
(* The owner of a name publishes a new key. *)
Rotate(n) ==
  /\ n \notin Local
  /\ Len(retired[n]) < MaxRotations
  /\ retired' = [retired EXCEPT ![n] = Append(@, now)]
  /\ UNCHANGED <<now, cache, resolving>>

\* mutant: the HTTP client has no timeout
TickOn ==
  /\ now < MaxTime \/ \E s \in Session : pc[s] # "idle"
  /\ now < 3 * MaxTime
  /\ \A s \in Session : pc[s] = "idle" \/ Requesting(s)
  /\ now' = now + 1
  /\ UNCHANGED <<retired, cache, resolving>>

(* Time passes while sessions wait, and no request outlives its deadline. *)
Tick ==
  /\ now < MaxTime \/ \E s \in Session : pc[s] # "idle"
  /\ \A s \in Session :
       pc[s] = "idle" \/ (Requesting(s) /\ now < deadline[s])
  /\ now' = now + 1
  /\ UNCHANGED <<retired, cache, resolving>>

-----------------------------------------------------------------------------
(* prepare_encrypted_delivery. *)
Start(s) ==
  /\ pc[s] = "idle"
  /\ now < MaxTime
  /\ \E order \in Orders : recipients' = [recipients EXCEPT ![s] = order]
  /\ pc' = [pc EXCEPT ![s] = "lookup"]
  /\ UNCHANGED <<now, retired, cache, certs, source, deadline, answer>>

Forgets(s) ==
  /\ source' = [source EXCEPT ![s] = 0]
  /\ deadline' = [deadline EXCEPT ![s] = 0]
  /\ answer' = [answer EXCEPT ![s] = FromIndex]

\* mutant: the certificates of a message that failed stay for the next
EndsKeepingCerts(s) ==
  /\ pc' = [pc EXCEPT ![s] = "idle"]
  /\ recipients' = [recipients EXCEPT ![s] = <<>>]
  /\ Forgets(s)
  /\ UNCHANGED certs

(* The session has finished with this message, one way or the other. *)
Ends(s) ==
  /\ pc' = [pc EXCEPT ![s] = "idle"]
  /\ recipients' = [recipients EXCEPT ![s] = <<>>]
  /\ certs' = [certs EXCEPT ![s] = <<>>]
  /\ Forgets(s)

(* One more recipient is resolved; the next one follows, or encryption.  The *)
(* locals of the lookup go out of scope.                                     *)
Resolves(s, version) ==
  /\ Forgets(s)
  /\ certs' = [certs EXCEPT ![s] = Append(@, version)]
  /\ pc' = [pc EXCEPT ![s] =
       IF Len(certs[s]) + 1 < Len(recipients[s]) THEN "lookup" ELSE "encrypt"]

(* fetch_certs sends a request to the i-th source; behind the last one there *)
(* is no key to be had and the preparation fails.                            *)
Fetch(s, i) ==
  IF i \in DOMAIN Sources
  THEN /\ pc' = [pc EXCEPT ![s] = "asked"]
       /\ source' = [source EXCEPT ![s] = i]
       /\ deadline' = [deadline EXCEPT ![s] = now + http_timeout]
       /\ answer' = [answer EXCEPT ![s] = FromIndex]
       /\ UNCHANGED <<recipients, certs>>
  ELSE Ends(s)

\* mutant: expires_at is not looked at
HitExpired(s) ==
  /\ pc[s] = "lookup"
  /\ cache[Recipient(s)].expires_at > 0
  /\ Resolves(s, cache[Recipient(s)].version)
  /\ UNCHANGED <<now, retired, cache, recipients>>

(* cached_lookup finds an entry that has not expired. *)
Hit(s) ==
  /\ pc[s] = "lookup"
  /\ Cached(Recipient(s))
  /\ Resolves(s, cache[Recipient(s)].version)
  /\ UNCHANGED <<now, retired, cache, recipients>>

(* It finds none: the local index, if it has the name, or the key services. *)
Miss(s) ==
  /\ pc[s] = "lookup"
  /\ ~Cached(Recipient(s))
  /\ IF Recipient(s) \in Local
     THEN /\ pc' = [pc EXCEPT ![s] = "store"]
          /\ answer' = [answer EXCEPT ![s] = FromIndex]
          /\ UNCHANGED <<recipients, certs, source, deadline>>
     ELSE Fetch(s, 1)
  /\ UNCHANGED <<now, retired, cache>>

(* The key service answers, with the key it holds or without one. *)
Answer(s) ==
  /\ pc[s] = "asked"
  /\ \/ /\ pc' = [pc EXCEPT ![s] = "found"]
        /\ answer' = [answer EXCEPT ![s] = Latest(Recipient(s))]
     \/ /\ pc' = [pc EXCEPT ![s] = "absent"]
        /\ UNCHANGED answer
  /\ UNCHANGED <<now, retired, cache, recipients, certs, source, deadline>>

(* The answer has arrived. *)
Arrive(s) ==
  /\ \/ pc[s] = "absent" /\ Fetch(s, source[s] + 1)
     \/ /\ pc[s] = "found"
        /\ pc' = [pc EXCEPT ![s] = "store"]
        /\ UNCHANGED <<recipients, certs, source, deadline, answer>>
  /\ UNCHANGED <<now, retired, cache>>

(* A failed request ends a lookup at keys.openpgp.org and moves one in WKD on. *)
RequestFails(s) ==
  /\ IF Sources[source[s]] = "keyserver" THEN Ends(s) ELSE Fetch(s, source[s] + 1)
  /\ UNCHANGED <<now, retired, cache>>

(* It cannot be sent, is answered with another status, or with certificates  *)
(* of somebody else.                                                         *)
FetchError(s) ==
  /\ Requesting(s)
  /\ RequestFails(s)

\* mutant: the deadline passes without consequence until an answer is there
TimeoutOnAnswer(s) ==
  /\ pc[s] \in {"found", "absent"}
  /\ now >= deadline[s]
  /\ RequestFails(s)

Timeout(s) ==
  /\ Requesting(s)
  /\ now >= deadline[s]
  /\ RequestFails(s)

(* cache_success, whatever another session has stored meanwhile. *)
Store(s) ==
  /\ pc[s] = "store"
  /\ cache' = [cache EXCEPT ![Recipient(s)] =
       [version |-> answer[s], expires_at |-> now + key_cache_ttl]]
  /\ Resolves(s, answer[s])
  /\ UNCHANGED <<now, retired, recipients>>

(* encrypt_to_armored_message, which succeeds or finds a key unusable. *)
Encrypt(s) ==
  /\ pc[s] = "encrypt"
  /\ Ends(s)
  /\ UNCHANGED <<now, retired, cache>>

-----------------------------------------------------------------------------
Init ==
  /\ now = 0
  /\ retired = [n \in Name |-> <<>>]
  /\ cache = [n \in Name |-> NoEntry]
  /\ pc = [s \in Session |-> "idle"]
  /\ recipients = [s \in Session |-> <<>>]
  /\ certs = [s \in Session |-> <<>>]
  /\ source = [s \in Session |-> 0]
  /\ deadline = [s \in Session |-> 0]
  /\ answer = [s \in Session |-> FromIndex]

(* What a session does by itself, its timer included. *)
Proceeds(s) ==
  Hit(s) \/ Miss(s) \/ Arrive(s) \/ Timeout(s) \/ Store(s) \/ Encrypt(s)

Environment(s) == Start(s) \/ Answer(s) \/ FetchError(s)

(* No more messages arrive. *)
Rest ==
  /\ now >= MaxTime
  /\ \A s \in Session : pc[s] = "idle"
  /\ UNCHANGED vars

Next ==
  \/ \E s \in Session : Proceeds(s) \/ Environment(s)
  \/ \E n \in Name : Rotate(n)
  \/ Tick
  \/ Rest

(* Sessions are scheduled, and time passes: it does not stand still while    *)
(* message after message is prepared in no time.  Key services owe no answer. *)
Fairness == SF_vars(Tick) /\ \A s \in Session : WF_vars(Proceeds(s))

Spec == Init /\ [][Next]_vars

FairSpec == Spec /\ Fairness

-----------------------------------------------------------------------------
(* The shape of the state. *)
TypeOK ==
  /\ now \in Nat
  /\ retired \in [Name -> Seq(Nat)]
  /\ cache \in [Name -> [version : Nat, expires_at : Nat]]
  /\ pc \in [Session -> {"idle", "lookup", "asked", "found", "absent", "store", "encrypt"}]
  /\ recipients \in [Session -> Orders \cup {<<>>}]
  /\ certs \in [Session -> Seq(Nat)]
  /\ \A s \in Session : Len(certs[s]) <= Len(recipients[s])
  /\ source \in [Session -> 0 .. Len(Sources)]
  /\ deadline \in [Session -> Nat]
  /\ answer \in [Session -> Nat]

-----------------------------------------------------------------------------
(* How long the lookups of the recipients behind the i-th may take. *)
Waits(s, i) == (Len(recipients[s]) - i) * Len(Sources) * http_timeout

(***************************************************************************)
(* A message is never encrypted to a key that was replaced too long ago:   *)
(* when encryption begins, each certificate was its owner's latest within  *)
(* one request and the lookups of the recipients behind it, or, if it came *)
(* from the cache, within less than a lifetime of an entry more.  Neither  *)
(* hits nor sessions that overwrite each other's entries add to that.      *)
(***************************************************************************)
FreshWhenUsed ==
  \A s \in Session : pc[s] = "encrypt" =>
    \A i \in DOMAIN certs[s] :
      LET n == recipients[s][i]
          v == certs[s][i]
      IN  \/ n \in Local /\ v = FromIndex
          \/ v = Latest(n)
          \/ /\ v \in DOMAIN retired[n]
             /\ \/ now <= retired[n][v] + http_timeout + Waits(s, i)
                \/ now < retired[n][v] + http_timeout + key_cache_ttl + Waits(s, i)

(***************************************************************************)
(* Sessions may overwrite a newer certificate with an older one, but only  *)
(* with one that was still its owner's latest a request ago.               *)
(***************************************************************************)
OverwritesAreRecent ==
  [][\A n \in Name \ Local :
       cache'[n].version < cache[n].version =>
         retired[n][cache'[n].version] + http_timeout >= now]_vars

(* Every preparation ends, whatever the key services do. *)
PreparationEnds == \A s \in Session : pc[s] # "idle" ~> pc[s] = "idle"
=============================================================================

----------------------------- MODULE KeyCacheProofs -----------------------------
(***************************************************************************)
(* Proofs about KeyCache: how old a certificate can be when it is used,    *)
(* for any number of sessions, recipients and key services, any lifetime   *)
(* of a cache entry and any timeout.                                       *)
(***************************************************************************)
EXTENDS KeyCache, SequenceTheorems, TLAPS

-----------------------------------------------------------------------------
(* The two products in the bound: the lookups of m recipients, and the     *)
(* requests to j key services.                                             *)
Behind(m) == m * Len(Sources) * http_timeout

Waited(j) == j * http_timeout

LEMMA WaitArithmetic ==
  /\ \A m \in Nat : Behind(m) \in Nat
  /\ \A j \in Nat : Waited(j) \in Nat /\ Waited(j + 1) = Waited(j) + http_timeout
  /\ Behind(0) = 0 /\ Waited(0) = 0
  /\ \A m \in Nat, j \in 0 .. Len(Sources) : Behind(m) + Waited(j) <= Behind(m + 1)
<1>1. /\ Len(Sources) \in Nat /\ http_timeout \in Nat /\ DOMAIN Sources = 1 .. Len(Sources)
  BY KeyCacheAssumption, LenProperties
<1>2. \A m \in Nat : m * Len(Sources) \in Nat
  BY <1>1
<1>3. \A k \in Nat : k * http_timeout \in Nat
  BY <1>1
<1>4. \A m \in Nat : Behind(m) \in Nat
  BY <1>2, <1>3 DEF Behind
<1>5. \A j \in Nat : Waited(j) \in Nat /\ Waited(j + 1) = Waited(j) + http_timeout
  BY <1>1, <1>3 DEF Waited
<1>6. Behind(0) = 0 /\ Waited(0) = 0
  BY <1>1 DEF Behind, Waited
<1>7. ASSUME NEW m \in Nat, NEW j \in 0 .. Len(Sources)
      PROVE  Behind(m) + Waited(j) <= Behind(m + 1)
  <2> DEFINE len == Len(Sources)
             done == m * len
             rest == len - j
  <2>1. (m + 1) * len = done + len /\ done \in Nat /\ j \in Nat /\ rest \in Nat
    BY <1>1, <1>2
  <2>2. len = j + rest
    BY <1>1, <2>1
  <2>. HIDE DEF done, rest
  <2>3. (done + (j + rest)) * http_timeout =
          done * http_timeout + j * http_timeout + rest * http_timeout
    BY <1>1, <2>1
  <2>4. rest * http_timeout \in Nat /\ done * http_timeout \in Nat /\ j * http_timeout \in Nat
    BY <1>3, <2>1
  <2>5. Behind(m) = done * http_timeout
    BY DEF Behind, done
  <2>6. Behind(m + 1) = (done + (j + rest)) * http_timeout
    BY <2>1, <2>2 DEF Behind
  <2>. QED  BY <2>3, <2>4, <2>5, <2>6 DEF Waited
<1>. QED  BY <1>4, <1>5, <1>6, <1>7

(***************************************************************************)
(* The most a session with k certificates can have spent since it resolved *)
(* its i-th recipient, when it has asked j key services for the next one.  *)
(***************************************************************************)
Spent(k, i, j) == Behind(k - i) + Waited(j)

LEMMA SpentProperties ==
  ASSUME NEW k \in Nat, NEW i \in 1 .. k, NEW j \in 0 .. Len(Sources)
  PROVE  /\ Spent(k, i, j) \in Nat /\ Spent(k, i, j + 1) \in Nat
         /\ Spent(k + 1, i, 0) \in Nat
         /\ Spent(k, i, j) <= Spent(k + 1, i, 0)
         /\ Spent(k, i, j) + http_timeout <= Spent(k, i, j + 1)
<1> DEFINE m == k - i
<1>1. m \in Nat /\ k + 1 - i = m + 1 /\ m + 1 \in Nat /\ j \in Nat /\ j + 1 \in Nat /\ 0 \in Nat
      /\ http_timeout \in Nat
  BY KeyCacheAssumption, LenProperties
<1>. HIDE DEF m
<1>2. /\ Behind(m) \in Nat /\ Behind(m + 1) \in Nat /\ Waited(j) \in Nat
      /\ Waited(j + 1) \in Nat /\ Waited(0) = 0
  BY <1>1, WaitArithmetic
<1>3. Waited(j + 1) = Waited(j) + http_timeout /\ Behind(m) + Waited(j) <= Behind(m + 1)
  BY <1>1, WaitArithmetic
<1>4. /\ Spent(k, i, j) = Behind(m) + Waited(j)
      /\ Spent(k, i, j + 1) = Behind(m) + Waited(j + 1)
      /\ Spent(k + 1, i, 0) = Behind(m + 1) + Waited(0)
  BY <1>1 DEF Spent, m
<1>. QED  BY SMTT(30), <1>1, <1>2, <1>3, <1>4

LEMMA NothingSpent ==
  ASSUME NEW k \in Nat
  PROVE  Spent(k, k, 0) = 0
<1>1. k - k = 0
  OBVIOUS
<1>. QED  BY <1>1, WaitArithmetic DEF Spent

-----------------------------------------------------------------------------
(***************************************************************************)
(* The inductive invariant.  Fresh says how old a certificate may be at a  *)
(* time x when b has been spent on lookups since it was resolved.  While a *)
(* session waits for a key service, its deadline stands for the time, and  *)
(* the services it has asked for what it has spent on this recipient.      *)
(***************************************************************************)
Fresh(n, v, x, b) ==
  \/ n \in Local /\ v = FromIndex
  \/ v = Latest(n)
  \/ /\ v \in DOMAIN retired[n]
     /\ \/ x <= retired[n][v] + http_timeout + b
        \/ x < retired[n][v] + http_timeout + key_cache_ttl + b

Wanted(rs, cs) == rs[Len(cs) + 1]

(* What is about to be stored for a name: from the index, or from an answer. *)
Storable(n, src, d, a) ==
  \/ n \in Local /\ src = 0 /\ a = FromIndex
  \/ /\ src # 0
     /\ \/ a = Latest(n)
        \/ a \in DOMAIN retired[n] /\ d <= retired[n][a] + http_timeout

(* The locals of a session: pc, recipients, certs, source, deadline, answer. *)
Sound(p, rs, cs, src, d, a) ==
  /\ p = "idle" => rs = <<>> /\ cs = <<>>
  /\ p \in {"lookup", "asked", "found", "absent", "store"} => Len(cs) < Len(rs)
  /\ p = "encrypt" => Len(cs) = Len(rs)
  /\ p \in {"asked", "found", "absent"} => src # 0
  /\ src # 0 => /\ p \in {"asked", "found", "absent", "store"}
                /\ Wanted(rs, cs) \notin Local
                /\ now <= d /\ d <= now + http_timeout
  /\ p \in {"found", "store"} => Storable(Wanted(rs, cs), src, d, a)
  /\ \A i \in 1 .. Len(cs) :
       Fresh(rs[i], cs[i], IF src = 0 THEN now ELSE d, Spent(Len(cs), i, src))

SoundSession(s) ==
  Sound(pc[s], recipients[s], certs[s], source[s], deadline[s], answer[s])

SoundEntry(n) ==
  \/ cache[n].version = FromIndex /\ (n \in Local \/ cache[n].expires_at = 0)
  \/ /\ n \notin Local
     /\ \/ cache[n].version = Latest(n) /\ cache[n].expires_at <= now + key_cache_ttl
        \/ /\ cache[n].version \in DOMAIN retired[n]
           /\ cache[n].expires_at <=
                retired[n][cache[n].version] + http_timeout + key_cache_ttl

IInv ==
  /\ TypeOK
  /\ \A s \in Session : SoundSession(s)
  /\ \A n \in Name : SoundEntry(n)

-----------------------------------------------------------------------------
(* The keys a name has had. *)
LEMMA Keys ==
  ASSUME TypeOK, NEW n \in Name
  PROVE  /\ Latest(n) \in Nat \ {0} /\ DOMAIN retired[n] = 1 .. Latest(n) - 1
         /\ \A v \in DOMAIN retired[n] : v \in Nat /\ v < Latest(n) /\ retired[n][v] \in Nat
<1>1. retired[n] \in Seq(Nat)
  BY DEF TypeOK
<1>2. Len(retired[n]) \in Nat /\ DOMAIN retired[n] = 1 .. Len(retired[n])
  BY <1>1, LenProperties
<1>. QED  BY <1>1, <1>2, ElementOfSeq DEF Latest

(* The recipients of a session and the one it is at. *)
LEMMA RecipientsType ==
  ASSUME TypeOK, NEW s \in Session
  PROVE  /\ recipients[s] \in Seq(Name) /\ Len(recipients[s]) \in Nat
         /\ certs[s] \in Seq(Nat) /\ Len(certs[s]) \in Nat
         /\ Len(certs[s]) <= Len(recipients[s])
         /\ \A i \in 1 .. Len(certs[s]) : recipients[s][i] \in Name /\ certs[s][i] \in Nat
         /\ Len(certs[s]) < Len(recipients[s]) => Recipient(s) \in Name
         /\ Recipient(s) = Wanted(recipients[s], certs[s])
<1>1. recipients[s] \in Seq(Name)
  BY KeyCacheAssumption, EmptySeq DEF TypeOK
<1>2. certs[s] \in Seq(Nat) /\ Len(certs[s]) <= Len(recipients[s])
  BY DEF TypeOK
<1>3. Len(recipients[s]) \in Nat /\ Len(certs[s]) \in Nat
  BY <1>1, <1>2, LenProperties
<1>4. \A i \in 1 .. Len(recipients[s]) : recipients[s][i] \in Name
  BY <1>1, ElementOfSeq
<1>5. \A i \in 1 .. Len(certs[s]) : certs[s][i] \in Nat
  BY <1>2, ElementOfSeq
<1>. QED  BY <1>1, <1>2, <1>3, <1>4, <1>5 DEF Recipient, Wanted

(* What a step of a session makes of its locals. *)
Becomes(s, p, rs, cs, src, d, a) ==
  /\ pc' = [pc EXCEPT ![s] = p]
  /\ recipients' = [recipients EXCEPT ![s] = rs]
  /\ certs' = [certs EXCEPT ![s] = cs]
  /\ source' = [source EXCEPT ![s] = src]
  /\ deadline' = [deadline EXCEPT ![s] = d]
  /\ answer' = [answer EXCEPT ![s] = a]
  /\ UNCHANGED <<now, retired>>

(***************************************************************************)
(* A step of a session that leaves its own locals and the cache sound      *)
(* keeps the invariant: nobody else's soundness reads them.                *)
(***************************************************************************)
LEMMA SessionStep ==
  ASSUME IInv, NEW s \in Session,
         NEW p \in {"idle", "lookup", "asked", "found", "absent", "store", "encrypt"},
         NEW rs \in Orders \cup {<<>>}, NEW cs \in Seq(Nat), Len(cs) <= Len(rs),
         NEW src \in 0 .. Len(Sources), NEW d \in Nat, NEW a \in Nat,
         Becomes(s, p, rs, cs, src, d, a), Sound(p, rs, cs, src, d, a),
         cache' \in [Name -> [version : Nat, expires_at : Nat]],
         \A n \in Name : SoundEntry(n)'
  PROVE  IInv'
<1>1. TypeOK
  BY DEF IInv
<1>2. /\ pc'[s] = p /\ recipients'[s] = rs /\ certs'[s] = cs
      /\ source'[s] = src /\ deadline'[s] = d /\ answer'[s] = a
      /\ UNCHANGED <<now, retired>>
      /\ \A t \in Session : t # s =>
           /\ pc'[t] = pc[t] /\ recipients'[t] = recipients[t] /\ certs'[t] = certs[t]
           /\ source'[t] = source[t] /\ deadline'[t] = deadline[t]
           /\ answer'[t] = answer[t]
  BY <1>1 DEF Becomes, TypeOK
<1>3. TypeOK'
  <2>1. /\ now' \in Nat /\ retired' \in [Name -> Seq(Nat)]
        /\ pc' \in [Session -> {"idle", "lookup", "asked", "found", "absent", "store",
                                "encrypt"}]
        /\ recipients' \in [Session -> Orders \cup {<<>>}]
        /\ certs' \in [Session -> Seq(Nat)]
        /\ source' \in [Session -> 0 .. Len(Sources)]
        /\ deadline' \in [Session -> Nat] /\ answer' \in [Session -> Nat]
    BY <1>1 DEF Becomes, TypeOK
  <2>2. \A t \in Session : Len(certs'[t]) <= Len(recipients'[t])
    BY <1>1, <1>2 DEF TypeOK
  <2>. QED  BY <2>1, <2>2 DEF TypeOK
<1>4. ASSUME NEW t \in Session PROVE SoundSession(t)'
  <2>1. CASE t = s
    BY ZenonT(60), <1>2, <2>1 DEF SoundSession, Sound, Fresh, Storable, Latest, Wanted
  <2>2. CASE t # s
    <3>1. SoundSession(t)
      BY DEF IInv
    <3>. QED  BY <1>2, <2>2, <3>1 DEF SoundSession, Sound, Fresh, Storable, Latest, Wanted
  <2>. QED  BY <2>1, <2>2
<1>. QED  BY <1>3, <1>4 DEF IInv

(* The same when the cache is left alone. *)
LEMMA QuietStep ==
  ASSUME IInv, NEW s \in Session,
         NEW p \in {"idle", "lookup", "asked", "found", "absent", "store", "encrypt"},
         NEW rs \in Orders \cup {<<>>}, NEW cs \in Seq(Nat), Len(cs) <= Len(rs),
         NEW src \in 0 .. Len(Sources), NEW d \in Nat, NEW a \in Nat,
         Becomes(s, p, rs, cs, src, d, a), Sound(p, rs, cs, src, d, a), UNCHANGED cache
  PROVE  IInv'
<1>1. cache' \in [Name -> [version : Nat, expires_at : Nat]]
  BY DEF IInv, TypeOK
<1>2. \A n \in Name : SoundEntry(n)'
  BY DEF IInv, SoundEntry, Becomes, Latest
<1>. QED  BY <1>1, <1>2, SessionStep

(* Finishing with a message. *)
LEMMA EndsKeeps ==
  ASSUME IInv, NEW s \in Session, Ends(s), UNCHANGED <<now, retired, cache>>
  PROVE  IInv'
<1>1. Becomes(s, "idle", <<>>, <<>>, 0, 0, FromIndex)
  BY DEF Ends, Forgets, Becomes
<1>2. /\ <<>> \in Orders \cup {<<>>} /\ <<>> \in Seq(Nat) /\ Len(<<>>) <= Len(<<>>)
      /\ Len(Sources) \in Nat /\ 0 \in 0 .. Len(Sources) /\ FromIndex \in Nat
  BY KeyCacheAssumption, LenProperties, EmptySeq DEF FromIndex
<1>3. Sound("idle", <<>>, <<>>, 0, 0, FromIndex)
  BY EmptySeq DEF Sound
<1>. QED  BY <1>1, <1>2, <1>3, QuietStep

(* A certificate that was fresh stays so for a later time and a longer wait. *)
LEMMA FreshLater ==
  ASSUME TypeOK, NEW n \in Name, NEW v \in Nat, NEW x \in Nat, NEW y \in Nat,
         NEW b \in Nat, NEW e \in Nat, NEW k \in Nat,
         Fresh(n, v, x, b), y <= x + k, b + k <= e
  PROVE  Fresh(n, v, y, e)
<1>1. key_cache_ttl \in Nat /\ http_timeout \in Nat
  BY KeyCacheAssumption
<1>2. ASSUME v \in DOMAIN retired[n],
             \/ x <= retired[n][v] + http_timeout + b
             \/ x < retired[n][v] + http_timeout + key_cache_ttl + b
      PROVE  \/ y <= retired[n][v] + http_timeout + e
             \/ y < retired[n][v] + http_timeout + key_cache_ttl + e
  <2> DEFINE r == retired[n][v]
  <2>1. r \in Nat
    BY <1>2, Keys
  <2>. HIDE DEF r
  <2>2. x <= r + http_timeout + b \/ x < r + http_timeout + key_cache_ttl + b
    BY <1>2 DEF r
  <2>3. y <= r + http_timeout + e \/ y < r + http_timeout + key_cache_ttl + e
    BY <1>1, <2>1, <2>2
  <2>. QED  BY <2>3 DEF r
<1>. QED  BY <1>2, Zenon DEF Fresh

-----------------------------------------------------------------------------
(* What a sound session says of its locals, with their types. *)
LEMMA Locals ==
  ASSUME IInv, NEW s \in Session
  PROVE  /\ TypeOK /\ now \in Nat /\ http_timeout \in Nat \ {0} /\ key_cache_ttl \in Nat
         /\ pc[s] \in {"idle", "lookup", "asked", "found", "absent", "store", "encrypt"}
         /\ recipients[s] \in Orders \cup {<<>>}
         /\ source[s] \in 0 .. Len(Sources) /\ Len(Sources) \in Nat
         /\ DOMAIN Sources = 1 .. Len(Sources)
         /\ deadline[s] \in Nat /\ answer[s] \in Nat
         /\ pc[s] \in {"lookup", "asked", "found", "absent", "store"} =>
              Len(certs[s]) < Len(recipients[s]) /\ Recipient(s) \in Name
         /\ pc[s] \in {"asked", "found", "absent"} => source[s] # 0
         /\ source[s] # 0 => /\ pc[s] \in {"asked", "found", "absent", "store"}
                             /\ Recipient(s) \notin Local
                             /\ now <= deadline[s] /\ deadline[s] <= now + http_timeout
         /\ \A i \in 1 .. Len(certs[s]) :
              Fresh(recipients[s][i], certs[s][i],
                    IF source[s] = 0 THEN now ELSE deadline[s],
                    Spent(Len(certs[s]), i, source[s]))
<1>1. TypeOK /\ Sound(pc[s], recipients[s], certs[s], source[s], deadline[s], answer[s])
  BY DEF IInv, SoundSession
<1>2. Len(Sources) \in Nat /\ DOMAIN Sources = 1 .. Len(Sources)
  BY KeyCacheAssumption, LenProperties
<1>3. /\ now \in Nat /\ http_timeout \in Nat \ {0} /\ key_cache_ttl \in Nat
      /\ pc[s] \in {"idle", "lookup", "asked", "found", "absent", "store", "encrypt"}
      /\ recipients[s] \in Orders \cup {<<>>} /\ source[s] \in 0 .. Len(Sources)
      /\ deadline[s] \in Nat /\ answer[s] \in Nat
  BY <1>1, KeyCacheAssumption DEF TypeOK
<1>. QED  BY <1>1, <1>2, <1>3, RecipientsType DEF Sound

(* One more recipient is resolved, with a certificate that is fresh now. *)
LEMMA ResolvesKeeps ==
  ASSUME IInv, NEW s \in Session, NEW v \in Nat, pc[s] \in {"lookup", "store"},
         Fresh(Recipient(s), v, now, 0), Resolves(s, v),
         UNCHANGED <<now, retired, recipients>>,
         cache' \in [Name -> [version : Nat, expires_at : Nat]],
         \A n \in Name : SoundEntry(n)'
  PROVE  IInv'
<1> DEFINE rs == recipients[s]
           cs == certs[s]
           k  == Len(cs)
           more == Append(cs, v)
           p  == IF k + 1 < Len(rs) THEN "lookup" ELSE "encrypt"
           x  == IF source[s] = 0 THEN now ELSE deadline[s]
<1>1. /\ rs \in Seq(Name) /\ cs \in Seq(Nat) /\ k \in Nat /\ Len(rs) \in Nat /\ k < Len(rs)
      /\ \A i \in 1 .. k : rs[i] \in Name /\ cs[i] \in Nat
      /\ Recipient(s) = rs[k + 1] /\ Recipient(s) \in Name
  BY Locals, RecipientsType DEF Wanted
<1>2. /\ more \in Seq(Nat) /\ Len(more) = k + 1 /\ more[k + 1] = v
      /\ \A i \in 1 .. k : more[i] = cs[i]
  BY <1>1, AppendProperties
<1>3. Becomes(s, p, rs, more, 0, 0, FromIndex)
  <2>1. recipients' = [recipients EXCEPT ![s] = rs]
    BY Locals DEF TypeOK
  <2>. QED  BY <2>1 DEF Resolves, Forgets, Becomes
<1>4. x \in Nat /\ now <= x /\ now \in Nat
  BY Locals
<1>. HIDE DEF more, x
<1>5. ASSUME NEW i \in 1 .. k + 1
      PROVE  Fresh(rs[i], more[i], now, Spent(k + 1, i, 0))
  <2>1. CASE i = k + 1
    <3>1. Spent(k + 1, i, 0) = 0
      BY <1>1, <2>1, NothingSpent
    <3>2. rs[i] = Recipient(s) /\ more[i] = v
      BY <1>1, <1>2, <2>1
    <3>. QED  BY <3>1, <3>2
  <2>2. CASE i \in 1 .. k
    <3> DEFINE b == Spent(k, i, source[s])
               e == Spent(k + 1, i, 0)
    <3>1. source[s] \in 0 .. Len(Sources) /\ Fresh(rs[i], cs[i], x, b)
      BY <2>2, Locals DEF x
    <3>2. b \in Nat /\ e \in Nat /\ b <= e
      BY <1>1, <2>2, <3>1, SpentProperties
    <3>3. TypeOK /\ rs[i] \in Name /\ cs[i] \in Nat
      BY <1>1, <2>2, Locals
    <3>. HIDE DEF b, e, rs, cs
    <3>4. b + 0 <= e /\ now <= x + 0 /\ 0 \in Nat
      BY <1>4, <3>2
    <3>5. Fresh(rs[i], cs[i], now, e)
      BY <1>4, <3>1, <3>2, <3>3, <3>4, FreshLater
    <3>. QED  BY <1>2, <2>2, <3>5 DEF e, cs
  <2>3. i = k + 1 \/ i \in 1 .. k
    BY SMTT(30), <1>1
  <2>. QED  BY <2>1, <2>2, <2>3
<1>6. Sound(p, rs, more, 0, 0, FromIndex)
  <2>1. \A i \in 1 .. Len(more) :
          Fresh(rs[i], more[i], IF 0 = 0 THEN now ELSE 0, Spent(Len(more), i, 0))
    BY <1>2, <1>5
  <2>2. (p = "lookup" /\ k + 1 < Len(rs)) \/ (p = "encrypt" /\ k + 1 = Len(rs))
    BY <1>1
  <2>. HIDE DEF p, rs
  <2>. QED  BY <1>2, <2>1, <2>2 DEF Sound
<1>7. /\ p \in {"idle", "lookup", "asked", "found", "absent", "store", "encrypt"}
      /\ rs \in Orders \cup {<<>>} /\ Len(more) <= Len(rs)
      /\ 0 \in 0 .. Len(Sources) /\ 0 \in Nat /\ FromIndex \in Nat
  BY SMTT(30), <1>1, <1>2, Locals DEF FromIndex
<1>. HIDE DEF p, rs
<1>. QED  BY <1>2, <1>3, <1>6, <1>7, SessionStep

(* A request to the next key service, or the end when there is none. *)
LEMMA FetchKeeps ==
  ASSUME IInv, NEW s \in Session, pc[s] \in {"lookup", "asked", "found", "absent"},
         Recipient(s) \notin Local, Fetch(s, source[s] + 1),
         UNCHANGED <<now, retired, cache>>
  PROVE  IInv'
<1> DEFINE rs == recipients[s]
           cs == certs[s]
           k  == Len(cs)
           j  == source[s]
           d  == now + http_timeout
           x  == IF j = 0 THEN now ELSE deadline[s]
<1>1. /\ rs \in Seq(Name) /\ cs \in Seq(Nat) /\ k \in Nat /\ Len(rs) \in Nat /\ k < Len(rs)
      /\ \A i \in 1 .. k : rs[i] \in Name /\ cs[i] \in Nat
      /\ Recipient(s) = Wanted(rs, cs) /\ rs \in Orders \cup {<<>>}
  BY Locals, RecipientsType
<1>2. CASE j + 1 \notin DOMAIN Sources
  BY <1>2, EndsKeeps DEF Fetch
<1>3. CASE j + 1 \in DOMAIN Sources
  <2>1. Becomes(s, "asked", rs, cs, j + 1, d, FromIndex)
    <3>1. recipients' = [recipients EXCEPT ![s] = rs] /\ certs' = [certs EXCEPT ![s] = cs]
      BY <1>3, Locals DEF TypeOK, Fetch
    <3>. QED  BY <1>3, <3>1 DEF Fetch, Becomes
  <2>2. /\ j \in Nat /\ j \in 0 .. Len(Sources) /\ j + 1 \in 0 .. Len(Sources) /\ j + 1 # 0
        /\ d \in Nat /\ x \in Nat /\ now \in Nat /\ now <= d /\ d <= x + http_timeout
        /\ http_timeout \in Nat
    BY <1>3, Locals
  <2>. HIDE DEF x, d
  <2>3. ASSUME NEW i \in 1 .. k
        PROVE  Fresh(rs[i], cs[i], d, Spent(k, i, j + 1))
    <3> DEFINE b == Spent(k, i, j)
               e == Spent(k, i, j + 1)
    <3>1. Fresh(rs[i], cs[i], x, b)
      BY Locals DEF x
    <3>2. b \in Nat /\ e \in Nat /\ b + http_timeout <= e
      BY <1>1, <2>2, SpentProperties
    <3>3. TypeOK /\ rs[i] \in Name /\ cs[i] \in Nat
      BY <1>1, Locals
    <3>. HIDE DEF b, e, rs, cs
    <3>4. Fresh(rs[i], cs[i], d, e)
      BY <2>2, <3>1, <3>2, <3>3, FreshLater
    <3>. QED  BY <3>4 DEF e
  <2>4. Sound("asked", rs, cs, j + 1, d, FromIndex)
    <3>1. Wanted(rs, cs) \notin Local /\ d <= now + http_timeout
      BY <1>1, Locals DEF d
    <3>2. \A i \in 1 .. Len(cs) :
            Fresh(rs[i], cs[i], IF j + 1 = 0 THEN now ELSE d, Spent(Len(cs), i, j + 1))
      BY <2>2, <2>3
    <3>. HIDE DEF rs, cs, j
    <3>. QED  BY <1>1, <2>2, <3>1, <3>2 DEF Sound
  <2>5. Len(cs) <= Len(rs) /\ FromIndex \in Nat
    BY <1>1 DEF FromIndex
  <2>. HIDE DEF rs, cs, j
  <2>. QED  BY <1>1, <2>1, <2>2, <2>4, <2>5, QuietStep
<1>. QED  BY <1>2, <1>3

(* A lookup goes on for the same recipient. *)
LEMMA GoesOnKeeps ==
  ASSUME IInv, NEW s \in Session, pc[s] \in {"lookup", "asked", "found", "absent"},
         NEW p \in {"found", "absent", "store"}, NEW a \in Nat,
         source[s] = 0 => p = "store",
         p \in {"found", "store"} => Storable(Recipient(s), source[s], deadline[s], a),
         pc' = [pc EXCEPT ![s] = p], answer' = [answer EXCEPT ![s] = a],
         UNCHANGED <<now, retired, cache, recipients, certs, source, deadline>>
  PROVE  IInv'
<1>1. Becomes(s, p, recipients[s], certs[s], source[s], deadline[s], a)
  BY Locals DEF Becomes, TypeOK
<1>2. Sound(p, recipients[s], certs[s], source[s], deadline[s], a)
  BY Locals, RecipientsType DEF Sound
<1>3. Len(certs[s]) <= Len(recipients[s]) /\ certs[s] \in Seq(Nat)
  BY Locals, RecipientsType
<1>4. /\ p \in {"idle", "lookup", "asked", "found", "absent", "store", "encrypt"}
      /\ recipients[s] \in Orders \cup {<<>>} /\ source[s] \in 0 .. Len(Sources)
      /\ deadline[s] \in Nat /\ UNCHANGED cache
  BY Locals
<1>. QED  BY <1>1, <1>2, <1>3, <1>4, QuietStep

(* A message arrives. *)
LEMMA StartKeeps ==
  ASSUME IInv, NEW s \in Session, Start(s)
  PROVE  IInv'
<1>1. pc[s] = "idle" /\ certs[s] = <<>> /\ source[s] = 0
  BY Locals DEF Start, IInv, SoundSession, Sound
<1>2. PICK order \in Orders : recipients' = [recipients EXCEPT ![s] = order]
  BY DEF Start
<1>3. order \in Seq(Name) /\ order # <<>> /\ Len(order) \in Nat /\ Len(order) > 0
  BY KeyCacheAssumption, EmptySeq, LenProperties
<1>4. Becomes(s, "lookup", order, <<>>, 0, deadline[s], answer[s])
  BY <1>1, <1>2, Locals DEF Start, Becomes, TypeOK
<1>5. Sound("lookup", order, <<>>, 0, deadline[s], answer[s])
  BY <1>3, EmptySeq DEF Sound
<1>6. /\ <<>> \in Seq(Nat) /\ Len(<<>>) <= Len(order) /\ order \in Orders \cup {<<>>}
      /\ 0 \in 0 .. Len(Sources) /\ UNCHANGED cache
  BY <1>3, EmptySeq, Locals DEF Start
<1>. QED  BY <1>4, <1>5, <1>6, Locals, QuietStep

(* A hit: an entry that has not expired holds a certificate that is fresh. *)
LEMMA HitKeeps ==
  ASSUME IInv, NEW s \in Session, Hit(s)
  PROVE  IInv'
<1> DEFINE n == Recipient(s)
           v == cache[n].version
<1>1. /\ TypeOK /\ pc[s] = "lookup" /\ n \in Name /\ SoundEntry(n)
      /\ now < cache[n].expires_at /\ now \in Nat
      /\ http_timeout \in Nat /\ key_cache_ttl \in Nat
  BY Locals DEF Hit, Cached, IInv
<1>2. v \in Nat /\ cache[n].expires_at \in Nat
  BY <1>1 DEF TypeOK
<1>3. \A k \in DOMAIN retired[n] : retired[n][k] \in Nat
  BY <1>1, Keys
<1>4. Fresh(n, v, now, 0)
  <2>. HIDE DEF n
  <2>. QED  BY <1>1, <1>2, <1>3 DEF SoundEntry, Fresh
<1>5. cache' \in [Name -> [version : Nat, expires_at : Nat]]
  BY <1>1 DEF Hit, TypeOK
<1>6. \A m \in Name : SoundEntry(m)'
  BY DEF Hit, IInv, SoundEntry, Latest
<1>. QED  BY <1>1, <1>2, <1>4, <1>5, <1>6, ResolvesKeeps DEF Hit

(* A miss. *)
LEMMA MissKeeps ==
  ASSUME IInv, NEW s \in Session, Miss(s)
  PROVE  IInv'
<1>1. pc[s] = "lookup" /\ source[s] = 0 /\ FromIndex \in Nat
  BY Locals DEF Miss, FromIndex
<1>2. CASE Recipient(s) \in Local
  BY <1>1, <1>2, GoesOnKeeps DEF Miss, Storable
<1>3. CASE Recipient(s) \notin Local
  <2>1. source[s] + 1 = 1
    BY <1>1
  <2>2. Fetch(s, source[s] + 1) /\ UNCHANGED <<now, retired, cache>>
    BY <1>3, <2>1 DEF Miss
  <2>. QED  BY <1>1, <1>3, <2>2, FetchKeeps
<1>. QED  BY <1>2, <1>3

(* A key service answers: what it says is its latest key, within a request. *)
LEMMA AnswerKeeps ==
  ASSUME IInv, NEW s \in Session, Answer(s)
  PROVE  IInv'
<1>1. /\ pc[s] = "asked" /\ source[s] # 0 /\ Recipient(s) \in Name /\ TypeOK
      /\ answer[s] \in Nat
  BY Locals DEF Answer
<1>2. Latest(Recipient(s)) \in Nat
  BY <1>1, Keys
<1>3. CASE /\ pc' = [pc EXCEPT ![s] = "found"]
           /\ answer' = [answer EXCEPT ![s] = Latest(Recipient(s))]
  BY <1>1, <1>2, <1>3, GoesOnKeeps DEF Answer, Storable
<1>4. CASE /\ pc' = [pc EXCEPT ![s] = "absent"]
           /\ UNCHANGED answer
  <2>1. answer' = [answer EXCEPT ![s] = answer[s]]
    BY <1>1, <1>4 DEF TypeOK
  <2>. QED  BY <1>1, <1>4, <2>1, GoesOnKeeps DEF Answer
<1>. QED  BY <1>3, <1>4 DEF Answer

(* The answer arrives. *)
LEMMA ArriveKeeps ==
  ASSUME IInv, NEW s \in Session, Arrive(s)
  PROVE  IInv'
<1>1. CASE pc[s] = "absent" /\ Fetch(s, source[s] + 1)
  <2>1. Recipient(s) \notin Local
    BY <1>1, Locals
  <2>. QED  BY <1>1, <2>1, FetchKeeps DEF Arrive
<1>2. CASE /\ pc[s] = "found"
           /\ pc' = [pc EXCEPT ![s] = "store"]
           /\ UNCHANGED <<recipients, certs, source, deadline, answer>>
  <2>1. Storable(Recipient(s), source[s], deadline[s], answer[s])
    BY <1>2, Locals, RecipientsType DEF IInv, SoundSession, Sound
  <2>2. answer' = [answer EXCEPT ![s] = answer[s]] /\ answer[s] \in Nat
    BY <1>2, Locals DEF TypeOK
  <2>. QED  BY <1>2, <2>1, <2>2, GoesOnKeeps DEF Arrive
<1>. QED  BY <1>1, <1>2 DEF Arrive

(* A request fails, by itself or by its timeout. *)
LEMMA RequestFailsKeeps ==
  ASSUME IInv, NEW s \in Session, Requesting(s), RequestFails(s)
  PROVE  IInv'
<1>1. pc[s] \in {"asked", "found", "absent"} /\ Recipient(s) \notin Local
  BY Locals DEF Requesting
<1>2. CASE Ends(s)
  BY <1>2, EndsKeeps DEF RequestFails
<1>3. CASE Fetch(s, source[s] + 1)
  BY <1>1, <1>3, FetchKeeps DEF RequestFails
<1>. QED  BY <1>2, <1>3 DEF RequestFails

(* What is stored is fresh, whatever it overwrites. *)
LEMMA StoreKeeps ==
  ASSUME IInv, NEW s \in Session, Store(s)
  PROVE  IInv'
<1> DEFINE n == Recipient(s)
           v == answer[s]
           e == [version |-> v, expires_at |-> now + key_cache_ttl]
<1>1. /\ TypeOK /\ pc[s] = "store" /\ n \in Name /\ v \in Nat /\ now \in Nat
      /\ http_timeout \in Nat /\ key_cache_ttl \in Nat /\ deadline[s] \in Nat
      /\ source[s] # 0 => n \notin Local /\ now <= deadline[s]
  BY Locals DEF Store
<1>2. Storable(n, source[s], deadline[s], v)
  BY <1>1, Locals, RecipientsType DEF IInv, SoundSession, Sound
<1>3. \A k \in DOMAIN retired[n] : retired[n][k] \in Nat
  BY <1>1, Keys
<1>4. /\ cache' = [cache EXCEPT ![n] = e] /\ UNCHANGED <<now, retired, recipients>>
      /\ Resolves(s, v)
  BY DEF Store
<1>. HIDE DEF n, v
<1>5. /\ e.version = v /\ e.expires_at = now + key_cache_ttl
      /\ e \in [version : Nat, expires_at : Nat]
  BY <1>1
<1>. HIDE DEF e
<1>6. /\ cache' \in [Name -> [version : Nat, expires_at : Nat]]
      /\ cache'[n] = e /\ \A m \in Name : m # n => cache'[m] = cache[m]
  BY <1>1, <1>4, <1>5 DEF TypeOK
<1>7. Fresh(n, v, now, 0)
  BY <1>1, <1>2, <1>3 DEF Storable, Fresh
<1>8. ASSUME NEW m \in Name PROVE SoundEntry(m)'
  <2>1. CASE m # n
    BY <1>4, <1>6, <2>1 DEF IInv, SoundEntry, Latest
  <2>2. CASE m = n /\ n \in Local
    <3>1. v = FromIndex
      BY <1>1, <1>2, <2>2 DEF Storable
    <3>. QED  BY <1>5, <1>6, <2>2, <3>1 DEF SoundEntry
  <2>3. CASE m = n /\ n \notin Local
    <3>1. \/ v = Latest(n)
          \/ v \in DOMAIN retired[n] /\ deadline[s] <= retired[n][v] + http_timeout
      BY <1>2, <2>3 DEF Storable
    <3>2. \/ v = Latest(n)
          \/ /\ v \in DOMAIN retired[n]
             /\ now + key_cache_ttl <= retired[n][v] + http_timeout + key_cache_ttl
      <4>1. now <= deadline[s]
        BY <1>1, <1>2, <2>3 DEF Storable
      <4>. QED  BY <1>1, <1>3, <3>1, <4>1
    <3>3. /\ cache'[m].version = v /\ cache'[m].expires_at = now + key_cache_ttl
          /\ retired' = retired /\ now' = now
      BY <1>4, <1>5, <1>6, <2>3
    <3>4. now + key_cache_ttl <= now + key_cache_ttl
      BY <1>1
    <3>. QED  BY <2>3, <3>2, <3>3, <3>4 DEF SoundEntry, Latest
  <2>. QED  BY <2>1, <2>2, <2>3
<1>. QED  BY <1>1, <1>4, <1>6, <1>7, <1>8, ResolvesKeeps DEF n

(* The owner of a key replaces it: whatever was the latest is replaced now. *)
LEMMA RotateKeeps ==
  ASSUME IInv, NEW n \in Name, Rotate(n)
  PROVE  IInv'
<1> DEFINE old == retired[n]
           new == Append(old, now)
<1>1. /\ TypeOK /\ now \in Nat /\ http_timeout \in Nat /\ key_cache_ttl \in Nat
      /\ old \in Seq(Nat) /\ Len(old) \in Nat /\ DOMAIN old = 1 .. Len(old)
  BY KeyCacheAssumption, LenProperties DEF IInv, TypeOK
<1>2. /\ n \notin Local /\ retired' = [retired EXCEPT ![n] = new]
      /\ UNCHANGED <<now, cache, pc, recipients, certs, source, deadline, answer>>
  BY DEF Rotate, resolving
<1>3. /\ new \in Seq(Nat) /\ DOMAIN new = 1 .. Len(old) + 1 /\ new[Len(old) + 1] = now
      /\ Len(new) = Len(old) + 1 /\ \A v \in 1 .. Len(old) : new[v] = old[v]
  BY <1>1, AppendProperties, LenProperties
<1>. HIDE DEF new
<1>4. /\ retired' \in [Name -> Seq(Nat)] /\ retired'[n] = new
      /\ \A m \in Name : m # n => retired'[m] = retired[m]
  BY <1>1, <1>2, <1>3 DEF TypeOK
<1>5. ASSUME NEW m \in Name
      PROVE  /\ \A v \in DOMAIN retired[m] :
                  v \in DOMAIN retired'[m] /\ retired'[m][v] = retired[m][v]
             /\ m \notin Local => \/ Latest(m)' = Latest(m)
                                \/ /\ Latest(m) \in DOMAIN retired'[m]
                                   /\ retired'[m][Latest(m)] = now
             /\ m \in Local => Latest(m)' = Latest(m)
  <2>1. CASE m = n
    BY <1>1, <1>2, <1>3, <1>4, <2>1 DEF Latest
  <2>2. CASE m # n
    BY <1>4, <2>2 DEF Latest
  <2>. QED  BY <2>1, <2>2
<1>6. TypeOK'
  BY <1>1, <1>2, <1>4 DEF TypeOK
<1>7. ASSUME NEW m \in Name, NEW v, NEW x \in Nat, NEW b \in Nat, x <= now + http_timeout,
             Fresh(m, v, x, b)
      PROVE  Fresh(m, v, x, b)'
  <2>1. x <= now + http_timeout + b
    BY <1>1, <1>7
  <2>. QED  BY <1>5, <1>7, <2>1 DEF Fresh
<1>8. ASSUME NEW s \in Session PROVE SoundSession(s)'
  <2> DEFINE x == IF source[s] = 0 THEN now ELSE deadline[s]
  <2>1. x \in Nat /\ x <= now + http_timeout /\ source[s] \in 0 .. Len(Sources)
    BY <1>1, Locals
  <2>2. SoundSession(s) /\ Len(certs[s]) \in Nat
    BY <1>1, RecipientsType DEF IInv
  <2>3. ASSUME NEW i \in 1 .. Len(certs[s])
        PROVE  Fresh(recipients[s][i], certs[s][i], x, Spent(Len(certs[s]), i, source[s]))'
    <3> DEFINE b == Spent(Len(certs[s]), i, source[s])
    <3>1. Fresh(recipients[s][i], certs[s][i], x, b) /\ recipients[s][i] \in Name
      BY <1>1, Locals, RecipientsType
    <3>2. b \in Nat
      BY <2>1, <2>2, SpentProperties
    <3>3. b' = b /\ x' = x
      BY <1>2
    <3>. HIDE DEF b, x
    <3>4. Fresh(recipients[s][i], certs[s][i], x, b)'
      BY <1>2, <1>7, <2>1, <3>1, <3>2, <3>3 DEF Fresh, Latest
    <3>. QED  BY <3>4 DEF b
  <2>4. Storable(Wanted(recipients[s], certs[s]), source[s], deadline[s], answer[s])
          /\ pc[s] \in {"found", "store"}
        => Storable(Wanted(recipients[s], certs[s]), source[s], deadline[s], answer[s])'
    <3>1. pc[s] \in {"found", "store"} => Wanted(recipients[s], certs[s]) \in Name
      BY <1>1, Locals, RecipientsType
    <3>2. /\ source[s] # 0 => deadline[s] <= now + http_timeout
          /\ source[s] # 0 => Wanted(recipients[s], certs[s]) \notin Local
      BY <1>1, Locals, RecipientsType
    <3>. QED  BY <1>2, <1>5, <3>1, <3>2 DEF Storable, Wanted
  <2>. QED  BY <1>2, <2>2, <2>3, <2>4 DEF SoundSession, Sound, Wanted
<1>9. ASSUME NEW m \in Name PROVE SoundEntry(m)'
  <2>1. SoundEntry(m) /\ cache[m].expires_at \in Nat
    BY <1>1 DEF IInv, TypeOK
  <2>2. cache[m].expires_at <= now + key_cache_ttl =>
          cache[m].expires_at <= now + http_timeout + key_cache_ttl
    BY <1>1, <2>1
  <2>. QED  BY <1>2, <1>5, <2>1, <2>2 DEF SoundEntry
<1>. QED  BY <1>6, <1>8, <1>9 DEF IInv

(* Time passes while every session is idle or waits for a key service. *)
LEMMA TickKeeps ==
  ASSUME IInv, Tick
  PROVE  IInv'
<1>1. /\ TypeOK /\ now \in Nat /\ now' = now + 1
      /\ UNCHANGED <<retired, cache, pc, recipients, certs, source, deadline, answer>>
      /\ http_timeout \in Nat /\ key_cache_ttl \in Nat
  BY KeyCacheAssumption DEF IInv, TypeOK, Tick, resolving
<1>2. TypeOK'
  BY <1>1 DEF TypeOK
<1>3. ASSUME NEW s \in Session PROVE SoundSession(s)'
  <2>1. SoundSession(s)
    BY DEF IInv
  <2>2. CASE pc[s] = "idle"
    <3>1. certs[s] = <<>> /\ recipients[s] = <<>> /\ source[s] = 0
      BY <2>2, Locals, <2>1 DEF SoundSession, Sound
    <3>. QED  BY <1>1, <2>2, <3>1, EmptySeq DEF SoundSession, Sound
  <2>3. CASE pc[s] \in {"asked", "found", "absent"}
    <3>1. source[s] # 0 /\ now < deadline[s] /\ deadline[s] <= now + http_timeout
          /\ deadline[s] \in Nat
      BY <2>3, Locals DEF Tick, Requesting
    <3>2. now' <= deadline[s] /\ deadline[s] <= now' + http_timeout
      BY <1>1, <3>1
    <3>. QED  BY <1>1, <2>1, <2>3, <3>1, <3>2
              DEF SoundSession, Sound, Fresh, Storable, Latest, Wanted
  <2>. QED  BY <2>2, <2>3 DEF Tick, Requesting
<1>4. ASSUME NEW n \in Name PROVE SoundEntry(n)'
  <2>1. SoundEntry(n) /\ cache[n].expires_at \in Nat
    BY <1>1 DEF IInv, TypeOK
  <2>2. cache[n].expires_at <= now + key_cache_ttl => cache[n].expires_at <= now' + key_cache_ttl
    BY <1>1, <2>1
  <2>. QED  BY <1>1, <2>1, <2>2 DEF SoundEntry, Latest
<1>. QED  BY <1>2, <1>3, <1>4 DEF IInv

-----------------------------------------------------------------------------
(* The invariant holds at the start. *)
LEMMA InitSound == Init => IInv
<1>. SUFFICES ASSUME Init PROVE IInv
  OBVIOUS
<1>1. /\ <<>> \in Seq(Nat) /\ <<>> \in Orders \cup {<<>>} /\ Len(<<>>) <= Len(<<>>)
      /\ Len(Sources) \in Nat /\ FromIndex \in Nat /\ 0 \in 0 .. Len(Sources)
      /\ NoEntry \in [version : Nat, expires_at : Nat]
      /\ NoEntry.version = FromIndex /\ NoEntry.expires_at = 0
  BY KeyCacheAssumption, EmptySeq, LenProperties DEF FromIndex, NoEntry
<1>2. TypeOK
  BY <1>1 DEF Init, TypeOK
<1>3. ASSUME NEW s \in Session PROVE SoundSession(s)
  <2>1. /\ pc[s] = "idle" /\ recipients[s] = <<>> /\ certs[s] = <<>> /\ source[s] = 0
    BY DEF Init
  <2>. QED  BY <2>1, EmptySeq DEF SoundSession, Sound
<1>4. ASSUME NEW n \in Name PROVE SoundEntry(n)
  BY <1>1 DEF Init, SoundEntry
<1>. QED  BY <1>2, <1>3, <1>4 DEF IInv

(* Every step keeps it. *)
LEMMA StepKeeps == IInv /\ [Next]_vars => IInv'
<1>. SUFFICES ASSUME IInv, [Next]_vars PROVE IInv'
  OBVIOUS
<1>1. ASSUME NEW s \in Session, Proceeds(s) \/ Environment(s) PROVE IInv'
  <2>1. CASE FetchError(s) \/ Timeout(s)
    BY <2>1, RequestFailsKeeps DEF FetchError, Timeout
  <2>2. CASE Encrypt(s)
    BY <2>2, EndsKeeps DEF Encrypt
  <2>. QED  BY <1>1, <2>1, <2>2, StartKeeps, HitKeeps, MissKeeps, AnswerKeeps, ArriveKeeps,
               StoreKeeps, Zenon DEF Proceeds, Environment
<1>2. CASE UNCHANGED vars
  <2>1. UNCHANGED <<now, retired, cache, pc, recipients, certs, source, deadline, answer>>
    BY <1>2 DEF vars, resolving
  <2>. QED  BY <2>1 DEF IInv, TypeOK, SoundSession, Sound, SoundEntry, Fresh, Storable, Latest,
                        Wanted
<1>3. CASE Rest
  BY <1>2, <1>3 DEF Rest
<1>. QED  BY <1>1, <1>2, <1>3, RotateKeeps, TickKeeps, Zenon DEF Next

(* The inductive invariant is an invariant. *)
THEOREM Invariance == Spec => []IInv
BY InitSound, StepKeeps, PTL DEF Spec

(* Every variable keeps its shape, whatever the keys and services do. *)
THEOREM TypeCorrect == Spec => []TypeOK
<1>1. IInv => TypeOK
  BY DEF IInv
<1>. QED  BY <1>1, Invariance, PTL

(***************************************************************************)
(* A message is never encrypted to a key that was replaced longer ago than *)
(* a request, a lifetime of an entry and the lookups behind it take, for   *)
(* any number of sessions that share the cache.                            *)
(***************************************************************************)
THEOREM StalenessBound == Spec => []FreshWhenUsed
<1>1. IInv => FreshWhenUsed
  <2>. SUFFICES ASSUME IInv, NEW s \in Session, pc[s] = "encrypt", NEW i \in DOMAIN certs[s]
                PROVE  LET n == recipients[s][i]
                           v == certs[s][i]
                       IN  \/ n \in Local /\ v = FromIndex
                           \/ v = Latest(n)
                           \/ /\ v \in DOMAIN retired[n]
                              /\ \/ now <= retired[n][v] + http_timeout + Waits(s, i)
                                 \/ now < retired[n][v] + http_timeout + key_cache_ttl
                                            + Waits(s, i)
    BY DEF FreshWhenUsed
  <2> DEFINE k == Len(certs[s])
  <2>1. k \in Nat /\ i \in 1 .. k /\ source[s] = 0 /\ k = Len(recipients[s])
    BY Locals, RecipientsType, LenProperties DEF IInv, SoundSession, Sound
  <2>2. Fresh(recipients[s][i], certs[s][i], now, Spent(k, i, 0))
    BY <2>1, Locals
  <2>3. Spent(k, i, 0) = Waits(s, i)
    <3>0. Behind(k - i) = Waits(s, i)
      BY <2>1 DEF Behind, Waits
    <3>. HIDE DEF k
    <3>1. k - i \in Nat
      BY <2>1
    <3>2. Behind(k - i) \in Nat
      BY <3>1, WaitArithmetic
    <3>3. Waited(0) = 0
      BY WaitArithmetic
    <3>. QED  BY <3>0, <3>2, <3>3 DEF Spent
  <2>. QED  BY <2>2, <2>3 DEF Fresh
<1>. QED  BY <1>1, Invariance, PTL

(***************************************************************************)
(* An older certificate replaces a newer one in the cache only if it was   *)
(* its owner's latest a request ago.                                       *)
(***************************************************************************)
THEOREM RecentOverwrites == Spec => OverwritesAreRecent
<1> DEFINE Recent == \A n \in Name \ Local :
                       cache'[n].version < cache[n].version =>
                         retired[n][cache'[n].version] + http_timeout >= now
<1>1. IInv /\ [Next]_vars => [Recent]_vars
  <2>. SUFFICES ASSUME IInv, [Next]_vars, NEW n \in Name \ Local,
                       cache'[n].version < cache[n].version
                PROVE  retired[n][cache'[n].version] + http_timeout >= now
    OBVIOUS
  <2>1. TypeOK /\ cache[n].version \in Nat
    BY DEF IInv, TypeOK
  <2>2. cache' # cache
    BY <2>1
  <2>3. PICK s \in Session : Store(s)
    BY <2>2, Zenon DEF Next, vars, Proceeds, Environment, Start, Answer, FetchError, Hit, Miss,
       Arrive, Timeout, RequestFails, Encrypt, Rotate, Tick, Rest
  <2> DEFINE v == answer[s]
  <2>4. cache'[n] = IF n = Recipient(s)
                    THEN [version |-> v, expires_at |-> now + key_cache_ttl] ELSE cache[n]
    BY <2>1, <2>3 DEF Store, TypeOK
  <2>5. n = Recipient(s) /\ cache'[n].version = v /\ v < cache[n].version
    BY <2>1, <2>4
  <2>6. /\ pc[s] = "store" /\ v \in Nat /\ deadline[s] \in Nat /\ now \in Nat
        /\ http_timeout \in Nat
        /\ source[s] # 0 => now <= deadline[s]
    BY <2>3, Locals DEF Store
  <2>7. Storable(n, source[s], deadline[s], v)
    BY <2>1, <2>5, <2>6, RecipientsType DEF IInv, SoundSession, Sound
  <2>8. v # Latest(n)
    <3>1. SoundEntry(n)
      BY DEF IInv
    <3>2. cache[n].version <= Latest(n)
      BY <2>1, <3>1, Keys DEF SoundEntry, FromIndex
    <3>. QED  BY <2>1, <2>5, <2>6, <3>2, Keys
  <2>. HIDE DEF v
  <2>9. /\ source[s] # 0 /\ v \in DOMAIN retired[n]
        /\ deadline[s] <= retired[n][v] + http_timeout
    BY <2>7, <2>8, Zenon DEF Storable
  <2>10. retired[n][v] \in Nat
    BY <2>1, <2>9, Keys
  <2>11. retired[n][v] + http_timeout >= now
    BY <2>6, <2>9, <2>10
  <2>. QED  BY <2>5, <2>11
<1>. QED  BY <1>1, Invariance, PTL DEF Spec, OverwritesAreRecent
=============================================================================

----------------------------- MODULE StartupProofs -----------------------------
(***************************************************************************)
(* Proofs about Startup: what a loaded configuration holds, and for what   *)
(* one is refused, for any configurations and files and any number of      *)
(* replacements.                                                           *)
(***************************************************************************)
EXTENDS Startup, ListTheorems

(***************************************************************************)
(* The inductive invariant: what there is, and what each step of loading   *)
(* has left.                                                               *)
(***************************************************************************)
Stages == {"listen", "remote", "normalize", "validate", "valid", "roots", "keys", "failed", "ready"}

(* Nothing that lay at a place is forgotten.                                 *)
FilesHeld ==
  /\ DOMAIN fs \subseteq Paths /\ IsFiniteSet(DOMAIN fs)
  /\ fs \in [DOMAIN fs -> File]
  /\ held \in [DOMAIN fs -> SUBSET File]
  /\ \A place \in DOMAIN fs : fs[place] \in held[place]

(* A credential comes from one source: as configured, with its path          *)
(* resolved, until its file is read.                                         *)
CredentialSourced(c) ==
  /\ HasOneSource(config.secret[c])
  /\ \/ /\ secret[c].value = config.secret[c].value
        /\ secret[c].file = {SecretPath(path) : path \in config.secret[c].file}
     \/ /\ secret[c].file = {}
        /\ \E path \in config.secret[c].file, text \in secret[c].value :
             secret[c].value = {text} /\ IsFiled(text, path)

Sourced ==
  /\ pc = "start" => secret = config.secret
  /\ pc \in Stages => \A c \in Credentials : CredentialSourced(c)
  /\ pc \in Stages \ {"listen"} => secret["listen"].file = {}
  /\ pc \in Stages \ {"listen", "remote"} => secret["remote"].file = {}
  /\ Loaded => \A c \in Credentials : <<>> \notin secret[c].value

(* The exceptions are those of the configuration, normalized.                *)
ExceptionsNormalized ==
  pc \in Stages \ {"listen", "remote", "normalize"} =>
    /\ DOMAIN exceptions = DOMAIN config.exceptions
    /\ \A i \in DOMAIN exceptions :
         /\ exceptions[i].address = Lower(config.exceptions[i].address)
         /\ normalize_configured_email(config.exceptions[i].address) = {exceptions[i].address}
    /\ \A i, j \in DOMAIN exceptions : exceptions[i].address = exceptions[j].address => i = j

IInv ==
  /\ IsConfig(config)
  /\ TypeOK
  /\ FilesHeld
  /\ Sourced
  /\ ExceptionsNormalized
  /\ RefusedForCause

-----------------------------------------------------------------------------
(***************************************************************************)
(* Addresses.                                                              *)
(***************************************************************************)
LEMMA LowerProperties ==
  ASSUME NEW text \in Seq(Characters)
  PROVE  /\ Lower(text) \in Seq(Characters) /\ Len(Lower(text)) = Len(text)
         /\ DOMAIN Lower(text) = DOMAIN text /\ DOMAIN text = 1 .. Len(text) /\ Len(text) \in Nat
         /\ \A i \in DOMAIN text : Lower(text)[i] = IF text[i] = "A" THEN "a" ELSE text[i]
         /\ Lower(Lower(text)) = Lower(text)
<1>1. /\ Len(text) \in Nat /\ DOMAIN text = 1 .. Len(text)
      /\ \A i \in DOMAIN text : text[i] \in Characters
  BY LenProperties, ElementOfSeq
<1>2. Lower(text) = [i \in DOMAIN text |-> IF text[i] = "A" THEN "a" ELSE text[i]]
  BY DEF Lower
<1>3. \A i \in DOMAIN text : (IF text[i] = "A" THEN "a" ELSE text[i]) \in Characters
  BY <1>1 DEF Characters
<1>4. Lower(text) \in [1 .. Len(text) -> Characters]
  BY <1>1, <1>2, <1>3
<1>5. Lower(text) \in Seq(Characters)
  BY <1>1, <1>4, SeqDef
<1>6. DOMAIN Lower(text) = DOMAIN text /\ Len(Lower(text)) = Len(text)
  BY <1>1, <1>2, <1>5, LenProperties
<1>7. \A i \in DOMAIN text : Lower(text)[i] = IF text[i] = "A" THEN "a" ELSE text[i]
  BY <1>2
<1>8. Lower(Lower(text)) = [i \in DOMAIN text |-> Lower(text)[i]]
  BY <1>6, <1>7 DEF Lower
<1>9. Lower(text) = [i \in DOMAIN text |-> Lower(text)[i]]
  BY <1>2
<1>. QED  BY <1>1, <1>5, <1>6, <1>7, <1>8, <1>9

(* Lower forgets the case of letters, and nothing else.                      *)
LEMMA LowerIsSame ==
  ASSUME NEW x \in Seq(Characters), NEW y \in Seq(Characters)
  PROVE  Lower(x) = Lower(y) <=> SameAddress(x, y)
<1>1. /\ DOMAIN x = 1 .. Len(x) /\ Len(x) \in Nat
      /\ Len(Lower(x)) = Len(x) /\ Lower(x) \in Seq(Characters)
      /\ \A i \in DOMAIN x : x[i] \in Characters
      /\ \A i \in DOMAIN x : Lower(x)[i] = IF x[i] = "A" THEN "a" ELSE x[i]
  BY LowerProperties, ElementOfSeq
<1>2. /\ DOMAIN y = 1 .. Len(y) /\ Len(y) \in Nat
      /\ Len(Lower(y)) = Len(y) /\ Lower(y) \in Seq(Characters)
      /\ \A i \in DOMAIN y : y[i] \in Characters
      /\ \A i \in DOMAIN y : Lower(y)[i] = IF y[i] = "A" THEN "a" ELSE y[i]
  BY LowerProperties, ElementOfSeq
<1>3. \A c, d : SameLetter(c, d) <=>
                  (IF c = "A" THEN "a" ELSE c) = (IF d = "A" THEN "a" ELSE d)
  BY DEF SameLetter
<1>4. ASSUME SameAddress(x, y)
      PROVE  Lower(x) = Lower(y)
  <2>1. Len(x) = Len(y) /\ \A i \in 1 .. Len(x) : SameLetter(x[i], y[i])
    BY <1>1, <1>4 DEF SameAddress
  <2>2. \A i \in 1 .. Len(x) : Lower(x)[i] = Lower(y)[i]
    BY <1>1, <1>2, <1>3, <2>1
  <2>. QED  BY <1>1, <1>2, <2>1, <2>2, SeqEqual
<1>5. ASSUME Lower(x) = Lower(y)
      PROVE  SameAddress(x, y)
  <2>1. Len(x) = Len(y)
    BY <1>1, <1>2, <1>5
  <2>2. \A i \in DOMAIN x : SameLetter(x[i], y[i])
    BY <1>1, <1>2, <1>3, <1>5, <2>1
  <2>. QED  BY <2>1, <2>2 DEF SameAddress
<1>. QED  BY <1>4, <1>5

(* What TrimMatches leaves, when there is something to leave.                *)
LEMMA TrimEnds ==
  ASSUME NEW text \in Seq(Characters), NEW characters,
         NEW a \in DOMAIN text, NEW b \in DOMAIN text,
         text[a] \notin characters, text[b] \notin characters,
         \A i \in DOMAIN text : text[i] \notin characters => a <= i /\ i <= b
  PROVE  TrimMatches(text, characters) = SubSeq(text, a, b)
<1>. DEFINE kept == {i \in DOMAIN text : text[i] \notin characters}
<1>1. Len(text) \in Nat /\ DOMAIN text = 1 .. Len(text)
  BY LenProperties
<1>2. kept \subseteq Nat /\ kept # {} /\ a \in kept /\ b \in kept
  BY <1>1
<1>3. \A i \in kept : i <= b /\ a <= i
  OBVIOUS
<1>4. b \in Nat
  BY <1>1
<1>5. TrimMatches(text, characters) = SubSeq(text, Min(kept), Max(kept))
  BY <1>2 DEF TrimMatches
<1>. HIDE DEF kept
<1>6. Min(kept) \in kept /\ \A i \in kept : Min(kept) <= i
  BY <1>2, MinIsLeast
<1>7. Max(kept) \in kept /\ \A i \in kept : i <= Max(kept)
  BY <1>2, <1>3, <1>4, MaxIsGreatest
<1>8. PICK lo \in Nat, hi \in Nat : lo = Min(kept) /\ hi = Max(kept)
  BY <1>2, <1>6, <1>7
<1>9. lo <= a /\ a <= lo /\ hi <= b /\ b <= hi /\ a \in Nat
  BY <1>2, <1>3, <1>6, <1>7, <1>8
<1>10. lo = a /\ hi = b
  BY <1>4, <1>8, <1>9
<1>. QED  BY <1>5, <1>8, <1>10

LEMMA TrimNothing ==
  ASSUME NEW text \in Seq(Characters), NEW characters,
         \A i \in DOMAIN text : text[i] \notin characters
  PROVE  TrimMatches(text, characters) = text
<1>1. Len(text) \in Nat /\ DOMAIN text = 1 .. Len(text)
  BY LenProperties
<1>2. CASE Len(text) = 0
  BY <1>1, <1>2, EmptySeq DEF TrimMatches
<1>3. CASE Len(text) # 0
  <2>1. 1 \in DOMAIN text /\ Len(text) \in DOMAIN text
    BY <1>1, <1>3
  <2>2. text[1] \notin characters /\ text[Len(text)] \notin characters
    BY <2>1
  <2>3. \A i \in DOMAIN text : text[i] \notin characters => 1 <= i /\ i <= Len(text)
    BY <1>1
  <2>4. TrimMatches(text, characters) = SubSeq(text, 1, Len(text))
    BY <2>1, <2>2, <2>3, TrimEnds
  <2>. QED  BY <2>4, SubSeqFull
<1>. QED  BY <1>2, <1>3

(* What TrimMatches leaves is part of the text.                              *)
LEMMA TrimLeaves ==
  ASSUME NEW text \in Seq(Characters), NEW characters
  PROVE  /\ TrimMatches(text, characters) \in Seq(Characters)
         /\ TrimMatches(text, characters) # <<>> =>
              \E k, l \in DOMAIN text :
                /\ k <= l /\ TrimMatches(text, characters) = SubSeq(text, k, l)
                /\ \A i \in DOMAIN text \ (k .. l) : text[i] \in characters
<1>. DEFINE kept == {i \in DOMAIN text : text[i] \notin characters}
<1>1. PICK n \in Nat : n = Len(text) /\ DOMAIN text = 1 .. n
  BY LenProperties
<1>2. TrimMatches(text, characters) =
        IF kept = {} THEN <<>> ELSE SubSeq(text, Min(kept), Max(kept))
  BY DEF TrimMatches
<1>3. kept \subseteq 1 .. n /\ \A i \in 1 .. n : i \notin kept => text[i] \in characters
  BY <1>1
<1>. HIDE DEF kept
<1>4. CASE kept = {}
  BY <1>2, <1>4, EmptySeq
<1>5. CASE kept # {}
  <2>1. kept \subseteq Nat /\ \A i \in kept : i <= n
    BY <1>1, <1>3
  <2>2. PICK k \in 1 .. n, l \in 1 .. n :
          k = Min(kept) /\ l = Max(kept) /\ k \in kept /\ \A i \in kept : k <= i /\ i <= l
    BY <1>1, <1>3, <1>5, <2>1, MinIsLeast, MaxIsGreatest
  <2>3. k <= l /\ TrimMatches(text, characters) = SubSeq(text, k, l)
    BY <1>2, <1>5, <2>2
  <2>4. \A i \in DOMAIN text \ (k .. l) : text[i] \in characters
    BY <1>1, <1>3, <2>2
  <2>5. SubSeq(text, k, l) \in Seq(Characters)
    BY <1>1, <2>3, PartOfList
  <2>. QED  BY <1>1, <2>3, <2>4, <2>5
<1>. QED  BY <1>4, <1>5

(* A text but for white space and angle brackets around it.                  *)
IsWithin(part, text) ==
  \E k, l \in DOMAIN text :
    /\ k <= l /\ part = SubSeq(text, k, l)
    /\ \A i \in DOMAIN text \ (k .. l) : text[i] \in {"space", "<", ">"}

LEMMA TrimStaysWithin ==
  ASSUME NEW text \in Seq(Characters), NEW part \in Seq(Characters), IsWithin(part, text),
         NEW characters \in SUBSET {"space", "<", ">"}, TrimMatches(part, characters) # <<>>
  PROVE  IsWithin(TrimMatches(part, characters), text)
<1>. DEFINE trimmed == TrimMatches(part, characters)
<1>1. PICK n \in Nat : n = Len(text) /\ DOMAIN text = 1 .. n
  BY LenProperties
<1>2. PICK k \in 1 .. n, l \in 1 .. n :
        /\ k <= l /\ part = SubSeq(text, k, l)
        /\ \A i \in 1 .. n : i \notin k .. l => text[i] \in {"space", "<", ">"}
  <2>1. PICK k \in DOMAIN text, l \in DOMAIN text :
          /\ k <= l /\ part = SubSeq(text, k, l)
          /\ \A i \in DOMAIN text \ (k .. l) : text[i] \in {"space", "<", ">"}
    BY Zenon DEF IsWithin
  <2>2. k \in 1 .. n /\ l \in 1 .. n
    BY <1>1
  <2>3. \A i \in 1 .. n : i \notin k .. l => text[i] \in {"space", "<", ">"}
    BY <1>1, <2>1
  <2>. QED  BY <2>1, <2>2, <2>3, Zenon
<1>3. /\ Len(part) = l - k + 1 /\ DOMAIN part = 1 .. l - k + 1
      /\ \A i \in 1 .. l - k + 1 : part[i] = text[k + i - 1]
  BY <1>1, <1>2, PartOfList
<1>4. PICK a \in 1 .. l - k + 1, b \in 1 .. l - k + 1 :
        /\ a <= b /\ trimmed = SubSeq(part, a, b)
        /\ \A i \in 1 .. l - k + 1 : i \notin a .. b => part[i] \in characters
  BY <1>3, TrimLeaves
<1>5. PICK c \in 1 .. n, d \in 1 .. n : c = k + a - 1 /\ d = k + b - 1 /\ c <= d
  BY <1>2, <1>4
<1>6. SubSeq(part, a, b) = SubSeq(text, c, d)
  <2>. DEFINE u == SubSeq(part, a, b)
              v == SubSeq(text, c, d)
  <2>1. /\ u \in Seq(Characters) /\ Len(u) = b - a + 1
        /\ \A i \in 1 .. b - a + 1 : u[i] = part[a + i - 1]
    BY <1>3, <1>4, PartOfList
  <2>2. /\ v \in Seq(Characters) /\ Len(v) = d - c + 1
        /\ \A i \in 1 .. d - c + 1 : v[i] = text[c + i - 1]
    BY <1>1, <1>5, PartOfList
  <2>. HIDE DEF u, v
  <2>3. d - c + 1 = b - a + 1
    BY <1>4, <1>5
  <2>4. \A i \in 1 .. b - a + 1 : u[i] = v[i]
    <3>1. SUFFICES ASSUME NEW i \in 1 .. b - a + 1 PROVE u[i] = v[i]
      OBVIOUS
    <3>2. a + i - 1 \in 1 .. l - k + 1 /\ k + (a + i - 1) - 1 = c + i - 1
      BY <1>2, <1>4, <1>5
    <3>. QED  BY <1>3, <2>1, <2>2, <2>3, <3>2
  <2>5. u = v
    BY <2>1, <2>2, <2>3, <2>4, SeqEqual
  <2>. QED  BY <2>5 DEF u, v
<1>7. ASSUME NEW i \in 1 .. n, i \notin c .. d
      PROVE  text[i] \in {"space", "<", ">"}
  <2>1. CASE i \notin k .. l
    BY <1>2, <2>1
  <2>2. CASE i \in k .. l
    <3>1. PICK j \in 1 .. l - k + 1 : j = i - k + 1 /\ k + j - 1 = i
      BY <1>2, <2>2
    <3>2. j \notin a .. b
      BY <1>4, <1>5, <1>7, <3>1
    <3>. QED  BY <1>3, <1>4, <3>1, <3>2
  <2>. QED  BY <2>1, <2>2
<1>. HIDE DEF trimmed
<1>8. IsWithin(trimmed, text)
  <2>1. trimmed = SubSeq(text, c, d)
    BY <1>4, <1>6
  <2>. QED  BY <1>1, <1>5, <1>7, <2>1 DEF IsWithin
<1>. QED  BY <1>8 DEF trimmed

(* normalize_email takes off nothing else, and makes lower case.             *)
LEMMA NormalizedWithin ==
  ASSUME NEW path \in Seq(Characters), normalize_email(path) # <<>>
  PROVE  \E part \in Seq(Characters) : IsWithin(part, path) /\ normalize_email(path) = Lower(part)
<1>. DEFINE t == TrimMatches(path, {"space"})
            u == TrimMatches(t, {"<"})
            v == TrimMatches(u, {">"})
<1>1. normalize_email(path) = Lower(v)
  BY DEF normalize_email, Trim
<1>2. t \in Seq(Characters) /\ u \in Seq(Characters) /\ v \in Seq(Characters)
  BY TrimLeaves
<1>3. \A characters : TrimMatches(<<>>, characters) = <<>>
  BY DEF TrimMatches
<1>4. Lower(<<>>) = <<>>
  BY DEF Lower
<1>5. (path = <<>> => t = <<>>) /\ (t = <<>> => u = <<>>) /\ (u = <<>> => v = <<>>)
  BY <1>3
<1>. HIDE DEF t, u, v
<1>6. path # <<>> /\ t # <<>> /\ u # <<>> /\ v # <<>>
  BY <1>1, <1>4, <1>5
<1>7. IsWithin(path, path)
  <2>1. PICK n \in Nat : n = Len(path) /\ DOMAIN path = 1 .. n /\ n # 0
    BY <1>6, LenProperties, EmptySeq
  <2>2. path = SubSeq(path, 1, n)
    BY <2>1, SubSeqFull
  <2>3. 1 \in 1 .. n /\ n \in 1 .. n /\ 1 <= n
    BY <2>1
  <2>4. \A i \in DOMAIN path \ (1 .. n) : path[i] \in {"space", "<", ">"}
    BY <2>1
  <2>. QED  BY <2>1, <2>2, <2>3, <2>4, Zenon DEF IsWithin
<1>8. IsWithin(t, path)
  BY <1>6, <1>7, TrimStaysWithin DEF t
<1>9. IsWithin(u, path)
  BY <1>2, <1>6, <1>8, TrimStaysWithin DEF u
<1>10. IsWithin(v, path)
  BY <1>2, <1>6, <1>9, TrimStaysWithin DEF v
<1>. QED  BY <1>1, <1>2, <1>10

(* An address without white space and brackets is only made lower case.      *)
Bare(text) == \A i \in DOMAIN text : text[i] \notin {"space", "<", ">"}

LEMMA BareIsLowered ==
  ASSUME NEW text \in Seq(Characters), Bare(text)
  PROVE  /\ TrimMatches(TrimMatches(Trim(text), {"<"}), {">"}) = text
         /\ normalize_email(text) = Lower(text)
<1>1. Trim(text) = text
  BY TrimNothing DEF Trim, Bare
<1>2. TrimMatches(text, {"<"}) = text
  BY TrimNothing DEF Bare
<1>3. TrimMatches(text, {">"}) = text
  BY TrimNothing DEF Bare
<1>. QED  BY <1>1, <1>2, <1>3 DEF normalize_email

(* What normalize_configured_email accepts is taken by the normal forms of   *)
(* recipients and of key lookups as it is.                                   *)
IsAddress(value) ==
  /\ \A i \in DOMAIN value : value[i] \notin {"space", "<", ">", "comma", "u"}
  /\ \E at \in Ats(value) : Ats(value) = {at} /\ Splits(value, at)

LEMMA ConfiguredAddress ==
  ASSUME NEW value \in Seq(Characters)
  PROVE  /\ normalize_configured_email(value) = IF IsAddress(value) THEN {Lower(value)} ELSE {}
         /\ IsAddress(value) =>
              /\ normalize_email(Lower(value)) = Lower(value)
              /\ normalize_lookup_email(Lower(value)) = {Lower(value)}
<1>1. normalize_configured_email(value) = IF IsAddress(value) THEN {Lower(value)} ELSE {}
  BY DEF normalize_configured_email, IsAddress
<1>2. ASSUME IsAddress(value)
      PROVE  /\ normalize_email(Lower(value)) = Lower(value)
             /\ normalize_lookup_email(Lower(value)) = {Lower(value)}
  <2>. DEFINE low == Lower(value)
  <2>1. /\ low \in Seq(Characters) /\ DOMAIN low = DOMAIN value /\ DOMAIN value = 1 .. Len(value)
        /\ Len(value) \in Nat /\ Len(low) = Len(value)
        /\ \A i \in DOMAIN value : low[i] = IF value[i] = "A" THEN "a" ELSE value[i]
        /\ Lower(low) = low
    BY LowerProperties
  <2>2. Bare(low)
    BY <1>2, <2>1 DEF IsAddress, Bare
  <2>3. Ats(low) = Ats(value)
    BY <2>1 DEF Ats
  <2>4. PICK at \in Ats(value) : Ats(value) = {at} /\ Splits(value, at)
    BY <1>2 DEF IsAddress
  <2>5. at \in Nat
    BY <2>1 DEF Ats
  <2>6. Splits(low, at)
    BY <2>1, <2>4 DEF Splits
  <2>. HIDE DEF low
  <2>7. Max(Ats(low)) = at
    <3>1. Ats(low) \subseteq Nat /\ Ats(low) # {} /\ \A i \in Ats(low) : i <= at
      BY <2>3, <2>4, <2>5
    <3>2. Max(Ats(low)) \in Ats(low)
      BY <2>5, <3>1, MaxIsGreatest
    <3>. QED  BY <2>3, <2>4, <3>2
  <2>8. normalize_email(low) = low
    BY <2>1, <2>2, BareIsLowered
  <2>9. normalize_lookup_email(low) = {low}
    <3>1. TrimMatches(TrimMatches(Trim(low), {"<"}), {">"}) = low
      BY <2>1, <2>2, BareIsLowered
    <3>2. Ats(low) # {}
      BY <2>3, <2>4
    <3>. QED  BY <2>1, <2>6, <2>7, <3>1, <3>2 DEF normalize_lookup_email
  <2>. QED  BY <2>8, <2>9 DEF low
<1>. QED  BY <1>1, <1>2

-----------------------------------------------------------------------------
(***************************************************************************)
(* The argument of RCPT TO.                                                *)
(***************************************************************************)
(* The position of the first character of an argument that is no white space. *)
FirstOf(argument) ==
  Min({i \in 1 .. Len(argument) + 1 : i \in DOMAIN argument => argument[i] # "space"})

LEMMA FirstFound ==
  ASSUME NEW argument \in Seq(Characters), NEW first \in DOMAIN argument,
         argument[first] # "space", \A i \in 1 .. first - 1 : argument[i] = "space"
  PROVE  FirstOf(argument) = first
<1>. DEFINE starts == {i \in 1 .. Len(argument) + 1 : i \in DOMAIN argument => argument[i] # "space"}
<1>1. Len(argument) \in Nat /\ DOMAIN argument = 1 .. Len(argument) /\ first \in Nat
  BY LenProperties
<1>2. starts \subseteq Nat /\ first \in starts
  BY <1>1
<1>3. \A i \in starts : first <= i
  BY <1>1
<1>4. FirstOf(argument) = Min(starts)
  BY DEF FirstOf
<1>. HIDE DEF starts
<1>5. PICK m \in Nat : m = Min(starts) /\ m \in starts /\ m <= first
  BY <1>2, MinIsLeast
<1>6. first <= m
  BY <1>3, <1>5
<1>. QED  BY <1>1, <1>4, <1>5, <1>6

(* A path in brackets is what is between them, trimmed.                      *)
LEMMA ParseBracketed ==
  ASSUME NEW argument \in Seq(Characters), NEW open \in Nat \ {0}, NEW k \in Nat,
         open + k + 1 <= Len(argument),
         \A i \in 1 .. open - 1 : argument[i] = "space",
         argument[open] = "<", argument[open + k + 1] = ">",
         \A i \in open .. open + k : argument[i] # ">"
  PROVE  parse_path_argument(argument) = {Trim(SubSeq(argument, open + 1, open + k))}
<1>. DEFINE rest    == SubSeq(argument, open, Len(argument))
            closing == {i \in DOMAIN rest : rest[i] = ">"}
<1>1. PICK n \in Nat : n = Len(argument) /\ DOMAIN argument = 1 .. n
  BY LenProperties
<1>2. open + k + 1 <= n /\ open <= n /\ open \in 1 .. n
  BY <1>1
<1>3. FirstOf(argument) = open
  BY <1>1, <1>2, FirstFound
<1>4. /\ rest \in Seq(Characters) /\ Len(rest) = n - open + 1
      /\ DOMAIN rest = 1 .. n - open + 1
      /\ \A i \in 1 .. n - open + 1 : rest[i] = argument[open + i - 1]
  <2>1. n <= Len(argument) /\ open <= n + 1
    BY <1>1, <1>2
  <2>. QED  BY <1>1, <2>1, PartOfList
<1>. HIDE DEF rest
<1>5. rest # <<>> /\ rest[1] = "<"
  <2>1. 1 \in 1 .. n - open + 1 /\ open + 1 - 1 = open
    BY <1>2
  <2>2. 1 \in DOMAIN rest /\ rest[1] = "<"
    BY <1>4, <2>1
  <2>. QED  BY <1>4, <2>2, EmptySeq
<1>6. k + 2 \in closing
  <2>1. k + 2 \in 1 .. n - open + 1 /\ open + (k + 2) - 1 = open + k + 1
    BY <1>2
  <2>. QED  BY <1>4, <2>1
<1>7. ASSUME NEW i \in closing
      PROVE  k + 2 <= i
  <2>1. i \in 1 .. n - open + 1 /\ argument[open + i - 1] = ">"
    BY <1>4
  <2>2. open + i - 1 \notin open .. open + k
    BY <2>1
  <2>. QED  BY <2>1, <2>2
<1>8. closing \subseteq Nat /\ closing # {}
  <2>1. closing \subseteq 1 .. n - open + 1 /\ closing # {}
    BY <1>4, <1>6
  <2>. HIDE DEF closing
  <2>. QED  BY <2>1
<1>9. Min(closing) = k + 2
  <2>. HIDE DEF closing
  <2>1. PICK m \in Nat : m = Min(closing) /\ m \in closing /\ m <= k + 2
    BY <1>6, <1>8, MinIsLeast
  <2>2. k + 2 <= m
    BY <1>7, <2>1
  <2>. QED  BY <2>1, <2>2
<1>10. SubSeq(rest, 2, k + 1) = SubSeq(argument, open + 1, open + k)
  <2>1. /\ SubSeq(rest, 2, k + 1) \in Seq(Characters) /\ Len(SubSeq(rest, 2, k + 1)) = k
        /\ \A i \in 1 .. k : SubSeq(rest, 2, k + 1)[i] = rest[2 + i - 1]
    <3>1. k + 1 <= Len(rest) /\ 2 <= (k + 1) + 1 /\ (k + 1) - 2 + 1 = k
      BY <1>2, <1>4
    <3>. QED  BY <1>4, <3>1, PartOfList
  <2>2. /\ SubSeq(argument, open + 1, open + k) \in Seq(Characters)
        /\ Len(SubSeq(argument, open + 1, open + k)) = k
        /\ \A i \in 1 .. k : SubSeq(argument, open + 1, open + k)[i] = argument[open + 1 + i - 1]
    <3>1. /\ open + 1 \in Nat \ {0} /\ open + k \in Nat /\ open + k <= Len(argument)
          /\ open + 1 <= (open + k) + 1 /\ (open + k) - (open + 1) + 1 = k
      BY <1>1, <1>2
    <3>2. PICK a \in Nat \ {0}, b \in Nat : a = open + 1 /\ b = open + k
      BY <3>1
    <3>3. /\ SubSeq(argument, a, b) \in Seq(Characters) /\ Len(SubSeq(argument, a, b)) = b - a + 1
          /\ \A i \in 1 .. b - a + 1 : SubSeq(argument, a, b)[i] = argument[a + i - 1]
      BY <3>1, <3>2, PartOfList
    <3>. QED  BY <3>1, <3>2, <3>3
  <2>3. ASSUME NEW i \in 1 .. k
        PROVE  rest[2 + i - 1] = argument[open + 1 + i - 1]
    <3>1. 2 + i - 1 \in 1 .. n - open + 1 /\ open + (2 + i - 1) - 1 = open + 1 + i - 1
      BY <1>2
    <3>. QED  BY <1>4, <3>1
  <2>. DEFINE u == SubSeq(rest, 2, k + 1)
              v == SubSeq(argument, open + 1, open + k)
  <2>4. /\ u \in Seq(Characters) /\ v \in Seq(Characters) /\ Len(u) = Len(v)
        /\ \A i \in 1 .. Len(u) : u[i] = v[i]
    BY <2>1, <2>2, <2>3
  <2>. HIDE DEF u, v
  <2>5. u = v
    BY <2>4, SeqEqual
  <2>. QED  BY <2>5 DEF u, v
<1>11. rest = SubSeq(argument, FirstOf(argument), Len(argument))
  BY <1>3 DEF rest
<1>12. parse_path_argument(argument) = {Trim(SubSeq(rest, 2, Min(closing) - 1))}
  BY <1>5, <1>6, <1>11 DEF parse_path_argument, FirstOf
<1>. HIDE DEF closing
<1>13. Min(closing) - 1 = k + 1
  BY <1>9
<1>. QED  BY <1>10, <1>12, <1>13

(* A path without brackets goes up to the first white space.                 *)
LEMMA ParseBare ==
  ASSUME NEW argument \in Seq(Characters), argument # <<>>, Bare(argument)
  PROVE  parse_path_argument(argument) = {argument}
<1>. DEFINE n      == Len(argument)
            rest   == SubSeq(argument, 1, n)
            spaces == {i \in DOMAIN rest : rest[i] = "space"}
<1>1. n \in Nat \ {0} /\ DOMAIN argument = 1 .. n
  BY LenProperties, EmptySeq
<1>2. 1 \in DOMAIN argument /\ argument[1] # "space" /\ argument[1] # "<"
  BY <1>1 DEF Bare
<1>3. \A i \in 1 .. 1 - 1 : argument[i] = "space"
  OBVIOUS
<1>4. FirstOf(argument) = 1
  BY <1>2, <1>3, FirstFound
<1>5. rest = argument
  BY SubSeqFull
<1>6. spaces = {}
  BY <1>5 DEF Bare
<1>7. rest = SubSeq(argument, FirstOf(argument), n)
  BY <1>4
<1>. HIDE DEF rest
<1>8. rest[1] # "<"
  BY <1>2, <1>5
<1>9. parse_path_argument(argument) =
        {SubSeq(rest, 1, IF spaces = {} THEN Len(rest) ELSE Min(spaces) - 1)}
  BY <1>7, <1>8 DEF parse_path_argument, FirstOf
<1>10. SubSeq(rest, 1, Len(rest)) = argument
  BY <1>5, SubSeqFull
<1>. QED  BY <1>6, <1>9, <1>10

LEMMA ThreeLists ==
  ASSUME NEW S, NEW s \in Seq(S), NEW t \in Seq(S), NEW u \in Seq(S)
  PROVE  /\ s \o t \o u \in Seq(S)
         /\ Len(s \o t \o u) = Len(s) + Len(t) + Len(u)
         /\ DOMAIN (s \o t \o u) = 1 .. Len(s) + Len(t) + Len(u)
         /\ Len(s) \in Nat /\ Len(t) \in Nat /\ Len(u) \in Nat
         /\ \A i \in 1 .. Len(s) : (s \o t \o u)[i] = s[i]
         /\ \A i \in 1 .. Len(t) : (s \o t \o u)[Len(s) + i] = t[i]
         /\ \A i \in 1 .. Len(u) : (s \o t \o u)[Len(s) + Len(t) + i] = u[i]
<1>. DEFINE st == s \o t
<1>1. Len(s) \in Nat /\ Len(t) \in Nat /\ Len(u) \in Nat
  BY LenProperties
<1>2. /\ st \in Seq(S) /\ Len(st) = Len(s) + Len(t)
      /\ \A i \in 1 .. Len(s) + Len(t) : st[i] = IF i <= Len(s) THEN s[i] ELSE t[i - Len(s)]
  BY ConcatProperties
<1>. HIDE DEF st
<1>3. /\ st \o u \in Seq(S) /\ Len(st \o u) = Len(st) + Len(u)
      /\ \A i \in 1 .. Len(st) + Len(u) :
           (st \o u)[i] = IF i <= Len(st) THEN st[i] ELSE u[i - Len(st)]
  <2>1. st \in Seq(S)
    BY <1>2
  <2>. QED  BY <2>1, ConcatProperties
<1>4. DOMAIN (st \o u) = 1 .. Len(s) + Len(t) + Len(u)
  BY <1>2, <1>3, LenProperties
<1>5. \A i \in 1 .. Len(s) : (st \o u)[i] = s[i]
  BY <1>1, <1>2, <1>3
<1>6. ASSUME NEW i \in 1 .. Len(t)
      PROVE  (st \o u)[Len(s) + i] = t[i]
  <2>1. /\ Len(s) + i \in 1 .. Len(s) + Len(t) /\ Len(s) + i \in 1 .. Len(st) + Len(u)
        /\ ~(Len(s) + i <= Len(s)) /\ (Len(s) + i) - Len(s) = i
    BY <1>1, <1>2
  <2>. QED  BY <1>2, <1>3, <2>1
<1>7. ASSUME NEW i \in 1 .. Len(u)
      PROVE  (st \o u)[Len(s) + Len(t) + i] = u[i]
  <2>1. /\ Len(s) + Len(t) + i \in 1 .. Len(st) + Len(u)
        /\ ~(Len(s) + Len(t) + i <= Len(st)) /\ (Len(s) + Len(t) + i) - Len(st) = i
    BY <1>1, <1>2
  <2>. QED  BY <1>3, <2>1
<1>8. Len(st \o u) = Len(s) + Len(t) + Len(u)
  BY <1>2, <1>3
<1>. QED  BY <1>1, <1>3, <1>4, <1>5, <1>6, <1>7, <1>8 DEF st

(* A recipient is the path of the argument it is written in, with brackets,  *)
(* with white space around them, or without.                                 *)
LEMMA RecipientPath ==
  ASSUME NEW r \in Seq(Characters), r # <<>>, Bare(r)
  PROVE  /\ parse_path_argument(r) = {r}
         /\ parse_path_argument(<<"<">> \o r \o <<">">>) = {r}
         /\ parse_path_argument(<<"space", "<", "space">> \o r \o <<"space", ">", "space">>) = {r}
<1>1. r \in Seq(Characters) /\ r # <<>> /\ Bare(r)
  OBVIOUS
<1>2. PICK n \in Nat \ {0} : n = Len(r) /\ DOMAIN r = 1 .. n
  BY <1>1, LenProperties, EmptySeq
<1>3. \A i \in 1 .. n : r[i] \notin {"space", "<", ">"}
  BY <1>1, <1>2 DEF Bare
<1>4. parse_path_argument(r) = {r}
  BY <1>1, ParseBare
<1>5. parse_path_argument(<<"<">> \o r \o <<">">>) = {r}
  <2>. DEFINE text == <<"<">> \o r \o <<">">>
              part == SubSeq(text, 1 + 1, 1 + n)
  <2>1. /\ <<"<">> \in Seq(Characters) /\ Len(<<"<">>) = 1 /\ <<"<">>[1] = "<"
        /\ <<">">> \in Seq(Characters) /\ Len(<<">">>) = 1 /\ <<">">>[1] = ">"
    BY OneElement DEF Characters
  <2>2. /\ text \in Seq(Characters) /\ Len(text) = n + 2 /\ text[1] = "<" /\ text[n + 2] = ">"
        /\ \A i \in 1 .. n : text[i + 1] = r[i]
    <3>1. /\ text \in Seq(Characters) /\ Len(text) = 1 + n + 1
          /\ \A i \in 1 .. 1 : text[i] = <<"<">>[i]
          /\ \A i \in 1 .. n : text[1 + i] = r[i]
          /\ \A i \in 1 .. 1 : text[1 + n + i] = <<">">>[i]
      BY <1>1, <1>2, <2>1, ThreeLists
    <3>2. text[1] = "<" /\ text[1 + n + 1] = ">"
      BY <2>1, <3>1
    <3>. HIDE DEF text
    <3>. QED  BY <3>1, <3>2
  <2>. HIDE DEF text
  <2>3. \A i \in 1 .. 1 + n : text[i] # ">"
    <3>1. SUFFICES ASSUME NEW i \in 1 .. 1 + n PROVE text[i] # ">"
      OBVIOUS
    <3>2. CASE i = 1
      BY <2>2, <3>2
    <3>3. CASE i # 1
      <4>1. PICK j \in 1 .. n : j = i - 1 /\ i = j + 1
        BY <3>3
      <4>2. text[i] = r[j]
        BY <2>2, <4>1
      <4>. QED  BY <1>3, <4>1, <4>2
    <3>. QED  BY <3>2, <3>3
  <2>4. parse_path_argument(text) = {Trim(part)}
    <3>1. 1 + n + 1 <= Len(text) /\ text[1 + n + 1] = ">" /\ \A i \in 1 .. 1 - 1 : text[i] = "space"
      BY <2>2
    <3>. QED  BY <2>2, <2>3, <3>1, ParseBracketed
  <2>5. part \in Seq(Characters) /\ Len(part) = n /\ \A i \in 1 .. n : part[i] = r[i]
    <3>1. 1 + n <= Len(text) /\ 1 + 1 <= (1 + n) + 1 /\ (1 + n) - (1 + 1) + 1 = n
      BY <2>2
    <3>2. /\ part \in Seq(Characters) /\ Len(part) = (1 + n) - (1 + 1) + 1
          /\ \A i \in 1 .. (1 + n) - (1 + 1) + 1 : part[i] = text[1 + 1 + i - 1]
      BY <2>2, <3>1, PartOfList
    <3>3. \A i \in 1 .. n : 1 + 1 + i - 1 = i + 1
      OBVIOUS
    <3>. HIDE DEF part
    <3>. QED  BY <2>2, <3>1, <3>2, <3>3
  <2>. HIDE DEF part
  <2>6. part = r
    BY <1>1, <1>2, <2>5, SeqEqual
  <2>7. Trim(r) = r
    BY <1>1, TrimNothing DEF Trim, Bare
  <2>. QED  BY <2>4, <2>6, <2>7 DEF text
<1>6. parse_path_argument(<<"space", "<", "space">> \o r \o <<"space", ">", "space">>) = {r}
  <2>. DEFINE s    == <<"space", "<", "space">>
              e    == <<"space", ">", "space">>
              text == s \o r \o e
              part == SubSeq(text, 2 + 1, 2 + (n + 2))
  <2>1. /\ Len(s) = 3 /\ s[1] = "space" /\ s[2] = "<" /\ s[3] = "space"
        /\ Len(e) = 3 /\ e[1] = "space" /\ e[2] = ">" /\ e[3] = "space"
    OBVIOUS
  <2>2. s \in Seq(Characters) /\ e \in Seq(Characters)
    BY DEF Characters
  <2>. HIDE DEF s, e
  <2>3. /\ text \in Seq(Characters) /\ Len(text) = n + 6
        /\ text[1] = "space" /\ text[2] = "<" /\ text[3] = "space"
        /\ \A i \in 1 .. n : text[3 + i] = r[i]
        /\ text[n + 4] = "space" /\ text[n + 5] = ">"
    <3>0. /\ text \in Seq(Characters) /\ Len(text) = Len(s) + Len(r) + Len(e)
          /\ \A i \in 1 .. Len(s) : text[i] = s[i]
          /\ \A i \in 1 .. Len(r) : text[Len(s) + i] = r[i]
          /\ \A i \in 1 .. Len(e) : text[Len(s) + Len(r) + i] = e[i]
      BY <1>1, <2>2, ThreeLists, SMTT(30)
    <3>. HIDE DEF text
    <3>1. /\ text \in Seq(Characters) /\ Len(text) = 3 + n + 3
          /\ \A i \in 1 .. 3 : text[i] = s[i]
          /\ \A i \in 1 .. n : text[3 + i] = r[i]
          /\ \A i \in 1 .. 3 : text[3 + n + i] = e[i]
      BY <1>2, <2>1, <3>0
    <3>2. text[1] = "space" /\ text[2] = "<" /\ text[3] = "space"
      BY <2>1, <3>1
    <3>3. text[3 + n + 1] = "space" /\ text[3 + n + 2] = ">"
      BY <2>1, <3>1
    <3>4. 3 + n + 1 = n + 4 /\ 3 + n + 2 = n + 5
      OBVIOUS
    <3>. QED  BY <3>1, <3>2, <3>3, <3>4
  <2>. HIDE DEF text
  <2>4. \A i \in 2 .. n + 4 : text[i] # ">"
    <3>. SUFFICES ASSUME NEW i \in 2 .. n + 4 PROVE text[i] # ">"
      OBVIOUS
    <3>1. CASE i \in {2, 3, n + 4}
      BY <2>3, <3>1
    <3>2. CASE i \notin {2, 3, n + 4}
      <4>1. PICK j \in 1 .. n : i = 3 + j
        <5>1. i - 3 \in 1 .. n /\ i = 3 + (i - 3)
          BY <3>2
        <5>. QED  BY <5>1
      <4>. QED  BY <1>3, <2>3, <4>1
    <3>. QED  BY <3>1, <3>2
  <2>5. parse_path_argument(text) = {Trim(part)}
    <3>1. /\ 2 + (n + 2) + 1 <= Len(text) /\ text[2 + (n + 2) + 1] = ">"
          /\ \A i \in 1 .. 2 - 1 : text[i] = "space"
          /\ \A i \in 2 .. 2 + (n + 2) : text[i] # ">"
      <4>1. 2 + (n + 2) + 1 = n + 5 /\ 2 + (n + 2) = n + 4 /\ 1 .. 2 - 1 = {1}
        OBVIOUS
      <4>. QED  BY <2>3, <2>4, <4>1
    <3>2. 2 \in Nat \ {0} /\ n + 2 \in Nat
      OBVIOUS
    <3>. QED  BY <2>3, <3>1, <3>2, ParseBracketed
  <2>6. /\ part \in Seq(Characters) /\ Len(part) = n + 2 /\ part[1] = "space" /\ part[n + 2] = "space"
        /\ \A i \in 1 .. n : part[i + 1] = r[i]
    <3>1. /\ 2 + (n + 2) <= Len(text) /\ 2 + 1 <= (2 + (n + 2)) + 1
          /\ (2 + (n + 2)) - (2 + 1) + 1 = n + 2 /\ 2 + (n + 2) \in Nat /\ 2 + 1 \in Nat \ {0}
      BY <2>3
    <3>2. PICK b \in Nat : b = 2 + (n + 2) /\ b <= Len(text) /\ b - 3 + 1 = n + 2
      BY <3>1
    <3>3. part = SubSeq(text, 3, b)
      BY <3>2
    <3>. HIDE DEF part
    <3>4. 3 \in Nat \ {0} /\ 3 <= b + 1
      BY <3>2
    <3>5. /\ part \in Seq(Characters) /\ Len(part) = n + 2
          /\ \A i \in 1 .. n + 2 : part[i] = text[3 + i - 1]
      BY <2>3, <3>2, <3>3, <3>4, PartOfList
    <3>6. /\ 1 \in 1 .. n + 2 /\ 3 + 1 - 1 = 3 /\ n + 2 \in 1 .. n + 2 /\ 3 + (n + 2) - 1 = n + 4
          /\ \A i \in 1 .. n : i + 1 \in 1 .. n + 2 /\ 3 + (i + 1) - 1 = 3 + i
      OBVIOUS
    <3>. QED  BY <2>3, <3>5, <3>6
  <2>. HIDE DEF part
  <2>7. Trim(part) = SubSeq(part, 2, n + 1)
    <3>1. DOMAIN part = 1 .. n + 2 /\ 2 \in DOMAIN part /\ n + 1 \in DOMAIN part
      BY <2>6, LenProperties
    <3>2. \A i \in DOMAIN part : i = 1 \/ i = n + 2 \/ (2 <= i /\ i <= n + 1 /\ i = (i - 1) + 1)
      BY <3>1
    <3>3. part[2] = r[1] /\ part[n + 1] = r[n] /\ 1 \in 1 .. n /\ n \in 1 .. n
      <4>1. 1 \in 1 .. n /\ n \in 1 .. n /\ 2 = 1 + 1
        OBVIOUS
      <4>. QED  BY <2>6, <4>1
    <3>4. part[2] \notin {"space"} /\ part[n + 1] \notin {"space"}
      BY <1>3, <3>3
    <3>5. \A i \in DOMAIN part : part[i] \notin {"space"} => 2 <= i /\ i <= n + 1
      BY <2>6, <3>2
    <3>. QED  BY <2>6, <3>1, <3>4, <3>5, TrimEnds DEF Trim
  <2>8. SubSeq(part, 2, n + 1) = r
    <3>. DEFINE u == SubSeq(part, 2, n + 1)
    <3>1. n + 1 <= Len(part) /\ 2 <= (n + 1) + 1 /\ (n + 1) - 2 + 1 = n /\ n + 1 \in Nat
      BY <2>6
    <3>2. /\ u \in Seq(Characters) /\ Len(u) = (n + 1) - 2 + 1
          /\ \A i \in 1 .. (n + 1) - 2 + 1 : u[i] = part[2 + i - 1]
      BY <2>6, <3>1, PartOfList
    <3>. HIDE DEF u
    <3>3. \A i \in 1 .. n : 2 + i - 1 = i + 1
      OBVIOUS
    <3>4. Len(u) = n /\ \A i \in 1 .. n : u[i] = r[i]
      BY <2>6, <3>1, <3>2, <3>3
    <3>5. u = r
      BY <1>1, <1>2, <3>2, <3>4, SeqEqual
    <3>. QED  BY <3>5 DEF u
  <2>. QED  BY <2>5, <2>7, <2>8 DEF text, s, e
<1>. QED  BY <1>4, <1>5, <1>6

(* A recipient path is made of the characters of its argument.               *)
LEMMA PathIsText ==
  ASSUME NEW argument \in Seq(Characters), NEW path \in parse_path_argument(argument)
  PROVE  path \in Seq(Characters)
<1>. DEFINE n       == Len(argument)
            starts  == {i \in 1 .. n + 1 : i \in DOMAIN argument => argument[i] # "space"}
            rest    == SubSeq(argument, Min(starts), n)
            closing == {i \in DOMAIN rest : rest[i] = ">"}
            spaces  == {i \in DOMAIN rest : rest[i] = "space"}
<1>1. n \in Nat /\ DOMAIN argument = 1 .. n
  BY LenProperties
<1>2. starts \subseteq 1 .. n + 1 /\ n + 1 \in starts
  BY <1>1
<1>3. parse_path_argument(argument) =
        CASE rest # <<>> /\ rest[1] = "<" /\ closing = {} -> {}
          [] rest # <<>> /\ rest[1] = "<" /\ closing # {} ->
               {Trim(SubSeq(rest, 2, Min(closing) - 1))}
          [] OTHER -> {SubSeq(rest, 1, IF spaces = {} THEN Len(rest) ELSE Min(spaces) - 1)}
  BY DEF parse_path_argument
<1>. HIDE DEF starts
<1>4. PICK first \in 1 .. n + 1 : first = Min(starts)
  <2>1. starts \subseteq Nat /\ starts # {}
    BY <1>1, <1>2
  <2>. QED  BY <1>2, <2>1, MinIsLeast
<1>5. rest \in Seq(Characters)
  BY <1>1, <1>4, PartOfList
<1>. HIDE DEF rest
<1>6. PICK m \in Nat : m = Len(rest) /\ DOMAIN rest = 1 .. m
  BY <1>5, LenProperties
<1>7. closing \subseteq 1 .. m /\ spaces \subseteq 1 .. m /\ \A i \in closing : rest[i] = ">"
  BY <1>6
<1>. HIDE DEF closing, spaces
<1>8. closing \subseteq Nat /\ spaces \subseteq Nat
  BY <1>7
<1>9. /\ closing # {} => Min(closing) \in closing
      /\ spaces # {} => Min(spaces) \in spaces
  BY <1>8, MinIsLeast
<1>10. CASE rest # <<>> /\ rest[1] = "<"
  <2>1. closing # {} /\ path = Trim(SubSeq(rest, 2, Min(closing) - 1))
    BY <1>3, <1>10
  <2>2. PICK c \in 1 .. m : c = Min(closing) /\ rest[c] = ">"
    BY <1>7, <1>9, <2>1
  <2>3. c >= 2
    BY <1>10, <2>2
  <2>4. PICK d \in Nat : d = c - 1 /\ d <= Len(rest) /\ 2 <= d + 1
    BY <1>6, <2>3
  <2>5. SubSeq(rest, 2, d) \in Seq(Characters)
    BY <1>5, <2>4, PartOfList
  <2>. QED  BY <2>1, <2>2, <2>4, <2>5, TrimLeaves DEF Trim
<1>11. CASE ~(rest # <<>> /\ rest[1] = "<")
  <2>1. path = SubSeq(rest, 1, IF spaces = {} THEN Len(rest) ELSE Min(spaces) - 1)
    BY <1>3, <1>11
  <2>2. PICK d \in Nat : path = SubSeq(rest, 1, d) /\ d <= Len(rest)
    <3>1. spaces # {} => Min(spaces) \in 1 .. m
      BY <1>7, <1>9
    <3>2. CASE spaces = {}
      BY <1>6, <2>1, <3>2
    <3>3. CASE spaces # {}
      <4>1. Min(spaces) - 1 \in Nat /\ Min(spaces) - 1 <= Len(rest)
        BY <1>6, <3>1, <3>3
      <4>. QED  BY <2>1, <3>3, <4>1
    <3>. QED  BY <3>2, <3>3
  <2>. QED  BY <1>5, <2>2, PartOfList
<1>. QED  BY <1>10, <1>11

-----------------------------------------------------------------------------
(***************************************************************************)
(* Credentials in files.                                                   *)
(***************************************************************************)
(* One line end is cut, and nothing else.                                    *)
IsCutFrom(text, bytes) ==
  \E end \in {<<>>, <<"LF">>, <<"CR", "LF">>} :
    /\ bytes = text \o end
    /\ end = <<>> => ~IsSuffix(<<"LF">>, text)
    /\ end = <<"LF">> => ~IsSuffix(<<"CR">>, text)

LEMMA StrippedProperties ==
  ASSUME NEW bytes \in Seq(Bytes)
  PROVE  /\ Stripped(bytes) \in Seq(Bytes)
         /\ IsCutFrom(Stripped(bytes), bytes)
         /\ ToSet(Stripped(bytes)) \subseteq ToSet(bytes)
         /\ Stripped(bytes) = <<>> => bytes \in {<<>>, <<"LF">>, <<"CR", "LF">>}
<1>. DEFINE text == Stripped(bytes)
            lf   == <<"LF">>
            crlf == <<"CR", "LF">>
<1>1. "LF" \in Bytes /\ "CR" \in Bytes
  BY DEF Bytes
<1>0. lf \in Seq(Bytes) /\ Len(lf) = 1
  BY <1>1, OneElement
<1>2. lf \in Seq(Bytes) /\ Len(lf) = 1 /\ lf[1] = "LF"
  BY <1>0
<1>3. crlf \in Seq(Bytes) /\ Len(crlf) = 2
  BY <1>1, TwoElements
<1>4. crlf[1] = "CR" /\ crlf[2] = "LF"
  OBVIOUS
<1>5. <<>> \in Seq(Bytes) /\ Len(<<>>) = 0
  BY EmptySeq
<1>6. \A t \in Seq(Bytes) :
        /\ IsSuffix(lf, t) <=> Len(t) # 0 /\ t[Len(t)] = "LF"
        /\ IsSuffix(<<"CR">>, t) <=> Len(t) # 0 /\ t[Len(t)] = "CR"
        /\ IsSuffix(crlf, t) <=> 2 <= Len(t) /\ t[Len(t) - 1] = "CR" /\ t[Len(t)] = "LF"
  BY <1>1, EndsWithOne, EndsWithTwo
<1>7. text = CASE IsSuffix(crlf, bytes) -> SubSeq(bytes, 1, Len(bytes) - 2)
               [] IsSuffix(lf, bytes) /\ ~IsSuffix(crlf, bytes) -> SubSeq(bytes, 1, Len(bytes) - 1)
               [] OTHER -> bytes
  BY DEF Stripped, Front
<1>8. PICK n \in Nat : n = Len(bytes)
  BY LenProperties
<1>. DEFINE Ends(end) == /\ bytes = text \o end
                         /\ end = <<>> => ~IsSuffix(lf, text)
                         /\ end = lf => ~IsSuffix(<<"CR">>, text)
<1>. HIDE DEF text, lf, crlf
<1>9. text \in Seq(Bytes) /\ \E end \in {<<>>, lf, crlf} : Ends(end)
  <2>1. CASE IsSuffix(crlf, bytes)
    <3>1. 2 <= n /\ bytes[n - 1] = "CR" /\ bytes[n] = "LF" /\ text = SubSeq(bytes, 1, n - 2)
      BY <1>6, <1>7, <1>8, <2>1
    <3>2. PICK m \in Nat : n = m + 2 /\ n - 2 = m /\ n - 1 = m + 1
      BY <3>1
    <3>3. \A i \in 1 .. 2 : bytes[m + i] = crlf[i]
      <4>1. \A i \in 1 .. 2 : i = 1 \/ i = 2
        OBVIOUS
      <4>. QED  BY <1>4, <3>1, <3>2, <4>1
    <3>4. Len(bytes) = m + 2 /\ text = SubSeq(bytes, 1, m) /\ m <= Len(bytes) /\ 1 <= m + 1
          /\ 2 \in Nat /\ 1 \in Nat \ {0}
      BY <1>8, <3>1, <3>2
    <3>5. text \in Seq(Bytes) /\ bytes = text \o crlf
      <4>1. bytes = SubSeq(bytes, 1, m) \o crlf
        <5>1. PICK k \in Nat : k = 2
          OBVIOUS
        <5>2. Len(bytes) = m + k /\ Len(crlf) = k /\ \A i \in 1 .. k : bytes[m + i] = crlf[i]
          BY <1>3, <3>3, <3>4, <5>1
        <5>. HIDE DEF Ends
        <5>3. crlf \in Seq(Bytes)
          BY <1>3
        <5>. QED  BY <5>2, <5>3, EndCutOff
      <4>2. SubSeq(bytes, 1, m) \in Seq(Bytes)
        BY <3>4, PartOfList
      <4>. QED  BY <3>4, <4>1, <4>2
    <3>6. crlf # <<>> /\ crlf # lf
      <4>1. crlf # <<>>
        BY <1>3, EmptySeq
      <4>2. crlf # lf
        <5>1. Len(crlf) # Len(lf)
          BY <1>0, <1>3
        <5>. QED  BY <5>1, Zenon
      <4>. QED  BY <4>1, <4>2
    <3>7. Ends(crlf)
      BY <3>5, <3>6
    <3>. QED  BY <3>5, <3>7
  <2>2. CASE IsSuffix(lf, bytes) /\ ~IsSuffix(crlf, bytes)
    <3>1. n # 0 /\ bytes[n] = "LF" /\ text = SubSeq(bytes, 1, n - 1)
      BY <1>6, <1>7, <1>8, <2>2
    <3>2. PICK m \in Nat : n = m + 1 /\ n - 1 = m
      BY <3>1
    <3>3. \A i \in 1 .. 1 : bytes[m + i] = lf[i]
      BY <1>2, <3>1, <3>2
    <3>4. /\ Len(bytes) = m + 1 /\ text = SubSeq(bytes, 1, m) /\ m <= Len(bytes) /\ 1 <= m + 1
          /\ 1 \in Nat /\ 1 \in Nat \ {0}
      BY <1>8, <3>1, <3>2
    <3>5. /\ text \in Seq(Bytes) /\ bytes = text \o lf /\ Len(text) = m - 1 + 1
          /\ \A i \in 1 .. m - 1 + 1 : text[i] = bytes[1 + i - 1]
      <4>1. bytes = SubSeq(bytes, 1, m) \o lf
        <5>1. PICK k \in Nat : k = 1
          OBVIOUS
        <5>2. Len(bytes) = m + k /\ Len(lf) = k /\ \A i \in 1 .. k : bytes[m + i] = lf[i]
          BY <1>2, <3>3, <3>4, <5>1
        <5>. HIDE DEF Ends
        <5>. QED  BY <1>2, <5>2, EndCutOff
      <4>2. /\ SubSeq(bytes, 1, m) \in Seq(Bytes) /\ Len(SubSeq(bytes, 1, m)) = m - 1 + 1
            /\ \A i \in 1 .. m - 1 + 1 : SubSeq(bytes, 1, m)[i] = bytes[1 + i - 1]
        BY <3>4, PartOfList
      <4>. QED  BY <3>4, <4>1, <4>2
    <3>6. Len(text) = m /\ (m # 0 => text[m] = bytes[m])
      <4>1. m - 1 + 1 = m /\ (m # 0 => m \in 1 .. m - 1 + 1) /\ 1 + m - 1 = m
        OBVIOUS
      <4>. QED  BY <3>5, <4>1
    <3>7. ~IsSuffix(<<"CR">>, text)
      <4>1. SUFFICES ASSUME Len(text) # 0, text[Len(text)] = "CR" PROVE FALSE
        BY <1>6, <3>5
      <4>2. m # 0 /\ bytes[m] = "CR"
        BY <3>6, <4>1
      <4>3. 2 <= n /\ bytes[n - 1] = "CR"
        BY <3>2, <4>2
      <4>. QED  BY <1>6, <1>8, <2>2, <3>1, <4>3
    <3>8. Ends(lf)
      BY <1>2, <1>5, <3>5, <3>7
    <3>. QED  BY <3>5, <3>8
  <2>3. CASE ~IsSuffix(lf, bytes) /\ ~IsSuffix(crlf, bytes)
    <3>1. text = bytes
      BY <1>7, <2>3
    <3>2. bytes = bytes \o <<>>
      BY ConcatEmptySeq
    <3>3. Ends(<<>>)
      BY <1>2, <1>5, <2>3, <3>1, <3>2
    <3>. QED  BY <3>1, <3>3
  <2>. QED  BY <2>1, <2>2, <2>3
<1>10. PICK end \in {<<>>, lf, crlf} : Ends(end)
  BY <1>9
<1>11. end \in Seq(Bytes)
  BY <1>2, <1>3, <1>5, <1>10
<1>12. ToSet(text) \subseteq ToSet(bytes)
  BY <1>9, <1>10, <1>11, ToSetOfConcat
<1>13. text = <<>> => bytes = end
  BY <1>10, <1>11, ConcatEmptySeq
<1>14. IsCutFrom(text, bytes)
  BY <1>10 DEF IsCutFrom, lf, crlf
<1>. QED  BY <1>9, <1>10, <1>12, <1>13, <1>14 DEF text, lf, crlf

(* Where the paths of a configuration lead.                                  *)
LEMMA JoinedPath ==
  ASSUME NEW path \in Paths
  PROVE  /\ Join(path) \in Paths /\ SecretPath(path) \in Paths
         /\ Place(Join(path)) = Join(path)
         /\ SecretPath(path) = Empty <=> path = Empty
         /\ path # Empty => SecretPath(path) = Join(path)
         /\ HeldAt(path) = IF Join(path) \in DOMAIN held THEN held[Join(path)]
                           ELSE {[kind |-> "missing", bytes |-> <<>>]}
<1>1. PICK d \in Directory, f \in Filename : path = <<d, f>>
  BY DEF Paths
<1>2. path[1] = d /\ path[2] = f
  BY <1>1
<1>3. Join(path) = IF d = "relative" THEN <<"base", f>> ELSE path
  BY <1>2 DEF Join
<1>4. Join(path) \in Paths
  BY <1>1, <1>3, StartupAssumption DEF Paths
<1>5. Join(path)[1] # "relative"
  BY <1>2, <1>3
<1>6. Join(path) # Empty
  BY <1>5 DEF Empty
<1>7. Place(Join(path)) = Join(path)
  BY <1>5 DEF Place
<1>. QED  BY <1>4, <1>6, <1>7 DEF SecretPath, HeldAt, Join

(* The file that is opened is one of those there have been.                  *)
LEMMA FileHeld ==
  ASSUME FilesHeld, NEW path \in Paths
  PROVE  FileAt(Join(path)) \in HeldAt(path) /\ FileAt(Join(path)) \in File
<1>1. [kind |-> "missing", bytes |-> <<>>] \in File
  BY EmptySeq DEF File
<1>2. Place(Join(path)) = Join(path)
  BY JoinedPath
<1>3. FileAt(Join(path)) = IF Join(path) \in DOMAIN fs THEN fs[Join(path)]
                           ELSE [kind |-> "missing", bytes |-> <<>>]
  BY <1>2 DEF FileAt
<1>4. HeldAt(path) = IF Join(path) \in DOMAIN held THEN held[Join(path)]
                     ELSE {[kind |-> "missing", bytes |-> <<>>]}
  BY JoinedPath
<1>5. /\ DOMAIN held = DOMAIN fs
      /\ \A place \in DOMAIN fs : fs[place] \in held[place] /\ fs[place] \in File
  BY DEF FilesHeld
<1>6. CASE Join(path) \in DOMAIN fs
  BY <1>3, <1>4, <1>5, <1>6
<1>7. CASE Join(path) \notin DOMAIN fs
  BY <1>1, <1>3, <1>4, <1>5, <1>7
<1>. QED  BY <1>6, <1>7

(* A file is a credential, or unfit to be one.                               *)
LEMMA FileProperties ==
  ASSUME NEW file \in File
  PROVE  /\ Stripped(file.bytes) \in Seq(Bytes)
         /\ HoldsSecret(file) \/ IsUnfit(file)
         /\ \A path : HoldsSecret(file) /\ file \in HeldAt(path) =>
              IsFiled(Stripped(file.bytes), path)
<1>. DEFINE bytes == file.bytes
<1>1. bytes \in Seq(Bytes)
  BY DEF File
<1>2. /\ Stripped(bytes) \in Seq(Bytes)
      /\ IsCutFrom(Stripped(bytes), bytes)
      /\ ToSet(Stripped(bytes)) \subseteq ToSet(bytes)
      /\ Stripped(bytes) = <<>> => bytes \in {<<>>, <<"LF">>, <<"CR", "LF">>}
  BY <1>1, StrippedProperties
<1>3. Len(bytes) \in Nat /\ MaxSecretBytes \in Nat
  BY <1>1, LenProperties, StartupAssumption
<1>4. Len(bytes) > MaxSecretBytes \/ Len(bytes) <= MaxSecretBytes
  BY <1>3
<1>5. HoldsSecret(file) \/ IsUnfit(file)
  <2>. HIDE DEF bytes
  <2>1. HoldsSecret(file) = /\ file.kind = "regular"
                            /\ Len(bytes) <= MaxSecretBytes
                            /\ "bad" \notin ToSet(Stripped(bytes))
                            /\ Stripped(bytes) # <<>>
    BY Zenon DEF HoldsSecret, bytes
  <2>2. IsUnfit(file) = \/ file.kind # "regular"
                        \/ Len(bytes) > MaxSecretBytes
                        \/ "bad" \in ToSet(bytes)
                        \/ bytes \in {<<>>, <<"LF">>, <<"CR", "LF">>}
    BY Zenon DEF IsUnfit, bytes
  <2>3. "bad" \in ToSet(Stripped(bytes)) => "bad" \in ToSet(bytes)
    BY <1>2
  <2>. QED  BY <1>2, <1>4, <2>1, <2>2, <2>3, Zenon
<1>6. ASSUME NEW path, HoldsSecret(file), file \in HeldAt(path)
      PROVE  IsFiled(Stripped(bytes), path)
  <2>1. PICK end \in {<<>>, <<"LF">>, <<"CR", "LF">>} :
          /\ bytes = Stripped(bytes) \o end
          /\ end = <<>> => ~IsSuffix(<<"LF">>, Stripped(bytes))
          /\ end = <<"LF">> => ~IsSuffix(<<"CR">>, Stripped(bytes))
    BY <1>2, Zenon DEF IsCutFrom
  <2>2. file.kind = "regular" /\ Len(bytes) <= MaxSecretBytes
    BY <1>6 DEF HoldsSecret
  <2>. QED  BY <1>6, <2>1, <2>2, Zenon DEF IsFiled
<1>. QED  BY <1>2, <1>5, <1>6, Zenon

(* A credential whose source is one of the two, and not both.                *)
LEMMA OneSource ==
  ASSUME IsConfig(config), NEW c \in Credentials,
         Cardinality(config.secret[c].value) + Cardinality(config.secret[c].file) = 1
  PROVE  HasOneSource(config.secret[c])
<1>. DEFINE v == config.secret[c].value
            f == config.secret[c].file
<1>1. IsOptional(v) /\ IsOptional(f)
  BY DEF IsConfig
<1>. HIDE DEF v, f
<1>2. ASSUME NEW s, IsOptional(s), s # {}
      PROVE  Cardinality(s) = 1
  <2>1. PICK x \in s : s = {x}
    BY <1>2 DEF IsOptional
  <2>. QED  BY <2>1, FS_Singleton
<1>3. Cardinality({}) = 0
  BY FS_EmptySet
<1>4. CASE v = {} /\ f = {}
  BY <1>3, <1>4 DEF v, f
<1>5. CASE v # {} /\ f # {}
  BY <1>1, <1>2, <1>5 DEF v, f
<1>6. CASE v = {} /\ f # {}
  BY <1>6 DEF HasOneSource, v, f
<1>7. CASE v # {} /\ f = {}
  BY <1>7 DEF HasOneSource, v, f
<1>. QED  BY <1>4, <1>5, <1>6, <1>7

(* A bare ASCII address is accepted.                                         *)
LEMMA BareAsciiIsAddress ==
  ASSUME NEW address \in Seq(Characters), IsBareAscii(address)
  PROVE  IsAddress(address)
<1>1. PICK n \in Nat : n = Len(address) /\ DOMAIN address = 1 .. n
  BY LenProperties
<1>2. PICK at \in 2 .. n - 1 :
        /\ address[at] = "@"
        /\ \A k \in 1 .. n \ {at} : address[k] \in {"a", "b", "A"}
  BY <1>1 DEF IsBareAscii
<1>3. at \in 1 .. n /\ 1 < at /\ at < n
  OBVIOUS
<1>4. \A k \in 1 .. n : k = at \/ address[k] \in {"a", "b", "A"}
  BY <1>2
<1>5. Ats(address) = {at}
  BY <1>1, <1>2, <1>3, <1>4 DEF Ats
<1>6. Splits(address, at)
  BY <1>1, <1>3 DEF Splits
<1>7. \A k \in 1 .. n : address[k] \notin {"space", "<", ">", "comma", "u"}
  BY <1>2, <1>4
<1>. QED  BY <1>1, <1>5, <1>6, <1>7 DEF IsAddress

-----------------------------------------------------------------------------
(***************************************************************************)
(* The steps.                                                              *)
(***************************************************************************)
LEMMA InitHolds == Init => IInv
<1>. SUFFICES ASSUME Init PROVE IInv
  OBVIOUS
<1>1. PICK start \in Starts : config = start.config /\ fs = start.fs
  BY DEF Init
<1>2. /\ IsConfig(config)
      /\ DOMAIN fs \subseteq Paths /\ IsFiniteSet(DOMAIN fs) /\ fs \in [DOMAIN fs -> File]
  BY <1>1, StartupAssumption
<1>3. /\ held = [place \in DOMAIN fs |-> {fs[place]}]
      /\ pc = "start" /\ secret = config.secret /\ exceptions = <<>> /\ todo = <<>>
  BY DEF Init
<1>4. TypeOK
  <2>1. /\ secret \in [Credentials -> [value : SUBSET Seq(Bytes), file : SUBSET Paths]]
        /\ \A c \in Credentials :
             IsOptional(secret[c].value) /\ IsOptional(secret[c].file)
    BY <1>2, <1>3 DEF IsConfig
  <2>2. exceptions \in Seq([address : Seq(Characters), allow_split_delivery : BOOLEAN])
        /\ todo \in Seq(Paths)
    BY <1>3, EmptySeq
  <2>. QED  BY <1>3, <2>1, <2>2 DEF TypeOK, Loaded
<1>5. FilesHeld
  BY <1>2, <1>3 DEF FilesHeld
<1>6. Sourced /\ ExceptionsNormalized /\ RefusedForCause
  BY <1>3 DEF Sourced, ExceptionsNormalized, RefusedForCause, Loaded, Stages
<1>. QED  BY <1>2, <1>4, <1>5, <1>6 DEF IInv

(* A step of the start leaves the configuration and the files alone, and     *)
(* with them what is said of them.                                           *)
LEMMA EnvironmentKept ==
  ASSUME IInv, Environment
  PROVE  /\ IsConfig(config)' /\ FilesHeld'
         /\ HasCause' <=> HasCause
         /\ \A text, path : IsFiled(text, path)' <=> IsFiled(text, path)
         /\ \A c : secret'[c] = secret[c] => (CredentialSourced(c)' <=> CredentialSourced(c))
<1>1. config' = config /\ fs' = fs /\ held' = held
  BY DEF Environment
<1>2. IsConfig(config)' /\ FilesHeld'
  BY <1>1 DEF IInv, FilesHeld
<1>3. \A path : HeldAt(path)' = HeldAt(path)
  BY <1>1 DEF HeldAt
<1>4. HasCause' <=> HasCause
  BY <1>1, Zenon DEF HasCause, HeldAt
<1>5. \A text, path : IsFiled(text, path)' <=> IsFiled(text, path)
  BY <1>1, Zenon DEF IsFiled, HeldAt
<1>6. ASSUME NEW c, secret'[c] = secret[c]
      PROVE  CredentialSourced(c)' <=> CredentialSourced(c)
  BY <1>1, <1>6, Zenon DEF CredentialSourced, IsFiled, HeldAt
<1>. QED  BY <1>2, <1>4, <1>5, <1>6

LEMMA LoadStep ==
  ASSUME IInv, Load
  PROVE  IInv'
<1>1. /\ pc = "start" /\ Environment /\ UNCHANGED <<exceptions, todo>>
      /\ config' = config /\ held' = held
  BY DEF Load, Environment
<1>2. IsConfig(config)' /\ FilesHeld' /\ (HasCause' <=> HasCause)
  BY <1>1, EnvironmentKept
<1>3. /\ config.secret \in [Credentials -> [value : SUBSET Seq(Bytes), file : SUBSET Paths]]
      /\ \A c \in Credentials :
           /\ config.secret[c] \in [value : SUBSET Seq(Bytes), file : SUBSET Paths]
           /\ IsOptional(config.secret[c].value) /\ IsOptional(config.secret[c].file)
      /\ secret = config.secret
  BY <1>1 DEF IInv, IsConfig, Sourced
<1>4. /\ exceptions' \in Seq([address : Seq(Characters), allow_split_delivery : BOOLEAN])
      /\ todo' = <<>> /\ todo' \in Seq(Paths)
  BY <1>1 DEF IInv, TypeOK
<1>5. CASE config.parses /\ CredentialsParse
  <2>1. /\ pc' = "listen"
        /\ \A c \in Credentials :
             secret'[c] = [config.secret[c] EXCEPT !.file =
                             {SecretPath(path) : path \in config.secret[c].file}]
    BY <1>5 DEF Load
  <2>2. ASSUME NEW c \in Credentials
        PROVE  /\ secret'[c] \in [value : SUBSET Seq(Bytes), file : SUBSET Paths]
               /\ secret'[c].value = config.secret[c].value
               /\ secret'[c].file = {SecretPath(path) : path \in config.secret[c].file}
               /\ IsOptional(secret'[c].value) /\ IsOptional(secret'[c].file)
               /\ CredentialSourced(c)'
    <3>1. PICK v \in SUBSET Seq(Bytes), f \in SUBSET Paths :
            config.secret[c] = [value |-> v, file |-> f]
      BY <1>3
    <3>2. {SecretPath(path) : path \in f} \subseteq Paths
      BY <3>1, JoinedPath
    <3>3. secret'[c] = [value |-> v, file |-> {SecretPath(path) : path \in f}]
      BY <2>1, <3>1
    <3>4. IsOptional(v) /\ IsOptional(f)
      BY <1>3, <3>1
    <3>5. IsOptional({SecretPath(path) : path \in f})
      BY <3>4 DEF IsOptional
    <3>6. HasOneSource(config.secret[c])
      BY <1>5 DEF CredentialsParse
    <3>7. /\ secret'[c].value = config.secret[c].value
          /\ secret'[c].file = {SecretPath(path) : path \in config.secret[c].file}
      BY <3>1, <3>3
    <3>8. CredentialSourced(c)'
      BY <1>1, <3>6, <3>7 DEF CredentialSourced
    <3>. QED  BY <3>2, <3>3, <3>4, <3>5, <3>7, <3>8
  <2>3. secret' \in [Credentials -> [value : SUBSET Seq(Bytes), file : SUBSET Paths]]
    <3>1. \E r : secret' = [c \in Credentials |-> r[c]]
      BY <1>5 DEF Load
    <3>. QED  BY <2>2, <3>1
  <2>5. TypeOK'
    BY <1>4, <2>1, <2>2, <2>3 DEF TypeOK, Loaded
  <2>4. Sourced'
    BY <2>1, <2>2 DEF Sourced, Loaded, Stages
  <2>. QED  BY <1>2, <2>1, <2>4, <2>5 DEF IInv, ExceptionsNormalized, RefusedForCause, Stages
<1>6. CASE ~(config.parses /\ CredentialsParse)
  <2>1. pc' = "refused" /\ secret' = secret
    BY <1>6 DEF Load
  <2>2. HasCause
    <3>1. CASE ~config.parses
      BY <3>1 DEF HasCause
    <3>2. CASE ~CredentialsParse
      <4>1. PICK c \in Credentials : ~HasOneSource(config.secret[c])
        BY <3>2 DEF CredentialsParse
      <4>2. Cardinality(config.secret[c].value) + Cardinality(config.secret[c].file) # 1
        BY <4>1, OneSource DEF IInv
      <4>. QED  BY <4>2 DEF HasCause
    <3>. QED  BY <1>6, <3>1, <3>2
  <2>3. TypeOK'
    BY <1>3, <1>4, <2>1 DEF TypeOK, Loaded
  <2>4. Sourced' /\ ExceptionsNormalized'
    BY <2>1 DEF Sourced, ExceptionsNormalized, Loaded, Stages
  <2>. QED  BY <1>2, <2>2, <2>3, <2>4 DEF IInv, RefusedForCause
<1>. QED  BY <1>5, <1>6

(* A credential that is taken from its file is one that file held, and one   *)
(* that cannot be taken has a cause.                                         *)
LEMMA ResolveFileStep ==
  ASSUME IInv, pc \in {"listen", "remote"}, NEW c \in Credentials,
         NEW next \in {"remote", "normalize"}, ResolveFile(c, next)
  PROVE  /\ pc' = next \/ (pc' = "refused" /\ HasCause)
         /\ secret' \in [Credentials -> [value : SUBSET Seq(Bytes), file : SUBSET Paths]]
         /\ \A d \in Credentials :
              /\ IsOptional(secret'[d].value) /\ IsOptional(secret'[d].file)
              /\ CredentialSourced(d)'
              /\ d # c => secret'[d] = secret[d]
         /\ pc' = next => secret'[c].file = {}
<1>1. /\ Environment /\ config' = config /\ held' = held
      /\ secret' = secret \/ (\E r : secret' = [secret EXCEPT ![c] = r])
  BY DEF ResolveFile, Environment
<1>2. /\ \A text, path : IsFiled(text, path)' <=> IsFiled(text, path)
      /\ \A d : secret'[d] = secret[d] => (CredentialSourced(d)' <=> CredentialSourced(d))
  BY <1>1, EnvironmentKept
<1>3. /\ secret \in [Credentials -> [value : SUBSET Seq(Bytes), file : SUBSET Paths]]
      /\ \A d \in Credentials :
           /\ IsOptional(secret[d].value) /\ IsOptional(secret[d].file)
           /\ CredentialSourced(d)
  BY DEF IInv, TypeOK, Sourced, Stages
<1>4. CASE secret[c].file = {} /\ pc' = next /\ secret' = secret
  BY <1>2, <1>3, <1>4
<1>5. CASE \E path \in secret[c].file :
             IF path # Empty /\ HoldsSecret(FileAt(path))
             THEN /\ secret' = [secret EXCEPT ![c] =
                       [value |-> {Stripped(FileAt(path).bytes)}, file |-> {}]]
                  /\ pc' = next
             ELSE pc' = "refused" /\ UNCHANGED secret
  <2>1. PICK path \in secret[c].file :
             IF path # Empty /\ HoldsSecret(FileAt(path))
             THEN /\ secret' = [secret EXCEPT ![c] =
                       [value |-> {Stripped(FileAt(path).bytes)}, file |-> {}]]
                  /\ pc' = next
             ELSE pc' = "refused" /\ UNCHANGED secret
    BY <1>5
  <2>2. /\ HasOneSource(config.secret[c])
        /\ secret[c].file = {SecretPath(p) : p \in config.secret[c].file}
    BY <1>3, <2>1 DEF CredentialSourced
  <2>3. PICK p \in config.secret[c].file : path = SecretPath(p)
    BY <2>1, <2>2
  <2>4. p \in Paths
    <3>1. config.secret[c] \in [value : SUBSET Seq(Bytes), file : SUBSET Paths]
      BY DEF IInv, IsConfig
    <3>. QED  BY <2>3, <3>1
  <2>5. /\ path = Empty <=> p = Empty
        /\ p # Empty => path = Join(p)
    BY <2>3, <2>4, JoinedPath
  <2>6. p # Empty => FileAt(path) \in HeldAt(p) /\ FileAt(path) \in File
    BY <2>4, <2>5, FileHeld DEF IInv
  <2>7. CASE path # Empty /\ HoldsSecret(FileAt(path))
    <3>1. PICK text \in Seq(Bytes) : text = Stripped(FileAt(path).bytes) /\ IsFiled(text, p)
      BY <2>5, <2>6, <2>7, FileProperties
    <3>2. pc' = next /\ secret' = [secret EXCEPT ![c] = [value |-> {text}, file |-> {}]]
      BY <2>1, <2>7, <3>1
    <3>3. \A d \in Credentials : d # c => secret'[d] = secret[d]
      BY <3>2
    <3>4. secret'[c] = [value |-> {text}, file |-> {}]
      <4>1. c \in DOMAIN secret
        BY DEF IInv, TypeOK
      <4>. QED  BY <3>2, <4>1
    <3>5. /\ secret' \in [Credentials -> [value : SUBSET Seq(Bytes), file : SUBSET Paths]]
          /\ IsOptional(secret'[c].value) /\ IsOptional(secret'[c].file)
          /\ secret'[c].value = {text} /\ secret'[c].file = {}
      BY <1>3, <3>1, <3>2, <3>4 DEF IsOptional
    <3>6. CredentialSourced(c)'
      <4>1. HasOneSource(config'.secret[c])
        BY <1>1, <2>2
      <4>2. IsFiled(text, p)'
        BY <1>2, <3>1, Zenon
      <4>5. p \in config'.secret[c].file
        BY <1>1, <2>3
      <4>3. text \in secret'[c].value
        BY <3>5
      <4>4. \E q \in config'.secret[c].file, t \in secret'[c].value :
              secret'[c].value = {t} /\ IsFiled(t, q)'
        BY <3>5, <4>2, <4>3, <4>5, Zenon
      <4>. QED  BY <3>5, <4>1, <4>4, Zenon DEF CredentialSourced
    <3>. QED  BY <1>2, <1>3, <3>2, <3>3, <3>5, <3>6
  <2>8. CASE ~(path # Empty /\ HoldsSecret(FileAt(path)))
    <3>1. pc' = "refused" /\ secret' = secret
      BY <2>1, <2>8
    <3>2. p = Empty \/ \E file \in HeldAt(p) : IsUnfit(file)
      BY <2>5, <2>6, <2>8, FileProperties
    <3>3. HasCause
      BY <2>3, <3>2 DEF HasCause
    <3>4. pc' # next
      BY <3>1
    <3>. QED  BY <1>2, <1>3, <3>1, <3>3, <3>4
  <2>. QED  BY <2>7, <2>8
<1>. QED  BY <1>4, <1>5 DEF ResolveFile

LEMMA ResolveListenSecretStep ==
  ASSUME IInv, ResolveListenSecret
  PROVE  IInv'
<1>1. pc = "listen" /\ ResolveFile("listen", "remote")
  BY DEF ResolveListenSecret
<1>2. Environment /\ UNCHANGED <<exceptions, todo>>
  BY <1>1 DEF ResolveFile
<1>3. IsConfig(config)' /\ FilesHeld' /\ (HasCause' <=> HasCause)
  BY <1>2, EnvironmentKept
<1>4. /\ pc' = "remote" \/ (pc' = "refused" /\ HasCause)
      /\ secret' \in [Credentials -> [value : SUBSET Seq(Bytes), file : SUBSET Paths]]
      /\ \A d \in Credentials :
           /\ IsOptional(secret'[d].value) /\ IsOptional(secret'[d].file)
           /\ CredentialSourced(d)'
      /\ pc' = "remote" => secret'["listen"].file = {}
  <2>1. "listen" \in Credentials
    BY DEF Credentials
  <2>. QED  BY <1>1, <2>1, ResolveFileStep
<1>5. TypeOK'
  <2>1. /\ exceptions' \in Seq([address : Seq(Characters), allow_split_delivery : BOOLEAN])
        /\ todo' = <<>> /\ todo' \in Seq(Paths)
    BY <1>1, <1>2 DEF IInv, TypeOK
  <2>. QED  BY <1>4, <2>1 DEF TypeOK, Loaded
<1>6. Sourced'
  BY <1>4 DEF Sourced, Stages, Loaded
<1>7. ExceptionsNormalized' /\ RefusedForCause'
  BY <1>3, <1>4 DEF ExceptionsNormalized, RefusedForCause, Stages
<1>. QED  BY <1>3, <1>5, <1>6, <1>7 DEF IInv

LEMMA ResolveRemoteSecretStep ==
  ASSUME IInv, ResolveRemoteSecret
  PROVE  IInv'
<1>1. pc = "remote" /\ ResolveFile("remote", "normalize")
  BY DEF ResolveRemoteSecret
<1>2. Environment /\ UNCHANGED <<exceptions, todo>>
  BY <1>1 DEF ResolveFile
<1>3. IsConfig(config)' /\ FilesHeld' /\ (HasCause' <=> HasCause)
  BY <1>2, EnvironmentKept
<1>4. /\ pc' = "normalize" \/ (pc' = "refused" /\ HasCause)
      /\ secret' \in [Credentials -> [value : SUBSET Seq(Bytes), file : SUBSET Paths]]
      /\ \A d \in Credentials :
           /\ IsOptional(secret'[d].value) /\ IsOptional(secret'[d].file)
           /\ CredentialSourced(d)'
           /\ d # "remote" => secret'[d] = secret[d]
      /\ pc' = "normalize" => secret'["remote"].file = {}
  <2>1. "remote" \in Credentials
    BY DEF Credentials
  <2>. QED  BY <1>1, <2>1, ResolveFileStep
<1>5. secret'["listen"].file = {}
  <2>1. secret["listen"].file = {}
    BY <1>1 DEF IInv, Sourced, Stages
  <2>. QED  BY <1>4, <2>1 DEF Credentials
<1>6. TypeOK'
  <2>1. /\ exceptions' \in Seq([address : Seq(Characters), allow_split_delivery : BOOLEAN])
        /\ todo' = <<>> /\ todo' \in Seq(Paths)
    BY <1>1, <1>2 DEF IInv, TypeOK
  <2>. QED  BY <1>4, <2>1 DEF TypeOK, Loaded
<1>7. Sourced'
  BY <1>4, <1>5 DEF Sourced, Stages, Loaded
<1>8. ExceptionsNormalized' /\ RefusedForCause'
  BY <1>3, <1>4 DEF ExceptionsNormalized, RefusedForCause, Stages
<1>. QED  BY <1>3, <1>6, <1>7, <1>8 DEF IInv

(* After the credentials, steps leave them alone.                            *)
LEMMA SecretsKept ==
  ASSUME IInv, Environment, secret' = secret,
         pc \in Stages \ {"listen", "remote"}
  PROVE  /\ IsConfig(config)' /\ FilesHeld' /\ (HasCause' <=> HasCause)
         /\ secret' \in [Credentials -> [value : SUBSET Seq(Bytes), file : SUBSET Paths]]
         /\ \A c \in Credentials :
              /\ IsOptional(secret'[c].value) /\ IsOptional(secret'[c].file)
              /\ CredentialSourced(c)'
              /\ secret'[c].file = {}
              /\ Loaded => secret'[c].value # {} /\ <<>> \notin secret'[c].value
         /\ pc' # "start" /\ (Loaded' => Loaded) => Sourced'
<1>1. /\ IsConfig(config)' /\ FilesHeld' /\ (HasCause' <=> HasCause)
      /\ \A c : CredentialSourced(c)' <=> CredentialSourced(c)
  BY EnvironmentKept
<1>2. \A c \in Credentials :
        /\ IsOptional(secret'[c].value) /\ IsOptional(secret'[c].file)
        /\ secret'[c].file = {}
        /\ Loaded => secret'[c].value # {} /\ <<>> \notin secret'[c].value
  BY DEF IInv, TypeOK, Sourced, Stages, Credentials
<1>3. \A c \in Credentials : CredentialSourced(c)'
  BY <1>1 DEF IInv, Sourced
<1>4. ASSUME pc' # "start", Loaded' => Loaded
      PROVE  Sourced'
  <2>1. secret'["listen"].file = {} /\ secret'["remote"].file = {}
    BY <1>2 DEF Credentials
  <2>. QED  BY <1>2, <1>3, <1>4, <2>1 DEF Sourced
<1>. QED  BY <1>1, <1>2, <1>3, <1>4 DEF IInv, TypeOK

LEMMA NormalizeStep ==
  ASSUME IInv, Normalize
  PROVE  IInv'
<1>. DEFINE entries == config.exceptions
            Entry   == [address : Seq(Characters), allow_split_delivery : BOOLEAN]
            fits    == /\ \A i \in DOMAIN entries : Normalized(entries[i]) # {}
                       /\ \A i, j \in DOMAIN entries : i < j => ~IsDuplicate(i, j)
<1>1. pc = "normalize" /\ Environment /\ secret' = secret /\ todo' = todo /\ config' = config
  BY DEF Normalize, Environment
<1>2. /\ IsConfig(config)' /\ FilesHeld' /\ (HasCause' <=> HasCause)
      /\ secret' \in [Credentials -> [value : SUBSET Seq(Bytes), file : SUBSET Paths]]
      /\ \A c \in Credentials : IsOptional(secret'[c].value) /\ IsOptional(secret'[c].file)
      /\ pc' # "start" /\ (Loaded' => Loaded) => Sourced'
  BY <1>1, SecretsKept DEF Stages
<1>3. /\ entries \in Seq(Entry)
      /\ exceptions \in Seq(Entry) /\ todo' = <<>> /\ todo' \in Seq(Paths)
  BY <1>1 DEF IInv, IsConfig, TypeOK
<1>4. PICK n \in Nat : n = Len(entries) /\ DOMAIN entries = 1 .. n
  BY <1>3, LenProperties
<1>5. ASSUME NEW i \in 1 .. n
      PROVE  /\ entries[i] \in Entry /\ entries[i].address \in Seq(Characters)
             /\ Normalized(entries[i]) =
                  IF IsAddress(entries[i].address)
                  THEN {[entries[i] EXCEPT !.address = Lower(entries[i].address)]} ELSE {}
  <2>1. entries[i] \in Entry
    BY <1>3, <1>4, ElementOfSeq
  <2>2. entries[i].address \in Seq(Characters)
    BY <2>1
  <2>3. normalize_configured_email(entries[i].address) =
          IF IsAddress(entries[i].address) THEN {Lower(entries[i].address)} ELSE {}
    BY <2>2, ConfiguredAddress
  <2>. HIDE DEF entries, Entry
  <2>. QED  BY <2>1, <2>2, <2>3 DEF Normalized
<1>6. CASE fits
  <2>1. /\ pc' = "validate"
        /\ exceptions' = [i \in DOMAIN entries |-> CHOOSE e \in Normalized(entries[i]) : TRUE]
    BY <1>6, Zenon DEF Normalize
  <2>. HIDE DEF entries, Entry
  <2>2. ASSUME NEW i \in 1 .. n
        PROVE  /\ IsAddress(entries[i].address)
               /\ exceptions'[i] = [entries[i] EXCEPT !.address = Lower(entries[i].address)]
               /\ exceptions'[i].address = Lower(entries[i].address)
               /\ exceptions'[i] \in Entry
    <3>1. /\ entries[i] \in Entry /\ entries[i].address \in Seq(Characters)
          /\ Normalized(entries[i]) =
               IF IsAddress(entries[i].address)
               THEN {[entries[i] EXCEPT !.address = Lower(entries[i].address)]} ELSE {}
      BY <1>5
    <3>2. IsAddress(entries[i].address)
      BY <1>4, <1>6, <3>1
    <3>3. exceptions'[i] = CHOOSE e \in Normalized(entries[i]) : TRUE
      BY <1>4, <2>1
    <3>4. exceptions'[i] = [entries[i] EXCEPT !.address = Lower(entries[i].address)]
      BY <3>1, <3>2, <3>3
    <3>5. Lower(entries[i].address) \in Seq(Characters)
      BY <3>1, LowerProperties
    <3>. QED  BY <3>1, <3>2, <3>4, <3>5 DEF Entry
  <2>3. exceptions' \in Seq(Entry) /\ DOMAIN exceptions' = 1 .. n
    <3>1. exceptions' \in [1 .. n -> Entry]
      BY <1>4, <2>1, <2>2
    <3>. QED  BY <3>1, SeqDef
  <2>4. ASSUME NEW i \in 1 .. n
        PROVE  normalize_configured_email(entries[i].address) = {exceptions'[i].address}
    BY <1>5, <2>2, ConfiguredAddress
  <2>5. ASSUME NEW i \in 1 .. n, NEW j \in 1 .. n,
               exceptions'[i].address = exceptions'[j].address
        PROVE  i = j
    <3>1. normalize_configured_email(entries[i].address)
            = normalize_configured_email(entries[j].address)
      BY <2>4, <2>5
    <3>2. IsDuplicate(i, j) /\ IsDuplicate(j, i)
      BY <3>1 DEF IsDuplicate, entries
    <3>3. ~(i < j) /\ ~(j < i)
      BY <1>4, <1>6, <3>2
    <3>. QED  BY <3>3
  <2>6. TypeOK'
    BY <1>2, <1>3, <2>1, <2>3 DEF TypeOK, Loaded, Entry
  <2>7. Sourced'
    BY <1>2, <2>1 DEF Loaded
  <2>8. ExceptionsNormalized'
    <3>1. config'.exceptions = entries
      BY <1>1 DEF entries
    <3>2. DOMAIN exceptions' = DOMAIN config'.exceptions
      BY <1>4, <2>3, <3>1
    <3>. QED  BY <1>4, <2>2, <2>4, <2>5, <2>3, <3>1, <3>2 DEF ExceptionsNormalized
  <2>. QED  BY <1>2, <2>1, <2>6, <2>7, <2>8 DEF IInv, RefusedForCause
<1>7. CASE ~fits
  <2>1. pc' = "refused" /\ exceptions' = exceptions
    BY <1>7, Zenon DEF Normalize
  <2>2. ASSUME NEW i \in 1 .. n, ~IsAddress(entries[i].address)
        PROVE  HasCause
    <3>1. ~IsBareAscii(entries[i].address)
      BY <1>5, <2>2, BareAsciiIsAddress
    <3>. QED  BY <1>4, <3>1, Zenon DEF HasCause
  <2>3. HasCause
    <3>1. CASE \E i \in 1 .. n : Normalized(entries[i]) = {}
      <4>1. PICK i \in 1 .. n : Normalized(entries[i]) = {}
        BY <3>1
      <4>. HIDE DEF entries
      <4>2. ~IsAddress(entries[i].address)
        BY <1>5, <4>1
      <4>. QED  BY <2>2, <4>2
    <3>2. CASE \E i, j \in 1 .. n : i < j /\ IsDuplicate(i, j)
      <4>1. PICK i \in 1 .. n, j \in 1 .. n : i < j /\ IsDuplicate(i, j)
        BY <3>2
      <4>2. entries[i].address \in Seq(Characters) /\ entries[j].address \in Seq(Characters)
        BY <1>5
      <4>3. normalize_configured_email(entries[i].address)
              = normalize_configured_email(entries[j].address)
        BY <4>1 DEF IsDuplicate
      <4>4. CASE IsAddress(entries[i].address) /\ IsAddress(entries[j].address)
        <5>1. Lower(entries[i].address) = Lower(entries[j].address)
          BY <4>2, <4>3, <4>4, ConfiguredAddress
        <5>2. SameAddress(entries[i].address, entries[j].address)
          BY <4>2, <5>1, LowerIsSame
        <5>3. i \in DOMAIN entries /\ j \in DOMAIN entries \ {i}
          BY <1>4, <4>1
        <5>. QED  BY <5>2, <5>3, Zenon DEF HasCause
      <4>. QED  BY <2>2, <4>4
    <3>. QED  BY <1>4, <1>7, <3>1, <3>2
  <2>4. TypeOK'
    BY <1>2, <1>3, <2>1 DEF TypeOK, Loaded
  <2>5. Sourced' /\ ExceptionsNormalized'
    BY <1>2, <2>1 DEF ExceptionsNormalized, Stages, Loaded
  <2>. QED  BY <1>2, <2>1, <2>3, <2>4, <2>5 DEF IInv, RefusedForCause
<1>. QED  BY <1>6, <1>7

(* The paths of a list, joined.                                              *)
LEMMA JoinedPaths ==
  ASSUME NEW paths \in Seq(Paths)
  PROVE  /\ Joined(paths) \in Seq(Paths)
         /\ DOMAIN Joined(paths) = DOMAIN paths
<1>1. PICK n \in Nat : n = Len(paths) /\ DOMAIN paths = 1 .. n
  BY LenProperties
<1>2. \A i \in 1 .. n : paths[i] \in Paths
  BY <1>1, ElementOfSeq
<1>3. Joined(paths) = [i \in 1 .. n |-> Join(paths[i])]
  BY <1>1 DEF Joined
<1>4. Joined(paths) \in [1 .. n -> Paths]
  BY <1>2, <1>3, JoinedPath
<1>. QED  BY <1>1, <1>3, <1>4, SeqDef

LEMMA ValidateStep ==
  ASSUME IInv, Validate
  PROVE  IInv'
<1>1. /\ pc = "validate" /\ Environment /\ secret' = secret /\ exceptions' = exceptions
      /\ config' = config
  BY DEF Validate, Environment
<1>2. /\ IsConfig(config)' /\ FilesHeld' /\ (HasCause' <=> HasCause)
      /\ secret' \in [Credentials -> [value : SUBSET Seq(Bytes), file : SUBSET Paths]]
      /\ \A c \in Credentials :
           /\ IsOptional(secret'[c].value) /\ IsOptional(secret'[c].file)
           /\ CredentialSourced(c)'
           /\ secret'[c].file = {}
  BY <1>1, SecretsKept DEF Stages
<1>3. exceptions' \in Seq([address : Seq(Characters), allow_split_delivery : BOOLEAN])
  BY <1>1 DEF IInv, TypeOK
<1>4. ExceptionsNormalized'
  BY <1>1, Zenon DEF IInv, ExceptionsNormalized, Stages
<1>5. todo' \in Seq(Paths) /\ (pc' # "roots" => todo' = <<>>)
  <2>1. config.roots \in Seq(Paths)
    BY DEF IInv, IsConfig
  <2>2. Joined(config.roots) \in Seq(Paths)
    BY <2>1, JoinedPaths
  <2>. QED  BY <2>2, EmptySeq DEF Validate
<1>6. CASE IsValid
  <2>1. pc' \in {"valid", "roots"}
    BY <1>6 DEF Validate
  <2>2. ASSUME NEW c \in Credentials
        PROVE  secret'[c].value # {} /\ <<>> \notin secret'[c].value
    <3>1. PICK value \in secret[c].value : value # <<>>
      BY <1>6 DEF IsValid
    <3>2. IsOptional(secret[c].value)
      BY DEF IInv, TypeOK
    <3>3. \A v \in secret[c].value : v = value
      BY <3>1, <3>2 DEF IsOptional
    <3>. QED  BY <1>1, <3>1, <3>3
  <2>3. TypeOK'
    BY <1>2, <1>3, <1>5, <2>1, <2>2 DEF TypeOK
  <2>4. Sourced'
    BY <1>2, <2>1, <2>2 DEF Sourced, Credentials
  <2>. QED  BY <1>2, <1>4, <2>1, <2>3, <2>4 DEF IInv, RefusedForCause
<1>7. CASE ~IsValid
  <2>1. pc' = "refused"
    BY <1>7 DEF Validate
  <2>2. HasCause
    <3>1. CASE \E c \in Credentials : \A value \in secret[c].value : value = <<>>
      <4>1. PICK c \in Credentials : \A value \in secret[c].value : value = <<>>
        BY <3>1
      <4>2. CredentialSourced(c) /\ secret[c].file = {}
        BY <1>1 DEF IInv, Sourced, Stages, Credentials
      <4>3. CASE secret[c].value = config.secret[c].value
                   /\ secret[c].file = {SecretPath(path) : path \in config.secret[c].file}
        <5>1. config.secret[c].file = {}
          BY <4>2, <4>3
        <5>2. config.secret[c].value # {}
          BY <4>2, <5>1 DEF CredentialSourced, HasOneSource
        <5>3. <<>> \in config.secret[c].value
          BY <4>1, <4>3, <5>2
        <5>. QED  BY <5>3, Zenon DEF HasCause
      <4>4. CASE \E path \in config.secret[c].file, text \in secret[c].value :
                   secret[c].value = {text} /\ IsFiled(text, path)
        <5>1. PICK path \in config.secret[c].file : IsFiled(<<>>, path)
          BY <4>1, <4>4
        <5>2. PICK file \in HeldAt(path), end \in {<<>>, <<"LF">>, <<"CR", "LF">>} :
                file.bytes = <<>> \o end
          BY <5>1, Zenon DEF IsFiled
        <5>3. <<>> \in Seq(Bytes) /\ <<"LF">> \in Seq(Bytes) /\ <<"CR", "LF">> \in Seq(Bytes)
          BY EmptySeq, OneElement, TwoElements DEF Bytes
        <5>4. end \in Seq(Bytes)
          BY <5>3, Zenon
        <5>5. file.bytes = end
          BY <5>2, <5>4, ConcatEmptySeq
        <5>6. IsUnfit(file)
          BY <5>2, <5>5, Zenon DEF IsUnfit
        <5>. QED  BY <5>1, <5>2, <5>6, Zenon DEF HasCause
      <4>. QED  BY <4>2, <4>3, <4>4 DEF CredentialSourced
    <3>2. CASE \E t \in Texts : config.text[t] \in {"empty", "blank"}
      BY <3>2 DEF HasCause
    <3>3. CASE \E n \in Numbers \ {"http_timeout_secs"} : config.number[n] = 0
      BY <3>3 DEF HasCause
    <3>4. CASE ~config.key_services /\ config.key_files = <<>> /\ config.key_directories = <<>>
      BY <3>4 DEF HasCause
    <3>. QED  BY <1>7, <3>1, <3>2, <3>3, <3>4, Zenon DEF IsValid, Texts
  <2>3. TypeOK'
    BY <1>2, <1>3, <1>5, <2>1 DEF TypeOK, Loaded
  <2>4. Sourced'
    BY <2>1 DEF Sourced, Stages, Loaded
  <2>. QED  BY <1>2, <1>4, <2>1, <2>2, <2>3, <2>4 DEF IInv, RefusedForCause
<1>. QED  BY <1>6, <1>7

(* While services are built, what was loaded stays.                          *)
LEMMA LoadedKept ==
  ASSUME IInv, Environment, secret' = secret, exceptions' = exceptions,
         pc \in {"roots", "keys"}, pc' \in {"roots", "keys", "failed", "ready"},
         todo' \in Seq(Paths), pc' \in {"failed", "ready"} => todo' = <<>>
  PROVE  IInv'
<1>1. /\ IsConfig(config)' /\ FilesHeld'
      /\ secret' \in [Credentials -> [value : SUBSET Seq(Bytes), file : SUBSET Paths]]
      /\ \A c \in Credentials :
           /\ IsOptional(secret'[c].value) /\ IsOptional(secret'[c].file)
           /\ secret'[c].file = {} /\ secret'[c].value # {}
      /\ Sourced'
  BY SecretsKept DEF Stages, Loaded
<1>2. exceptions' \in Seq([address : Seq(Characters), allow_split_delivery : BOOLEAN])
  BY DEF IInv, TypeOK
<1>3. TypeOK'
  BY <1>1, <1>2 DEF TypeOK
<1>4. ExceptionsNormalized'
  <2>1. config' = config
    BY DEF Environment
  <2>. QED  BY <2>1, Zenon DEF IInv, ExceptionsNormalized, Stages
<1>5. RefusedForCause'
  BY DEF RefusedForCause
<1>. QED  BY <1>1, <1>3, <1>4, <1>5 DEF IInv

LEMMA ReadFileStep ==
  ASSUME IInv, ReadFile
  PROVE  IInv'
<1>1. /\ pc \in {"roots", "keys"} /\ todo # <<>> /\ Environment
      /\ secret' = secret /\ exceptions' = exceptions
      /\ \/ todo' = Tail(todo) /\ pc' = pc
         \/ pc' = "failed" /\ todo' = <<>>
  BY DEF ReadFile
<1>2. todo \in Seq(Paths)
  BY DEF IInv, TypeOK
<1>3. Tail(todo) \in Seq(Paths) /\ <<>> \in Seq(Paths)
  BY <1>1, <1>2, HeadAndTail, EmptySeq
<1>. QED  BY <1>1, <1>3, LoadedKept

LEMMA ListingProperties ==
  ASSUME FilesHeld, NEW directory
  PROVE  Listing(directory) \in Seq(Paths)
<1>. DEFINE places == {place \in DOMAIN fs : place[1] = directory[2] /\ fs[place].kind = "regular"}
<1>1. places \subseteq DOMAIN fs /\ places \subseteq Paths
  BY DEF FilesHeld
<1>2. IsFiniteSet(places)
  BY <1>1, FS_Subset DEF FilesHeld
<1>3. Listing(directory) = SetToSeq(places)
  BY DEF Listing
<1>. HIDE DEF places
<1>4. Cardinality(places) \in Nat /\ ExistsBijection(1 .. Cardinality(places), places)
  BY <1>2, FS_CardinalityType
<1>5. \E f \in [1 .. Cardinality(places) -> places] : IsInjective(f)
  <2>1. PICK f : f \in Injection(1 .. Cardinality(places), places)
    BY <1>4 DEF ExistsBijection, Bijection
  <2>. QED  BY <2>1 DEF Injection, IsInjective
<1>6. SetToSeq(places) \in [1 .. Cardinality(places) -> places]
  BY <1>5 DEF SetToSeq
<1>. QED  BY <1>1, <1>3, <1>4, <1>6, SeqDef

LEMMA BuildHttpClientStep ==
  ASSUME IInv, BuildHttpClient
  PROVE  IInv'
<1>. DEFINE directories == Joined(config.key_directories)
            listings    == [i \in DOMAIN directories |-> Listing(directories[i])]
<1>1. /\ pc = "roots" /\ Environment /\ todo = <<>>
      /\ secret' = secret /\ exceptions' = exceptions
      /\ \/ pc' = "keys" /\ todo' = Joined(config.key_files) \o FlattenSeq(listings)
         \/ pc' = "failed" /\ todo' = todo
  BY DEF BuildHttpClient
<1>2. config.key_files \in Seq(Paths) /\ config.key_directories \in Seq(Paths)
  BY DEF IInv, IsConfig
<1>3. Joined(config.key_files) \in Seq(Paths) /\ directories \in Seq(Paths)
  BY <1>2, JoinedPaths
<1>. HIDE DEF directories
<1>4. listings \in Seq(Seq(Paths))
  <2>1. PICK n \in Nat : DOMAIN directories = 1 .. n
    BY <1>3, LenProperties
  <2>2. \A i \in 1 .. n : Listing(directories[i]) \in Seq(Paths)
    BY ListingProperties DEF IInv
  <2>3. listings \in [1 .. n -> Seq(Paths)]
    BY <2>1, <2>2
  <2>. QED  BY <2>3, SeqDef
<1>. HIDE DEF listings
<1>5. FlattenSeq(listings) \in Seq(Paths)
  BY <1>4, FlattenProperties
<1>6. Joined(config.key_files) \o FlattenSeq(listings) \in Seq(Paths) /\ <<>> \in Seq(Paths)
  BY <1>3, <1>5, ConcatProperties, EmptySeq
<1>. QED  BY <1>1, <1>6, LoadedKept

LEMMA BuildListenerStep ==
  ASSUME IInv, BuildListener
  PROVE  IInv'
<1>1. /\ pc = "keys" /\ Environment /\ todo = <<>> /\ pc' = "ready"
      /\ secret' = secret /\ exceptions' = exceptions /\ todo' = todo
  BY DEF BuildListener
<1>2. <<>> \in Seq(Paths)
  BY EmptySeq
<1>. QED  BY <1>1, <1>2, LoadedKept

(* A replacement adds to what there has been.                                *)
LEMMA OperatorStep ==
  ASSUME IInv, Operator
  PROVE  IInv'
<1>1. PICK file \in Replacements : \E path : Place(Join(path)) \in DOMAIN fs /\ Replace(path, file)
  BY DEF Operator
<1>2. PICK place \in DOMAIN fs :
        /\ fs' = [fs EXCEPT ![place] = file]
        /\ held' = [held EXCEPT ![place] = @ \cup {file}]
  BY <1>1 DEF Replace
<1>3. /\ config' = config /\ pc' = pc /\ secret' = secret
      /\ exceptions' = exceptions /\ todo' = todo
  BY <1>1 DEF Replace
<1>4. file \in File
  BY StartupAssumption
<1>5. FilesHeld'
  <2>1. /\ DOMAIN fs' = DOMAIN fs /\ fs' \in [DOMAIN fs -> File]
        /\ held' \in [DOMAIN fs -> SUBSET File]
    BY <1>2, <1>4 DEF IInv, FilesHeld
  <2>2. \A p \in DOMAIN fs : fs'[p] \in held'[p]
    BY <1>2 DEF IInv, FilesHeld
  <2>. QED  BY <2>1, <2>2 DEF IInv, FilesHeld
<1>6. \A p : HeldAt(p) \subseteq HeldAt(p)'
  <2>1. DOMAIN held' = DOMAIN held /\ \A p \in DOMAIN held : held[p] \subseteq held'[p]
    BY <1>2 DEF IInv, FilesHeld
  <2>. QED  BY <2>1 DEF HeldAt
<1>7. \A text, p : IsFiled(text, p) => IsFiled(text, p)'
  BY <1>6, Zenon DEF IsFiled
<1>8. HasCause => HasCause'
  <2>1. ASSUME NEW d \in Credentials, NEW p \in config.secret[d].file,
               NEW f \in HeldAt(p), IsUnfit(f)
        PROVE  HasCause'
    <3>1. f \in HeldAt(p)' /\ IsUnfit(f)' /\ p \in config'.secret[d].file
      BY <1>3, <1>6, <2>1
    <3>. QED  BY <3>1, Zenon DEF HasCause
  <2>2. ASSUME HasCause,
               ~\E d \in Credentials : \E p \in config.secret[d].file :
                  \E f \in HeldAt(p) : IsUnfit(f)
        PROVE  HasCause'
    BY <1>3, <2>2, Zenon DEF HasCause
  <2>. QED  BY <2>1, <2>2, Zenon
<1>9. \A d : CredentialSourced(d) => CredentialSourced(d)'
  BY <1>3, <1>7, Zenon DEF CredentialSourced
<1>10. TypeOK'
  BY <1>3, Zenon DEF IInv, TypeOK, Loaded
<1>11. Sourced'
  BY <1>3, <1>9, Zenon DEF IInv, Sourced, Loaded
<1>12. ExceptionsNormalized'
  BY <1>3, Zenon DEF IInv, ExceptionsNormalized
<1>13. IsConfig(config)' /\ RefusedForCause'
  BY <1>3, <1>8 DEF IInv, RefusedForCause
<1>. QED  BY <1>5, <1>10, <1>11, <1>12, <1>13 DEF IInv

LEMMA StutteringStep ==
  ASSUME IInv, UNCHANGED vars
  PROVE  IInv'
<1>1. /\ Environment /\ config' = config /\ pc' = pc /\ secret' = secret
      /\ exceptions' = exceptions /\ todo' = todo
  BY DEF vars, Environment
<1>2. /\ IsConfig(config)' /\ FilesHeld' /\ (HasCause' <=> HasCause)
      /\ \A c : CredentialSourced(c)' <=> CredentialSourced(c)
  BY <1>1, EnvironmentKept
<1>3. TypeOK'
  BY <1>1, Zenon DEF IInv, TypeOK, Loaded
<1>4. Sourced'
  BY <1>1, <1>2, Zenon DEF IInv, Sourced, Loaded
<1>5. ExceptionsNormalized'
  BY <1>1, Zenon DEF IInv, ExceptionsNormalized
<1>6. RefusedForCause'
  BY <1>1, <1>2 DEF IInv, RefusedForCause
<1>. QED  BY <1>2, <1>3, <1>4, <1>5, <1>6 DEF IInv

LEMMA NextStep == IInv /\ [Next]_vars => IInv'
<1>. SUFFICES ASSUME IInv, [Next]_vars PROVE IInv'
  OBVIOUS
<1>1. CASE Load
  BY <1>1, LoadStep
<1>2. CASE ResolveListenSecret
  BY <1>2, ResolveListenSecretStep
<1>3. CASE ResolveRemoteSecret
  BY <1>3, ResolveRemoteSecretStep
<1>4. CASE Normalize
  BY <1>4, NormalizeStep
<1>5. CASE Validate
  BY <1>5, ValidateStep
<1>6. CASE ReadFile
  BY <1>6, ReadFileStep
<1>7. CASE BuildHttpClient
  BY <1>7, BuildHttpClientStep
<1>8. CASE BuildListener
  BY <1>8, BuildListenerStep
<1>9. CASE Operator
  BY <1>9, OperatorStep
<1>10. CASE UNCHANGED vars
  BY <1>10, StutteringStep
<1>. QED
  BY <1>1, <1>2, <1>3, <1>4, <1>5, <1>6, <1>7, <1>8, <1>9, <1>10 DEF Next, Start

-----------------------------------------------------------------------------
(***************************************************************************)
(* The results.                                                            *)
(***************************************************************************)
(* The inductive invariant holds in every state of every start.              *)
THEOREM Invariance == Spec => []IInv
<1>1. Init => IInv
  BY InitHolds
<1>2. IInv /\ [Next]_vars => IInv'
  BY NextStep
<1>. QED  BY <1>1, <1>2, PTL DEF Spec

(* Every state is well formed, files are only pending while services are     *)
(* built, and a loaded configuration has no credential left in a file.       *)
THEOREM TypeCorrect == Spec => []TypeOK
<1>1. IInv => TypeOK
  BY DEF IInv
<1>. QED  BY <1>1, Invariance, PTL

(* A loaded credential is the one in the configuration, or one that its file *)
(* held at some time, with at most one line end cut (resolve_file,           *)
(* strip_one_line_ending).                                                   *)
THEOREM LoadedSecrets == Spec => []SecretsAsConfigured
<1>1. IInv => SecretsAsConfigured
  <2>. SUFFICES ASSUME IInv, Loaded, NEW c \in Credentials, NEW text \in secret[c].value
                PROVE  /\ text # <<>>
                       /\ \/ text \in config.secret[c].value
                          \/ \E path \in config.secret[c].file : IsFiled(text, path)
    BY Zenon DEF SecretsAsConfigured
  <2>1. <<>> \notin secret[c].value /\ CredentialSourced(c)
    BY DEF IInv, Sourced, Loaded, Stages
  <2>2. CASE secret[c].value = config.secret[c].value
    BY <2>1, <2>2
  <2>3. CASE \E path \in config.secret[c].file, t \in secret[c].value :
               secret[c].value = {t} /\ IsFiled(t, path)
    <3>1. PICK path \in config.secret[c].file, t \in secret[c].value :
            secret[c].value = {t} /\ IsFiled(t, path)
      BY <2>3
    <3>2. text = t
      BY <3>1
    <3>. QED  BY <2>1, <3>1, <3>2
  <2>. QED  BY <2>1, <2>2, <2>3, Zenon DEF CredentialSourced
<1>. QED  BY <1>1, Invariance, PTL

(* The loaded policy names each recipient once, in the form in which the     *)
(* plan (normalize_email) and the key lookup (normalize_lookup_email) look   *)
(* for it.                                                                   *)
THEOREM LoadedPolicy == Spec => []PolicyIsFunction
<1>1. IInv => PolicyIsFunction
  <2>. SUFFICES ASSUME IInv, Loaded PROVE PolicyIsFunction
    BY DEF PolicyIsFunction
  <2>1. /\ DOMAIN exceptions = DOMAIN config.exceptions
        /\ \A i \in DOMAIN exceptions :
             /\ exceptions[i].address = Lower(config.exceptions[i].address)
             /\ normalize_configured_email(config.exceptions[i].address) = {exceptions[i].address}
        /\ \A i, j \in DOMAIN exceptions : exceptions[i].address = exceptions[j].address => i = j
    BY DEF IInv, ExceptionsNormalized, Loaded, Stages
  <2>2. ASSUME NEW i \in DOMAIN exceptions
        PROVE  /\ normalize_email(exceptions[i].address) = exceptions[i].address
               /\ normalize_lookup_email(exceptions[i].address) = {exceptions[i].address}
    <3>1. config.exceptions[i].address \in Seq(Characters)
      <4>1. config.exceptions \in Seq([address : Seq(Characters), allow_split_delivery : BOOLEAN])
        BY DEF IInv, IsConfig
      <4>2. config.exceptions[i] \in [address : Seq(Characters), allow_split_delivery : BOOLEAN]
        <5>1. i \in DOMAIN config.exceptions
          BY <2>1
        <5>. QED  BY <4>1, <5>1, ElementOfSeq, LenProperties
      <4>. QED  BY <4>2
    <3>2. IsAddress(config.exceptions[i].address)
      BY <2>1, <3>1, ConfiguredAddress
    <3>. QED  BY <2>1, <3>1, <3>2, ConfiguredAddress
  <2>. QED  BY <2>1, <2>2, Zenon DEF PolicyIsFunction
<1>. QED  BY <1>1, Invariance, PTL

(* A recipient without white space and angle brackets goes out in clear      *)
(* exactly if some configured address is its own but for the case of         *)
(* letters, however the client writes it; and no path goes out in clear that *)
(* is not a configured address between white space and angle brackets.       *)
THEOREM LoadedExceptions == Spec => []ExceptionsMatchUpToBrackets
<1>1. ASSUME IInv, Loaded, NEW text \in Seq(Characters), NEW path \in Seq(Characters),
             normalize_email(path) = Lower(text)
      PROVE  IsException(path) <=> IsConfigured(text)
  <2>1. /\ DOMAIN exceptions = DOMAIN config.exceptions
        /\ \A i \in DOMAIN exceptions : exceptions[i].address = Lower(config.exceptions[i].address)
    BY <1>1 DEF IInv, ExceptionsNormalized, Loaded, Stages
  <2>2. ASSUME NEW i \in DOMAIN config.exceptions
        PROVE  exceptions[i].address = normalize_email(path)
                 <=> SameAddress(config.exceptions[i].address, text)
    <3>1. config.exceptions \in Seq([address : Seq(Characters), allow_split_delivery : BOOLEAN])
      BY <1>1 DEF IInv, IsConfig
    <3>2. config.exceptions[i] \in [address : Seq(Characters), allow_split_delivery : BOOLEAN]
      BY <3>1, ElementOfSeq, LenProperties
    <3>3. config.exceptions[i].address \in Seq(Characters)
      BY <3>2
    <3>4. exceptions[i].address = Lower(config.exceptions[i].address)
      BY <2>1
    <3>. QED  BY <1>1, <3>3, <3>4, LowerIsSame
  <2>. QED  BY <2>1, <2>2, Zenon DEF IsException, IsConfigured
<1>2. ASSUME IInv, Loaded, NEW path \in Seq(Characters), IsException(path)
      PROVE  IsConfiguredWithin(path)
  <2>1. normalize_email(path) # <<>>
    <3>1. PICK i \in DOMAIN exceptions : exceptions[i].address = normalize_email(path)
      BY <1>2 DEF IsException
    <3>2. /\ i \in DOMAIN config.exceptions
          /\ exceptions[i].address = Lower(config.exceptions[i].address)
          /\ normalize_configured_email(config.exceptions[i].address) = {exceptions[i].address}
      BY <1>2, <3>1 DEF IInv, ExceptionsNormalized, Loaded, Stages
    <3>3. config.exceptions \in Seq([address : Seq(Characters), allow_split_delivery : BOOLEAN])
      BY <1>2 DEF IInv, IsConfig
    <3>4. config.exceptions[i] \in [address : Seq(Characters), allow_split_delivery : BOOLEAN]
      BY <3>2, <3>3, ElementOfSeq, LenProperties
    <3>. DEFINE address == config.exceptions[i].address
    <3>5. address \in Seq(Characters)
      BY <3>4
    <3>6. IsAddress(address)
      BY <3>2, <3>5, ConfiguredAddress
    <3>7. Len(address) # 0 /\ Len(Lower(address)) = Len(address)
      <4>1. Ats(address) # {} /\ Ats(address) \subseteq DOMAIN address
        BY <3>6 DEF IsAddress, Ats
      <4>. QED  BY <3>5, <4>1, LowerProperties
    <3>8. normalize_email(path) = Lower(address)
      BY <3>1, <3>2
    <3>. HIDE DEF address
    <3>. QED  BY <3>5, <3>7, <3>8, LowerProperties, EmptySeq
  <2>2. PICK part \in Seq(Characters) : IsWithin(part, path) /\ normalize_email(path) = Lower(part)
    BY <2>1, NormalizedWithin
  <2>3. IsConfigured(part)
    BY <1>1, <1>2, <2>2
  <2>. QED  BY <2>2, <2>3, Zenon DEF IsWithin, IsConfiguredWithin
<1>3. IInv => ExceptionsMatchUpToBrackets
  <2>. SUFFICES ASSUME IInv, Loaded, NEW r \in Recipients, NEW argument \in Arguments(r)
                PROVE  /\ IsPlain(r) => ((\E path \in parse_path_argument(argument) : IsException(path))
                                           <=> IsConfigured(r))
                       /\ \A path \in parse_path_argument(argument) :
                            IsException(path) => IsConfiguredWithin(path)
    BY Zenon DEF ExceptionsMatchUpToBrackets
  <2>1. r \in Seq(Characters) /\ argument \in Seq(Characters)
    <3>1. r \in Seq(Characters)
      BY StartupAssumption
    <3>2. /\ <<"<">> \in Seq(Characters) /\ <<">">> \in Seq(Characters)
          /\ <<"space", "<", "space">> \in Seq(Characters)
          /\ <<"space", ">", "space">> \in Seq(Characters)
      BY DEF Characters
    <3>3. /\ <<"<">> \o r \o <<">">> \in Seq(Characters)
          /\ <<"space", "<", "space">> \o r \o <<"space", ">", "space">> \in Seq(Characters)
      BY <3>1, <3>2, ThreeLists
    <3>. QED  BY <3>1, <3>3, Zenon DEF Arguments
  <2>2. ASSUME IsPlain(r)
        PROVE  (\E path \in parse_path_argument(argument) : IsException(path)) <=> IsConfigured(r)
    <3>1. r # <<>> /\ Bare(r)
      BY <2>2 DEF IsPlain, Bare
    <3>2. parse_path_argument(argument) = {r}
      BY <2>1, <3>1, RecipientPath, Zenon DEF Arguments
    <3>3. normalize_email(r) = Lower(r)
      BY <2>1, <3>1, BareIsLowered
    <3>4. IsException(r) <=> IsConfigured(r)
      BY <1>1, <2>1, <3>3
    <3>. QED  BY <3>2, <3>4, Zenon
  <2>3. \A path \in parse_path_argument(argument) : IsException(path) => IsConfiguredWithin(path)
    BY <1>2, <2>1, PathIsText
  <2>. QED  BY <2>2, <2>3
<1>. QED  BY <1>3, Invariance, PTL

(* A configuration is refused only for one of the reasons the README gives,  *)
(* or for a blank text or a zero.                                            *)
THEOREM RefusalsHaveCause == Spec => []RefusedForCause
<1>1. IInv => RefusedForCause
  BY DEF IInv
<1>. QED  BY <1>1, Invariance, PTL
=============================================================================

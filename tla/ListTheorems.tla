------------------------------ MODULE ListTheorems ------------------------------
(***************************************************************************)
(* Facts about numbers and lists that the proofs about Release,            *)
(* EncryptedDelivery, Startup and MessageCodec share.  Induction is done   *)
(* over sets of natural numbers: a set that has 0 and the successor of     *)
(* each of its numbers has them all.                                       *)
(***************************************************************************)
EXTENDS SequencesExt, SequenceTheorems, FiniteSetTheorems, WellFoundedInduction, TLAPS

(* Every set of natural numbers has a smallest one. *)
LEMMA Smallest ==
  ASSUME NEW S, S \subseteq Nat, S # {}
  PROVE  \E m \in S : \A n \in S : m <= n
<1>. DEFINE R == OpToRel(<, Nat)
<1>1. IsWellFoundedOn(R, Nat)
  BY NatLessThanWellFounded
<1>2. \A x, y \in Nat : x < y => <<x, y>> \in R
  BY DEF OpToRel
<1>. HIDE DEF R
<1>3. PICK m \in S : \A n \in S : ~(<<n, m>> \in R)
  BY <1>1, WFMin
<1>4. \A n \in S : ~(n < m)
  BY <1>2, <1>3, Zenon
<1>. QED  BY <1>4

(* Induction. *)
LEMMA AllNaturals ==
  ASSUME NEW S, 0 \in S, \A n \in Nat : n \in S => n + 1 \in S
  PROVE  Nat \subseteq S
<1>. DEFINE Missing == Nat \ S
<1>1. SUFFICES ASSUME Missing # {} PROVE FALSE
  OBVIOUS
<1>2. PICK m \in Missing : \A n \in Missing : m <= n
  BY <1>1, Smallest
<1>3. m \in Nat /\ m # 0 /\ m \notin S
  OBVIOUS
<1>4. m - 1 \in Nat /\ m - 1 \in S
  BY <1>2, <1>3
<1>. QED  BY <1>3, <1>4

(* Min and Max are what their names say. *)
LEMMA MinIsLeast ==
  ASSUME NEW S, S \subseteq Nat, S # {}
  PROVE  Min(S) \in S /\ \A n \in S : Min(S) <= n
BY Smallest DEF Min

LEMMA MaxIsGreatest ==
  ASSUME NEW S, S \subseteq Nat, S # {}, NEW bound \in Nat, \A n \in S : n <= bound
  PROVE  Max(S) \in S /\ \A n \in S : n <= Max(S)
<1>. DEFINE Above == {b \in Nat : \A n \in S : n <= b}
<1>1. Above \subseteq Nat /\ bound \in Above
  OBVIOUS
<1>2. PICK m \in Above : \A b \in Above : m <= b
  BY <1>1, Smallest
<1>3. m \in S
  <2>1. SUFFICES ASSUME m \notin S PROVE FALSE
    OBVIOUS
  <2>2. \A n \in S : n \in Nat /\ n < m
    BY <2>1
  <2>3. PICK n \in S : TRUE
    OBVIOUS
  <2>4. m - 1 \in Nat /\ \A k \in S : k <= m - 1
    BY <2>2, <2>3
  <2>. QED  BY <1>2, <2>4
<1>4. \A n \in S : n <= m
  OBVIOUS
<1>. QED  BY <1>3, <1>4 DEF Max

-----------------------------------------------------------------------------
(* Lists written out. *)
LEMMA OneElement ==
  ASSUME NEW S, NEW a \in S
  PROVE  <<a>> \in Seq(S) /\ Len(<<a>>) = 1 /\ <<a>>[1] = a /\ ToSet(<<a>>) = {a}
<1>1. DOMAIN <<a>> = {1} /\ <<a>>[1] = a
  OBVIOUS
<1>. QED  BY <1>1 DEF ToSet

LEMMA TwoElements ==
  ASSUME NEW S, NEW a \in S, NEW b \in S
  PROVE  <<a, b>> \in Seq(S) /\ Len(<<a, b>>) = 2 /\ ToSet(<<a, b>>) = {a, b}
<1>1. DOMAIN <<a, b>> = {1, 2} /\ <<a, b>>[1] = a /\ <<a, b>>[2] = b
  OBVIOUS
<1>. QED  BY <1>1 DEF ToSet

LEMMA FiveElements ==
  ASSUME NEW S, NEW a \in S, NEW b \in S, NEW c \in S, NEW d \in S, NEW e \in S
  PROVE  <<a, b, c, d, e>> \in Seq(S) /\ ToSet(<<a, b, c, d, e>>) = {a, b, c, d, e}
<1>. DEFINE s == <<a, b, c, d, e>>
<1>1. /\ DOMAIN s = {1, 2, 3, 4, 5} /\ s \in Seq(S)
      /\ s[1] = a /\ s[2] = b /\ s[3] = c /\ s[4] = d /\ s[5] = e
  OBVIOUS
<1>. HIDE DEF s
<1>2. ToSet(s) = {a, b, c, d, e}
  BY <1>1 DEF ToSet
<1>. QED  BY <1>1, <1>2 DEF s

(* The elements of two lists put together. *)
LEMMA ToSetOfConcat ==
  ASSUME NEW S, NEW s \in Seq(S), NEW t \in Seq(S)
  PROVE  /\ s \o t \in Seq(S)
         /\ ToSet(s \o t) = ToSet(s) \cup ToSet(t)
<1>. DEFINE st == s \o t
<1>1. /\ Len(s) \in Nat /\ Len(t) \in Nat /\ DOMAIN s = 1 .. Len(s) /\ DOMAIN t = 1 .. Len(t)
      /\ st \in Seq(S) /\ DOMAIN st = 1 .. Len(s) + Len(t)
      /\ \A i \in DOMAIN st : st[i] = IF i <= Len(s) THEN s[i] ELSE t[i - Len(s)]
  BY ConcatProperties, LenProperties
<1>. HIDE DEF st
<1>2. \A i \in DOMAIN s : i \in DOMAIN st /\ st[i] = s[i]
  BY <1>1
<1>3. \A i \in DOMAIN t : i + Len(s) \in DOMAIN st /\ st[i + Len(s)] = t[i]
  BY <1>1
<1>4. \A i \in DOMAIN st : \/ i \in DOMAIN s /\ st[i] = s[i]
                           \/ i - Len(s) \in DOMAIN t /\ st[i] = t[i - Len(s)]
  BY <1>1
<1>5. ToSet(st) = ToSet(s) \cup ToSet(t)
  BY <1>2, <1>3, <1>4 DEF ToSet
<1>. QED  BY <1>1, <1>5 DEF st

(* The first element, and the others. *)
LEMMA HeadAndTail ==
  ASSUME NEW S, NEW s \in Seq(S), s # <<>>
  PROVE  /\ Len(s) \in Nat \ {0} /\ 1 \in DOMAIN s /\ Head(s) = s[1] /\ Head(s) \in S
         /\ Tail(s) \in Seq(S) /\ Len(Tail(s)) = Len(s) - 1
         /\ \A i \in DOMAIN Tail(s) : i + 1 \in DOMAIN s /\ Tail(s)[i] = s[i + 1]
         /\ ToSet(s) = {Head(s)} \cup ToSet(Tail(s))
<1>1. Len(s) \in Nat \ {0} /\ DOMAIN s = 1 .. Len(s)
  BY EmptySeq, LenProperties
<1>2. Head(s) = s[1]
  <2>1. SubSeq(s, 1, Len(s)) = s
    BY SubSeqFull
  <2>2. Head(SubSeq(s, 1, Len(s))) = s[1]
    BY <1>1, HeadTailOfSubSeq
  <2>. QED  BY <2>1, <2>2
<1>. DEFINE t == Tail(s)
<1>3. /\ Head(s) \in S /\ t \in Seq(S) /\ Len(t) = Len(s) - 1 /\ DOMAIN t = 1 .. Len(s) - 1
      /\ \A i \in 1 .. Len(s) - 1 : t[i] = s[i + 1]
  BY HeadTailProperties, LenProperties
<1>. HIDE DEF t
<1>4. \A i \in DOMAIN t : i + 1 \in DOMAIN s /\ t[i] = s[i + 1]
  BY <1>1, <1>3
<1>5. \A i \in DOMAIN s : i = 1 \/ (i - 1 \in DOMAIN t /\ s[i] = t[i - 1])
  BY <1>1, <1>3
<1>6. ToSet(s) = {s[1]} \cup ToSet(t)
  BY <1>1, <1>4, <1>5 DEF ToSet
<1>. QED  BY <1>1, <1>2, <1>3, <1>4, <1>6 DEF t

(* The list that the first n lists of a list make up, as FlattenSeq recurses. *)
IsFlattening(g, ss, n) ==
  g = [i \in 1 .. n |-> IF i = 1 THEN ss[i] ELSE g[i - 1] \o ss[i]]

LEMMA FlatteningAt ==
  ASSUME NEW g, NEW ss, NEW n \in Nat, IsFlattening(g, ss, n), NEW i \in 1 .. n
  PROVE  g[i] = IF i = 1 THEN ss[i] ELSE g[i - 1] \o ss[i]
<1>. DEFINE h == [k \in 1 .. n |-> IF k = 1 THEN ss[k] ELSE g[k - 1] \o ss[k]]
<1>1. g = h
  BY DEF IsFlattening
<1>2. h[i] = IF i = 1 THEN ss[i] ELSE g[i - 1] \o ss[i]
  OBVIOUS
<1>. HIDE DEF h
<1>3. g[i] = h[i]
  BY <1>1
<1>. QED  BY <1>2, <1>3

LEMMA FlatteningExists ==
  ASSUME NEW ss, NEW n \in Nat
  PROVE  \E g : IsFlattening(g, ss, n)
<1>. DEFINE Flattened == {k \in Nat : \E g : IsFlattening(g, ss, k)}
<1>1. 0 \in Flattened
  <2>. DEFINE g == [i \in 1 .. 0 |-> i]
  <2>1. IsFlattening(g, ss, 0)
    BY DEF IsFlattening
  <2>. QED  BY <2>1
<1>2. ASSUME NEW k \in Nat, k \in Flattened
      PROVE  k + 1 \in Flattened
  <2>1. PICK g : IsFlattening(g, ss, k)
    BY <1>2
  <2>. DEFINE h == [i \in 1 .. k + 1 |->
                      IF i = 1 THEN ss[i] ELSE g[i - 1] \o ss[i]]
  <2>2. ASSUME NEW i \in 1 .. k
        PROVE  h[i] = g[i]
    BY <2>1, FlatteningAt
  <2>3. IsFlattening(h, ss, k + 1)
    <3>1. ASSUME NEW i \in 1 .. k + 1
          PROVE  (IF i = 1 THEN ss[i] ELSE g[i - 1] \o ss[i])
                   = (IF i = 1 THEN ss[i] ELSE h[i - 1] \o ss[i])
      <4>1. i # 1 => i - 1 \in 1 .. k
        OBVIOUS
      <4>. HIDE DEF h
      <4>. QED  BY <2>2, <4>1
    <3>. QED  BY <3>1 DEF IsFlattening
  <2>. QED  BY <2>3
<1>. HIDE DEF Flattened
<1>3. Nat \subseteq Flattened
  BY <1>1, <1>2, AllNaturals
<1>. QED  BY <1>3 DEF Flattened

(* s has the elements of the first n lists of ss, which are lists over S. *)
HasElements(s, S, ss, n) ==
  /\ s \in Seq(S)
  /\ \A x : x \in ToSet(s) <=> \E i \in 1 .. n : x \in ToSet(ss[i])

AreLists(S, ss, n) == \A i \in 1 .. n : ss[i] \in Seq(S)

LEMMA FlatteningElements ==
  ASSUME NEW S, NEW ss, NEW n, n \in Nat, n # 0, NEW g, IsFlattening(g, ss, n),
         AreLists(S, ss, n)
  PROVE  HasElements(g[n], S, ss, n)
<1>. DEFINE Good(k) == HasElements(g[k], S, ss, k)
            Reached == {k \in Nat : k + 1 \in 1 .. n => Good(k + 1)}
<1>0. \A i \in 1 .. n : ss[i] \in Seq(S)
  BY DEF AreLists
<1>1. \A i \in 1 .. n : g[i] = IF i = 1 THEN ss[i] ELSE g[i - 1] \o ss[i]
  BY FlatteningAt
<1>2. 0 \in Reached
  <2>1. g[1] = ss[1] /\ 1 \in 1 .. n
    BY <1>1
  <2>2. Good(1)
    BY <1>0, <2>1 DEF HasElements
  <2>. QED  BY <2>2
<1>3. ASSUME NEW k \in Nat, k \in Reached
      PROVE  k + 1 \in Reached
  <2>. DEFINE j == k + 2
  <2>1. SUFFICES ASSUME j \in 1 .. n
                 PROVE  Good(j)
    OBVIOUS
  <2>2. j # 1 /\ j - 1 = k + 1 /\ k + 1 \in 1 .. n
    BY <2>1
  <2>3. Good(k + 1)
    BY <1>3, <2>2
  <2>4. \A i : i \in 1 .. j <=> i \in 1 .. k + 1 \/ i = j
    OBVIOUS
  <2>. HIDE DEF j
  <2>5. g[j] = g[k + 1] \o ss[j]
    BY <1>1, <2>1, <2>2
  <2>6. g[j] \in Seq(S) /\ ToSet(g[j]) = ToSet(g[k + 1]) \cup ToSet(ss[j])
    BY <1>0, <2>1, <2>3, <2>5, ToSetOfConcat DEF HasElements
  <2>. QED  BY <2>3, <2>4, <2>6 DEF HasElements
<1>. HIDE DEF Reached
<1>4. Nat \subseteq Reached
  BY <1>2, <1>3, AllNaturals
<1>5. n - 1 \in Reached /\ n - 1 + 1 = n
  BY <1>4
<1>. QED  BY <1>5 DEF Reached

LEMMA FlattenSeqIsFlattening ==
  ASSUME NEW ss, Len(ss) \in Nat \ {0}
  PROVE  \E g : IsFlattening(g, ss, Len(ss)) /\ FlattenSeq(ss) = g[Len(ss)]
<1>. DEFINE g == CHOOSE h : IsFlattening(h, ss, Len(ss))
<1>1. FlattenSeq(ss) = g[Len(ss)]
  BY DEF FlattenSeq, IsFlattening
<1>2. IsFlattening(g, ss, Len(ss))
  BY FlatteningExists
<1>. QED  BY <1>1, <1>2

(* FlattenSeq has the elements of the lists of a list, and no others. *)
LEMMA FlattenProperties ==
  ASSUME NEW S, NEW ss \in Seq(Seq(S))
  PROVE  /\ FlattenSeq(ss) \in Seq(S)
         /\ \A x : x \in ToSet(FlattenSeq(ss)) <=> \E i \in DOMAIN ss : x \in ToSet(ss[i])
<1>1. /\ Len(ss) \in Nat /\ DOMAIN ss = 1 .. Len(ss)
      /\ \A i \in 1 .. Len(ss) : ss[i] \in Seq(S)
  BY LenProperties, ElementOfSeq
<1>2. CASE Len(ss) = 0
  <2>1. FlattenSeq(ss) = ss /\ ss = <<>>
    BY <1>2, EmptySeq DEF FlattenSeq
  <2>. QED  BY <1>1, <1>2, <2>1, EmptySeq DEF ToSet
<1>3. CASE Len(ss) # 0
  <2>1. PICK n \in Nat \ {0} : n = Len(ss)
    BY <1>1, <1>3
  <2>2. PICK g : IsFlattening(g, ss, n) /\ FlattenSeq(ss) = g[n]
    BY <2>1, FlattenSeqIsFlattening
  <2>3. AreLists(S, ss, n)
    BY <1>1, <2>1 DEF AreLists
  <2>4. HasElements(g[n], S, ss, n)
    BY <2>1, <2>2, <2>3, FlatteningElements
  <2>. QED  BY <1>1, <2>1, <2>2, <2>4 DEF HasElements
<1>. QED  BY <1>2, <1>3

LEMMA NoElements ==
  ASSUME NEW S, NEW s \in Seq(S)
  PROVE  ToSet(s) = {} <=> s = <<>>
<1>1. Len(s) \in Nat /\ DOMAIN s = 1 .. Len(s) /\ (Len(s) = 0 <=> s = <<>>)
  BY LenProperties, EmptySeq
<1>2. CASE Len(s) = 0
  BY <1>1, <1>2 DEF ToSet
<1>3. CASE Len(s) # 0
  <2>1. 1 \in DOMAIN s
    BY <1>1, <1>3
  <2>2. s[1] \in ToSet(s)
    BY <2>1 DEF ToSet
  <2>. QED  BY <1>1, <1>3, <2>2
<1>. QED  BY <1>1, <1>2, <1>3

LEMMA ElementsOfList ==
  ASSUME NEW S, NEW s \in Seq(S)
  PROVE  /\ ToSet(s) \subseteq S
         /\ \A i \in DOMAIN s : s[i] \in ToSet(s)
<1>1. \A i \in DOMAIN s : s[i] \in S
  BY LenProperties, ElementOfSeq
<1>. QED  BY <1>1 DEF ToSet

LEMMA EmptyList ==
  ASSUME NEW S
  PROVE  <<>> \in Seq(S) /\ ToSet(<<>>) = {}
<1>1. <<>> \in Seq(S)
  BY EmptySeq
<1>. QED  BY <1>1, NoElements

(* A part of a list.                                                         *)
LEMMA PartOfList ==
  ASSUME NEW S, NEW s \in Seq(S), NEW a \in Nat \ {0}, NEW b \in Nat, b <= Len(s), a <= b + 1
  PROVE  /\ SubSeq(s, a, b) \in Seq(S) /\ Len(SubSeq(s, a, b)) = b - a + 1
         /\ DOMAIN SubSeq(s, a, b) = 1 .. b - a + 1
         /\ \A i \in 1 .. b - a + 1 : SubSeq(s, a, b)[i] = s[a + i - 1]
<1>1. Len(s) \in Nat /\ \A i \in a .. b : s[i] \in S
  BY LenProperties, ElementOfSeq
<1>2. /\ SubSeq(s, a, b) \in Seq(S)
      /\ Len(SubSeq(s, a, b)) = IF a <= b THEN b - a + 1 ELSE 0
      /\ \A i \in 1 .. b - a + 1 : SubSeq(s, a, b)[i] = s[a + i - 1]
  BY <1>1, SubSeqProperties
<1>3. Len(SubSeq(s, a, b)) = b - a + 1
  BY <1>2
<1>. QED  BY <1>2, <1>3, LenProperties

-----------------------------------------------------------------------------
(* Suffixes, compared from their ends.                                       *)
LEMMA ReverseProperties ==
  ASSUME NEW S, NEW s \in Seq(S)
  PROVE  /\ Reverse(s) \in Seq(S) /\ Len(Reverse(s)) = Len(s) /\ Len(s) \in Nat
         /\ \A i \in 1 .. Len(s) : Reverse(s)[i] = s[Len(s) - i + 1]
<1>1. PICK n \in Nat : n = Len(s) /\ \A i \in 1 .. n : s[i] \in S
  BY LenProperties, ElementOfSeq
<1>2. Reverse(s) = [i \in 1 .. n |-> s[n - i + 1]]
  BY <1>1 DEF Reverse
<1>3. \A i \in 1 .. n : n - i + 1 \in 1 .. n
  OBVIOUS
<1>4. Reverse(s) \in [1 .. n -> S]
  BY <1>1, <1>2, <1>3
<1>5. Reverse(s) \in Seq(S)
  BY <1>4, SeqDef
<1>6. Len(Reverse(s)) = n
  BY <1>2, <1>5, LenProperties
<1>. QED  BY <1>1, <1>2, <1>5, <1>6

SameEnd(s, m, t, n) == m <= n /\ \A i \in 1 .. m : s[m - i + 1] = t[n - i + 1]

LEMMA SuffixProperties ==
  ASSUME NEW S, NEW s \in Seq(S), NEW t \in Seq(S), NEW m \in Nat, NEW n \in Nat,
         m = Len(s), n = Len(t)
  PROVE  IsSuffix(s, t) <=> SameEnd(s, m, t, n)
<1>. DEFINE u == Reverse(s)
            v == Reverse(t)
            x == SubSeq(u, 1, m)
            y == SubSeq(v, 1, m)
<1>1. u \in Seq(S) /\ Len(u) = m /\ \A i \in 1 .. m : u[i] = s[m - i + 1]
  BY ReverseProperties
<1>2. v \in Seq(S) /\ Len(v) = n /\ \A i \in 1 .. n : v[i] = t[n - i + 1]
  BY ReverseProperties
<1>3. IsSuffix(s, t) <=> m <= n /\ x = y
  BY <1>1, <1>2 DEF IsSuffix, IsPrefix
<1>. HIDE DEF u, v
<1>4. x = u
  BY <1>1, SubSeqFull
<1>5. ASSUME m <= n
      PROVE  x = y <=> \A i \in 1 .. m : s[m - i + 1] = t[n - i + 1]
  <2>1. /\ y \in Seq(S) /\ Len(y) = m - 1 + 1
        /\ \A i \in 1 .. m - 1 + 1 : y[i] = v[1 + i - 1]
    BY <1>2, <1>5, PartOfList
  <2>. HIDE DEF x, y
  <2>2. Len(y) = m /\ \A i \in 1 .. m : y[i] = v[i]
    BY <2>1
  <2>3. \A i \in 1 .. m : y[i] = t[n - i + 1]
    BY <1>2, <1>5, <2>2
  <2>4. u = y <=> \A i \in 1 .. m : u[i] = y[i]
    BY <1>1, <2>1, <2>2, SeqEqual
  <2>. QED  BY <1>1, <1>4, <2>3, <2>4
<1>. HIDE DEF x, y
<1>. QED  BY <1>3, <1>5 DEF SameEnd

(* Lists that end with an element, and with two.                             *)
LEMMA EndsWithOne ==
  ASSUME NEW S, NEW t \in Seq(S), NEW a \in S
  PROVE  IsSuffix(<<a>>, t) <=> Len(t) # 0 /\ t[Len(t)] = a
<1>. DEFINE s == <<a>>
<1>1. s \in Seq(S) /\ Len(s) = 1 /\ s[1] = a
  BY OneElement
<1>. HIDE DEF s
<1>2. PICK n \in Nat : n = Len(t)
  BY LenProperties
<1>3. IsSuffix(s, t) <=> SameEnd(s, 1, t, n)
  BY <1>1, <1>2, SuffixProperties
<1>4. n - 1 + 1 = n /\ 1 - 1 + 1 = 1 /\ 1 .. 1 = {1} /\ (1 <= n <=> n # 0)
  OBVIOUS
<1>5. (\A i \in 1 .. 1 : s[1 - i + 1] = t[n - i + 1]) <=> s[1] = t[n]
  BY <1>4
<1>6. IsSuffix(s, t) <=> n # 0 /\ s[1] = t[n]
  BY <1>3, <1>4, <1>5 DEF SameEnd
<1>. QED  BY <1>1, <1>2, <1>6 DEF s

LEMMA EndsWithTwo ==
  ASSUME NEW S, NEW t \in Seq(S), NEW a \in S, NEW b \in S
  PROVE  IsSuffix(<<a, b>>, t) <=> 2 <= Len(t) /\ t[Len(t) - 1] = a /\ t[Len(t)] = b
<1>. DEFINE s == <<a, b>>
<1>1. s \in Seq(S) /\ Len(s) = 2
  BY TwoElements
<1>2. s[1] = a /\ s[2] = b
  OBVIOUS
<1>. HIDE DEF s
<1>3. PICK n \in Nat : n = Len(t)
  BY LenProperties
<1>4. IsSuffix(s, t) <=> SameEnd(s, 2, t, n)
  BY <1>1, <1>3, SuffixProperties
<1>5. 1 .. 2 = {1, 2} /\ 2 - 1 + 1 = 2 /\ 2 - 2 + 1 = 1 /\ n - 1 + 1 = n /\ n - 2 + 1 = n - 1
  OBVIOUS
<1>6. (\A i \in 1 .. 2 : s[2 - i + 1] = t[n - i + 1]) <=> s[2] = t[n] /\ s[1] = t[n - 1]
  BY <1>5
<1>7. IsSuffix(s, t) <=> 2 <= n /\ s[2] = t[n] /\ s[1] = t[n - 1]
  BY <1>4, <1>6 DEF SameEnd
<1>. QED  BY <1>2, <1>3, <1>7 DEF s

(* A list is what is before its end, and its end.                            *)
LEMMA EndCutOff ==
  ASSUME NEW S, NEW s \in Seq(S), NEW e \in Seq(S), NEW m \in Nat, NEW n \in Nat,
         Len(s) = m + n, Len(e) = n, \A i \in 1 .. n : s[m + i] = e[i]
  PROVE  s = SubSeq(s, 1, m) \o e
<1>. DEFINE u == SubSeq(s, 1, m)
            v == u \o e
<1>1. m <= Len(s) /\ 1 <= m + 1 /\ m - 1 + 1 = m
  OBVIOUS
<1>2. u \in Seq(S) /\ Len(u) = m - 1 + 1 /\ \A i \in 1 .. m - 1 + 1 : u[i] = s[1 + i - 1]
  BY <1>1, PartOfList
<1>. HIDE DEF u
<1>3. Len(u) = m /\ \A i \in 1 .. m : u[i] = s[i]
  BY <1>1, <1>2
<1>4. /\ v \in Seq(S) /\ Len(v) = Len(u) + Len(e)
      /\ \A i \in 1 .. Len(u) + Len(e) : v[i] = IF i <= Len(u) THEN u[i] ELSE e[i - Len(u)]
  BY <1>2, ConcatProperties
<1>. HIDE DEF v
<1>5. Len(v) = m + n /\ \A i \in 1 .. m + n : v[i] = IF i <= m THEN u[i] ELSE e[i - m]
  BY <1>3, <1>4
<1>6. ASSUME NEW i \in 1 .. m + n
      PROVE  s[i] = v[i]
  <2>1. CASE i <= m
    BY <1>3, <1>5, <2>1
  <2>2. CASE ~(i <= m)
    <3>1. PICK j \in 1 .. n : i = m + j /\ i - m = j
      BY <2>2
    <3>. QED  BY <1>5, <2>2, <3>1
  <2>. QED  BY <2>1, <2>2
<1>7. s = v
  BY <1>4, <1>5, <1>6, SeqEqual
<1>. QED  BY <1>7 DEF u, v

(* Induction over lists: a set that has the empty list, and with a list all  *)
(* that are longer by one element, has them all.                             *)
LEMMA AllLists ==
  ASSUME NEW B, NEW S, <<>> \in S,
         \A s \in Seq(B) : \A b \in B : s \in S => s \o <<b>> \in S
  PROVE  Seq(B) \subseteq S
<1>. DEFINE Done == {n \in Nat : \A s \in Seq(B) : Len(s) = n => s \in S}
<1>1. 0 \in Done
  <2>1. ASSUME NEW s \in Seq(B), Len(s) = 0
        PROVE  s \in S
    BY <2>1, EmptySeq
  <2>. QED  BY <2>1
<1>2. ASSUME NEW n \in Nat, n \in Done
      PROVE  n + 1 \in Done
  <2>1. ASSUME NEW s \in Seq(B), Len(s) = n + 1
        PROVE  s \in S
    <3>. DEFINE front == SubSeq(s, 1, n)
                last  == s[n + 1]
    <3>1. last \in B /\ front \in Seq(B) /\ Len(front) = n - 1 + 1
      BY <2>1, PartOfList, ElementOfSeq
    <3>2. /\ <<last>> \in Seq(B) /\ Len(<<last>>) = 1 /\ <<last>>[1] = last
      BY <3>1, OneElement
    <3>3. \A i \in 1 .. 1 : s[n + i] = <<last>>[i]
      BY <3>2
    <3>. HIDE DEF last
    <3>4. PICK one \in Nat : one = 1
      OBVIOUS
    <3>5. s = front \o <<last>>
      BY <2>1, <3>2, <3>3, <3>4, EndCutOff
    <3>. HIDE DEF front
    <3>6. front \in S
      BY <1>2, <3>1
    <3>. QED  BY <3>1, <3>5, <3>6
  <2>. QED  BY <2>1
<1>. HIDE DEF Done
<1>3. Nat \subseteq Done
  BY <1>1, <1>2, AllNaturals
<1>4. \A s \in Seq(B) : Len(s) \in Done
  BY <1>3, LenProperties
<1>. QED  BY <1>4 DEF Done

(* FlattenSeq of one list more.                                              *)
LEMMA FlattenNothing == FlattenSeq(<<>>) = <<>>
<1>1. Len(<<>>) = 0
  BY EmptySeq
<1>. QED  BY <1>1 DEF FlattenSeq

LEMMA FlattenMore ==
  ASSUME NEW B, NEW n \in Nat, NEW p \in [1 .. n -> Seq(B)], NEW q \in [1 .. n + 1 -> Seq(B)],
         \A i \in 1 .. n : q[i] = p[i]
  PROVE  FlattenSeq(q) = FlattenSeq(p) \o q[n + 1]
<1>1. p \in Seq(Seq(B)) /\ Len(p) = n /\ q \in Seq(Seq(B)) /\ Len(q) = n + 1
  BY SeqDef, LenProperties
<1>2. PICK h : IsFlattening(h, q, n + 1) /\ FlattenSeq(q) = h[n + 1]
  BY <1>1, FlattenSeqIsFlattening
<1>3. \A i \in 1 .. n + 1 : h[i] = IF i = 1 THEN q[i] ELSE h[i - 1] \o q[i]
  BY <1>2, FlatteningAt
<1>4. CASE n = 0
  <2>1. p = <<>> /\ FlattenSeq(p) = <<>>
    BY <1>1, <1>4, EmptySeq DEF FlattenSeq
  <2>2. h[1] = q[1] /\ q[1] \in Seq(B)
    BY <1>3, <1>4
  <2>. QED  BY <1>2, <1>4, <2>1, <2>2, ConcatEmptySeq
<1>5. CASE n # 0
  <2>1. PICK g : IsFlattening(g, p, n) /\ FlattenSeq(p) = g[n]
    BY <1>1, <1>5, FlattenSeqIsFlattening
  <2>2. \A i \in 1 .. n : g[i] = IF i = 1 THEN p[i] ELSE g[i - 1] \o p[i]
    BY <2>1, FlatteningAt
  <2>. DEFINE Same == {k \in Nat : k + 1 \in 1 .. n => g[k + 1] = h[k + 1]}
  <2>3. 0 \in Same
    BY <1>3, <2>2
  <2>4. ASSUME NEW k \in Nat, k \in Same
        PROVE  k + 1 \in Same
    <3>1. SUFFICES ASSUME k + 2 \in 1 .. n
                   PROVE  g[k + 2] = h[k + 2]
      OBVIOUS
    <3>2. g[k + 1] = h[k + 1]
      BY <2>4, <3>1
    <3>3. /\ k + 2 # 1 /\ k + 2 - 1 = k + 1 /\ k + 2 \in 1 .. n + 1
      BY <3>1
    <3>. QED  BY <1>3, <2>2, <3>1, <3>2, <3>3
  <2>. HIDE DEF Same
  <2>5. Nat \subseteq Same
    BY <2>3, <2>4, AllNaturals
  <2>6. n - 1 \in Same /\ n - 1 + 1 = n
    BY <1>5, <2>5
  <2>7. g[n] = h[n]
    BY <1>5, <2>6 DEF Same
  <2>8. PICK m \in 1 .. n + 1 : m = n + 1 /\ m # 1 /\ m - 1 = n
    BY <1>5
  <2>9. h[m] = h[n] \o q[m]
    BY <1>3, <2>8
  <2>. QED  BY <1>2, <2>1, <2>7, <2>8, <2>9
<1>. QED  BY <1>4, <1>5

LEMMA FlattenIsList ==
  ASSUME NEW B, NEW n \in Nat, NEW p \in [1 .. n -> Seq(B)]
  PROVE  FlattenSeq(p) \in Seq(B)
<1>1. p \in Seq(Seq(B))
  BY SeqDef
<1>. QED  BY <1>1, FlattenProperties

(* The first elements of a list.                                             *)
LEMMA PrefixProperties ==
  ASSUME NEW S, NEW s \in Seq(S), NEW k \in Nat, k <= Len(s)
  PROVE  /\ SubSeq(s, 1, k) \in Seq(S) /\ Len(SubSeq(s, 1, k)) = k
         /\ DOMAIN SubSeq(s, 1, k) = 1 .. k
         /\ \A i \in 1 .. k : SubSeq(s, 1, k)[i] = s[i]
<1>1. PICK one \in Nat \ {0} : one = 1 /\ one <= k + 1 /\ k - one + 1 = k
  OBVIOUS
<1>2. /\ SubSeq(s, one, k) \in Seq(S) /\ Len(SubSeq(s, one, k)) = k - one + 1
      /\ DOMAIN SubSeq(s, one, k) = 1 .. k - one + 1
      /\ \A i \in 1 .. k - one + 1 : SubSeq(s, one, k)[i] = s[one + i - 1]
  BY <1>1, PartOfList
<1>3. \A i \in 1 .. k : one + i - 1 = i
  BY <1>1
<1>. QED  BY <1>1, <1>2, <1>3

LEMMA PrefixMore ==
  ASSUME NEW S, NEW s \in Seq(S), NEW k \in Nat, k + 1 <= Len(s)
  PROVE  SubSeq(s, 1, k + 1) = SubSeq(s, 1, k) \o <<s[k + 1]>>
<1>. DEFINE longer == SubSeq(s, 1, k + 1)
<1>0. PICK m \in Nat : m = k + 1 /\ k <= m
  OBVIOUS
<1>1. /\ longer \in Seq(S) /\ Len(longer) = m /\ \A i \in 1 .. m : longer[i] = s[i]
  BY <1>0, PrefixProperties
<1>2. s[m] \in S /\ longer[m] = s[m]
  BY <1>0, <1>1, ElementOfSeq
<1>3. PICK one \in Nat : one = 1 /\ k + one = m
  BY <1>0
<1>4. <<s[m]>> \in Seq(S) /\ Len(<<s[m]>>) = one /\ <<s[m]>>[1] = s[m]
  BY <1>2, <1>3, OneElement
<1>5. \A i \in 1 .. one : i = 1 /\ k + i = m
  BY <1>3
<1>. DEFINE last == <<s[m]>>
<1>6. \A i \in 1 .. one : longer[k + i] = last[i]
  BY <1>2, <1>4, <1>5
<1>. HIDE DEF longer, last
<1>7. longer = SubSeq(longer, 1, k) \o last
  BY <1>1, <1>3, <1>4, <1>6, EndCutOff DEF last
<1>8. SubSeq(longer, 1, k) = SubSeq(s, 1, k)
  <2>1. /\ SubSeq(longer, 1, k) \in Seq(S) /\ Len(SubSeq(longer, 1, k)) = k
        /\ \A i \in 1 .. k : SubSeq(longer, 1, k)[i] = longer[i]
    BY <1>0, <1>1, PrefixProperties
  <2>2. /\ SubSeq(s, 1, k) \in Seq(S) /\ Len(SubSeq(s, 1, k)) = k
        /\ \A i \in 1 .. k : SubSeq(s, 1, k)[i] = s[i]
    BY <1>0, PrefixProperties
  <2>3. \A i \in 1 .. k : longer[i] = s[i]
    BY <1>0, <1>1
  <2>. QED  BY <2>1, <2>2, <2>3, SeqEqual
<1>. QED  BY <1>0, <1>7, <1>8 DEF longer, last
=============================================================================

--------------------------- MODULE MessageCodecProofs ---------------------------
(***************************************************************************)
(* Proofs about MessageCodec: what is stored of a message, when it is      *)
(* refused and what arrives, for data of any length and any limits.        *)
(***************************************************************************)
EXTENDS MessageCodec, ListTheorems

-----------------------------------------------------------------------------
(***************************************************************************)
(* A list with one byte more.                                              *)
(***************************************************************************)
EndsWith(data, byte) == Len(data) # 0 /\ data[Len(data)] = byte

EndsWithBreak(data) == Len(data) > 1 /\ data[Len(data) - 1] = "CR" /\ data[Len(data)] = "LF"

LEMMA OneMore ==
  ASSUME NEW data \in Seq(Bytes), NEW byte \in Bytes
  PROVE  /\ data \o <<byte>> \in Seq(Bytes)
         /\ Len(data) \in Nat /\ DOMAIN data = 1 .. Len(data)
         /\ Len(data \o <<byte>>) = Len(data) + 1
         /\ DOMAIN (data \o <<byte>>) = 1 .. Len(data) + 1
         /\ \A i \in 1 .. Len(data) : (data \o <<byte>>)[i] = data[i]
         /\ (data \o <<byte>>)[Len(data) + 1] = byte
<1>1. <<byte>> \in Seq(Bytes) /\ Len(<<byte>>) = 1 /\ <<byte>>[1] = byte
  BY OneElement
<1>. DEFINE one  == <<byte>>
            more == data \o one
<1>. HIDE DEF one
<1>2. PICK n \in Nat : n = Len(data)
  BY LenProperties
<1>3. /\ more \in Seq(Bytes) /\ Len(more) = n + 1
      /\ \A i \in 1 .. n + 1 : more[i] = IF i <= n THEN data[i] ELSE one[i - n]
  BY <1>1, <1>2, ConcatProperties DEF one
<1>. HIDE DEF more
<1>4. \A i \in 1 .. n : more[i] = data[i]
  BY <1>3
<1>5. PICK m \in 1 .. n + 1 : m = n + 1 /\ m - n = 1 /\ ~(m <= n)
  OBVIOUS
<1>6. more[m] = byte
  BY <1>1, <1>3, <1>5 DEF one
<1>. QED  BY <1>2, <1>3, <1>4, <1>5, <1>6, LenProperties DEF more, one

(* Two more. *)
LEMMA BreakMore ==
  /\ CRLF \in Seq(Bytes) /\ Len(CRLF) = 2 /\ CRLF[1] = "CR" /\ CRLF[2] = "LF"
  /\ \A data \in Seq(Bytes) : data \o CRLF = (data \o <<"CR">>) \o <<"LF">>
<1>1. /\ CRLF \in Seq(Bytes) /\ Len(CRLF) = 2 /\ CRLF[1] = "CR" /\ CRLF[2] = "LF"
  BY TwoElements DEF CRLF, Bytes
<1>2. CRLF = <<"CR">> \o <<"LF">>
  BY DEF CRLF
<1>3. <<"CR">> \in Seq(Bytes) /\ <<"LF">> \in Seq(Bytes)
  BY OneElement DEF Bytes
<1>4. ASSUME NEW data \in Seq(Bytes)
      PROVE  data \o CRLF = (data \o <<"CR">>) \o <<"LF">>
  BY <1>2, <1>3, ConcatAssociative
<1>. QED  BY <1>1, <1>4

-----------------------------------------------------------------------------
(***************************************************************************)
(* What stuffing, its inverse and Canonical make of one byte more.         *)
(***************************************************************************)
StuffedOf(data, i) ==
  IF data[i] = "." /\ (i = 1 \/ data[i - 1] = "LF") THEN <<".", ".">> ELSE <<data[i]>>

LEMMA StuffedMore ==
  ASSUME NEW data \in Seq(Bytes), NEW byte \in Bytes
  PROVE  /\ Stuffed(data) \in Seq(Bytes)
         /\ Stuffed(data \o <<byte>>) =
              Stuffed(data) \o (IF byte = "." /\ (Len(data) = 0 \/ EndsWith(data, "LF"))
                                THEN <<".", ".">> ELSE <<byte>>)
<1>. DEFINE more == data \o <<byte>>
            p == [i \in DOMAIN data |-> StuffedOf(data, i)]
            q == [i \in DOMAIN more |-> StuffedOf(more, i)]
<1>1. PICK n \in Nat : n = Len(data)
  BY LenProperties
<1>2. /\ more \in Seq(Bytes) /\ DOMAIN data = 1 .. n /\ DOMAIN more = 1 .. n + 1
      /\ \A i \in 1 .. n : more[i] = data[i]
      /\ more[n + 1] = byte
  BY <1>1, OneMore
<1>3. Stuffed(data) = FlattenSeq(p) /\ Stuffed(more) = FlattenSeq(q)
  BY DEF Stuffed, StuffedOf
<1>. HIDE DEF more
<1>4. \A i \in 1 .. n : data[i] \in Bytes
  BY <1>1, ElementOfSeq
<1>5. \A b \in Bytes : <<b>> \in Seq(Bytes)
  BY OneElement
<1>6. <<".", ".">> \in Seq(Bytes)
  BY TwoElements DEF Bytes
<1>7. p \in [1 .. n -> Seq(Bytes)]
  BY <1>2, <1>4, <1>5, <1>6 DEF StuffedOf
<1>8. \A i \in 1 .. n + 1 : more[i] \in Bytes
  BY <1>2, <1>4
<1>9. q \in [1 .. n + 1 -> Seq(Bytes)]
  BY <1>2, <1>8, <1>5, <1>6 DEF StuffedOf
<1>10. \A i \in 1 .. n : q[i] = p[i]
  <2>1. ASSUME NEW i \in 1 .. n
        PROVE  StuffedOf(more, i) = StuffedOf(data, i)
    <3>1. i = 1 \/ i - 1 \in 1 .. n
      OBVIOUS
    <3>. QED  BY <1>2, <3>1 DEF StuffedOf
  <2>. QED  BY <1>2, <2>1
<1>11. q[n + 1] = IF byte = "." /\ (Len(data) = 0 \/ EndsWith(data, "LF"))
                  THEN <<".", ".">> ELSE <<byte>>
  <2>1. PICK m \in 1 .. n + 1 : m = n + 1 /\ m - 1 = n /\ (m = 1 <=> n = 0) /\ (n # 0 => n \in 1 .. n)
    OBVIOUS
  <2>2. q[m] = StuffedOf(more, m)
    BY <1>2
  <2>3. more[m] = byte /\ (m # 1 => more[m - 1] = data[n])
    BY <1>2, <2>1
  <2>. QED  BY <1>1, <2>1, <2>2, <2>3 DEF StuffedOf, EndsWith
<1>. HIDE DEF p, q
<1>12. FlattenSeq(q) = FlattenSeq(p) \o q[n + 1]
  BY <1>7, <1>9, <1>10, FlattenMore
<1>13. FlattenSeq(p) \in Seq(Bytes)
  BY <1>7, FlattenIsList
<1>. QED  BY <1>3, <1>11, <1>12, <1>13 DEF more

UnstuffedOf(data, i) ==
  IF data[i] = "." /\ LineStart(data, i) THEN <<>> ELSE <<data[i]>>

LEMMA UnstuffedMore ==
  ASSUME NEW data \in Seq(Bytes), NEW byte \in Bytes
  PROVE  /\ Unstuffed(data) \in Seq(Bytes)
         /\ Unstuffed(data \o <<byte>>) =
              Unstuffed(data) \o (IF byte = "." /\ (Len(data) = 0 \/ EndsWithBreak(data))
                                  THEN <<>> ELSE <<byte>>)
<1>. DEFINE more == data \o <<byte>>
            p == [i \in DOMAIN data |-> UnstuffedOf(data, i)]
            q == [i \in DOMAIN more |-> UnstuffedOf(more, i)]
<1>1. PICK n \in Nat : n = Len(data)
  BY LenProperties
<1>2. /\ more \in Seq(Bytes) /\ DOMAIN data = 1 .. n /\ DOMAIN more = 1 .. n + 1
      /\ \A i \in 1 .. n : more[i] = data[i]
      /\ more[n + 1] = byte
  BY <1>1, OneMore
<1>3. Unstuffed(data) = FlattenSeq(p) /\ Unstuffed(more) = FlattenSeq(q)
  BY DEF Unstuffed, UnstuffedOf
<1>. HIDE DEF more
<1>4. \A i \in 1 .. n : data[i] \in Bytes
  BY <1>1, ElementOfSeq
<1>5. \A b \in Bytes : <<b>> \in Seq(Bytes)
  BY OneElement
<1>6. <<>> \in Seq(Bytes)
  BY EmptySeq
<1>7. p \in [1 .. n -> Seq(Bytes)]
  BY <1>2, <1>4, <1>5, <1>6 DEF UnstuffedOf
<1>8. \A i \in 1 .. n + 1 : more[i] \in Bytes
  BY <1>2, <1>4
<1>9. q \in [1 .. n + 1 -> Seq(Bytes)]
  BY <1>2, <1>8, <1>5, <1>6 DEF UnstuffedOf
<1>10. \A i \in 1 .. n : q[i] = p[i]
  <2>1. ASSUME NEW i \in 1 .. n
        PROVE  UnstuffedOf(more, i) = UnstuffedOf(data, i)
    <3>1. i - 1 \in Nat /\ (i > 2 => i - 1 \in 1 .. n /\ i - 2 \in 1 .. n)
      OBVIOUS
    <3>2. LineStart(more, i) <=> LineStart(data, i)
      BY <1>2, <3>1 DEF LineStart
    <3>. QED  BY <1>2, <3>2 DEF UnstuffedOf
  <2>. QED  BY <1>2, <2>1
<1>11. q[n + 1] = IF byte = "." /\ (Len(data) = 0 \/ EndsWithBreak(data))
                  THEN <<>> ELSE <<byte>>
  <2>1. PICK m \in 1 .. n + 1 :
          /\ m = n + 1 /\ m - 1 = n /\ m - 2 = n - 1 /\ (m = 1 <=> n = 0) /\ (m > 2 <=> n > 1)
          /\ n > 1 => n \in 1 .. n /\ n - 1 \in 1 .. n
    OBVIOUS
  <2>2. q[m] = UnstuffedOf(more, m)
    BY <1>2
  <2>3. more[m] = byte
    BY <1>2, <2>1
  <2>4. LineStart(more, m) <=> Len(data) = 0 \/ EndsWithBreak(data)
    BY <1>1, <1>2, <2>1 DEF LineStart, EndsWithBreak
  <2>. QED  BY <2>1, <2>2, <2>3, <2>4 DEF UnstuffedOf
<1>. HIDE DEF p, q
<1>12. FlattenSeq(q) = FlattenSeq(p) \o q[n + 1]
  BY <1>7, <1>9, <1>10, FlattenMore
<1>13. FlattenSeq(p) \in Seq(Bytes)
  BY <1>7, FlattenIsList
<1>. QED  BY <1>3, <1>11, <1>12, <1>13 DEF more

CanonicalOf(data, i) ==
  CASE data[i] = "LF" /\ i > 1 /\ data[i - 1] = "CR" -> <<>>
    [] data[i] = "LF" /\ ~(i > 1 /\ data[i - 1] = "CR") -> CRLF
    [] data[i] = "CR" -> CRLF
    [] OTHER -> <<data[i]>>

LEMMA CanonicalMore ==
  ASSUME NEW data \in Seq(Bytes), NEW byte \in Bytes
  PROVE  /\ Canonical(data) \in Seq(Bytes)
         /\ Canonical(data \o <<byte>>) =
              Canonical(data) \o
                CASE byte = "LF" /\ EndsWith(data, "CR") -> <<>>
                  [] byte = "LF" /\ ~EndsWith(data, "CR") -> CRLF
                  [] byte = "CR" -> CRLF
                  [] OTHER -> <<byte>>
<1>. DEFINE more == data \o <<byte>>
            p == [i \in DOMAIN data |-> CanonicalOf(data, i)]
            q == [i \in DOMAIN more |-> CanonicalOf(more, i)]
<1>1. PICK n \in Nat : n = Len(data)
  BY LenProperties
<1>2. /\ more \in Seq(Bytes) /\ DOMAIN data = 1 .. n /\ DOMAIN more = 1 .. n + 1
      /\ \A i \in 1 .. n : more[i] = data[i]
      /\ more[n + 1] = byte
  BY <1>1, OneMore
<1>3. Canonical(data) = FlattenSeq(p) /\ Canonical(more) = FlattenSeq(q)
  BY DEF Canonical, CanonicalOf
<1>. HIDE DEF more
<1>4. \A i \in 1 .. n : data[i] \in Bytes
  BY <1>1, ElementOfSeq
<1>5. \A b \in Bytes : <<b>> \in Seq(Bytes)
  BY OneElement
<1>6. <<>> \in Seq(Bytes) /\ CRLF \in Seq(Bytes)
  BY EmptySeq, BreakMore
<1>7. p \in [1 .. n -> Seq(Bytes)]
  BY <1>2, <1>4, <1>5, <1>6 DEF CanonicalOf
<1>8. \A i \in 1 .. n + 1 : more[i] \in Bytes
  BY <1>2, <1>4
<1>9. q \in [1 .. n + 1 -> Seq(Bytes)]
  BY <1>2, <1>8, <1>5, <1>6 DEF CanonicalOf
<1>10. \A i \in 1 .. n : q[i] = p[i]
  <2>1. ASSUME NEW i \in 1 .. n
        PROVE  CanonicalOf(more, i) = CanonicalOf(data, i)
    <3>1. i > 1 => i - 1 \in 1 .. n
      OBVIOUS
    <3>. QED  BY <1>2, <3>1 DEF CanonicalOf
  <2>. QED  BY <1>2, <2>1
<1>11. q[n + 1] = CASE byte = "LF" /\ EndsWith(data, "CR") -> <<>>
                    [] byte = "LF" /\ ~EndsWith(data, "CR") -> CRLF
                    [] byte = "CR" -> CRLF
                    [] OTHER -> <<byte>>
  <2>1. PICK m \in 1 .. n + 1 : m = n + 1 /\ m - 1 = n /\ (m > 1 <=> n # 0) /\ (n # 0 => n \in 1 .. n)
    OBVIOUS
  <2>2. q[m] = CanonicalOf(more, m)
    BY <1>2
  <2>3. more[m] = byte /\ (m > 1 => more[m - 1] = data[n])
    BY <1>2, <2>1
  <2>. QED  BY <1>1, <2>1, <2>2, <2>3 DEF CanonicalOf, EndsWith
<1>. HIDE DEF p, q
<1>12. FlattenSeq(q) = FlattenSeq(p) \o q[n + 1]
  BY <1>7, <1>9, <1>10, FlattenMore
<1>13. FlattenSeq(p) \in Seq(Bytes)
  BY <1>7, FlattenIsList
<1>. QED  BY <1>3, <1>11, <1>12, <1>13 DEF more

LEMMA OfNothing ==
  /\ <<>> \in Seq(Bytes) /\ Len(<<>>) = 0
  /\ Stuffed(<<>>) = <<>> /\ Unstuffed(<<>>) = <<>> /\ Canonical(<<>>) = <<>>
<1>1. /\ <<>> \in Seq(Bytes) /\ Len(<<>>) = 0 /\ DOMAIN <<>> = {}
  BY EmptySeq, LenProperties
<1>2. /\ [i \in DOMAIN <<>> |-> StuffedOf(<<>>, i)] = <<>>
      /\ [i \in DOMAIN <<>> |-> UnstuffedOf(<<>>, i)] = <<>>
      /\ [i \in DOMAIN <<>> |-> CanonicalOf(<<>>, i)] = <<>>
  BY <1>1
<1>3. Stuffed(<<>>) = FlattenSeq(<<>>)
  BY <1>2 DEF Stuffed, StuffedOf
<1>4. Unstuffed(<<>>) = FlattenSeq(<<>>)
  BY <1>2 DEF Unstuffed, UnstuffedOf
<1>5. Canonical(<<>>) = FlattenSeq(<<>>)
  BY <1>2 DEF Canonical, CanonicalOf
<1>. QED  BY <1>1, <1>3, <1>4, <1>5, FlattenNothing

-----------------------------------------------------------------------------
(***************************************************************************)
(* Data whose line ends are all CRLF, and whose lines do not begin with a  *)
(* single dot.                                                             *)
(***************************************************************************)
Clean(data) ==
  \A i \in 1 .. Len(data) :
    /\ data[i] = "CR" => i < Len(data) /\ data[i + 1] = "LF"
    /\ data[i] = "LF" => i > 1 /\ data[i - 1] = "CR"

Doubled(data) ==
  \A i \in 1 .. Len(data) : data[i] = "." /\ LineStart(data, i) => i < Len(data) /\ data[i + 1] = "."

LEMMA CleanEnd ==
  ASSUME NEW data \in Seq(Bytes), Clean(data)
  PROVE  EndsWith(data, "LF") <=> EndsWithBreak(data)
<1>1. PICK n \in Nat : n = Len(data)
  BY LenProperties
<1>2. n # 0 => n \in 1 .. n
  OBVIOUS
<1>. QED  BY <1>1, <1>2 DEF Clean, EndsWith, EndsWithBreak

LEMMA PairMore ==
  ASSUME NEW data \in Seq(Bytes), NEW a \in Bytes, NEW b \in Bytes
  PROVE  /\ data \o <<a, b>> = (data \o <<a>>) \o <<b>>
         /\ data \o <<a, b>> \in Seq(Bytes)
         /\ Len(data) \in Nat /\ Len(data \o <<a, b>>) = Len(data) + 2
         /\ \A i \in 1 .. Len(data) : (data \o <<a, b>>)[i] = data[i]
         /\ (data \o <<a, b>>)[Len(data) + 1] = a
         /\ (data \o <<a, b>>)[Len(data) + 2] = b
<1>1. <<a>> \in Seq(Bytes) /\ <<b>> \in Seq(Bytes)
  BY OneElement
<1>2. <<a, b>> = <<a>> \o <<b>>
  <2>. DEFINE ab == <<a, b>>
              u  == <<a>> \o <<b>>
  <2>1. ab \in Seq(Bytes) /\ Len(ab) = 2
    BY TwoElements
  <2>2. ab[1] = a /\ ab[2] = b
    OBVIOUS
  <2>3. u \in Seq(Bytes) /\ Len(u) = 2 /\ u[1] = a /\ u[2] = b
    <3>1. PICK one \in Nat : one = 1
      OBVIOUS
    <3>2. Len(<<a>>) = one /\ <<a>>[1] = a
      BY <3>1, OneElement
    <3>. HIDE DEF u
    <3>3. /\ u \in Seq(Bytes) /\ Len(u) = one + 1
          /\ \A i \in 1 .. one : u[i] = <<a>>[i]
          /\ u[one + 1] = b
      BY <1>1, <3>2, OneMore DEF u
    <3>4. one + 1 = 2 /\ 1 \in 1 .. one
      BY <3>1
    <3>. QED  BY <3>2, <3>3, <3>4
  <2>. HIDE DEF ab, u
  <2>4. \A i \in 1 .. 2 : ab[i] = u[i]
    <3>1. \A i \in 1 .. 2 : i = 1 \/ i = 2
      OBVIOUS
    <3>. QED  BY <2>2, <2>3, <3>1
  <2>5. ab = u
    BY <2>1, <2>3, <2>4, SeqEqual
  <2>. QED  BY <2>5 DEF ab, u
<1>3. data \o <<a, b>> = (data \o <<a>>) \o <<b>>
  BY <1>1, <1>2, ConcatAssociative
<1>. DEFINE one == data \o <<a>>
            two == one \o <<b>>
<1>4. PICK n \in Nat : n = Len(data)
  BY LenProperties
<1>5. /\ one \in Seq(Bytes) /\ Len(one) = n + 1
      /\ \A i \in 1 .. n : one[i] = data[i]
      /\ one[n + 1] = a
  BY <1>4, OneMore
<1>. HIDE DEF one
<1>6. PICK m \in Nat : m = n + 1
  OBVIOUS
<1>7. /\ two \in Seq(Bytes) /\ Len(two) = m + 1
      /\ \A i \in 1 .. m : two[i] = one[i]
      /\ two[m + 1] = b
  BY <1>5, <1>6, OneMore
<1>. HIDE DEF two
<1>8. /\ m + 1 = n + 2 /\ n + 1 \in 1 .. m /\ \A i \in 1 .. n : i \in 1 .. m
  BY <1>6
<1>9. /\ two \in Seq(Bytes) /\ Len(two) = n + 2
      /\ \A i \in 1 .. n : two[i] = data[i]
      /\ two[n + 1] = a /\ two[n + 2] = b
  BY <1>5, <1>7, <1>8
<1>. QED  BY <1>3, <1>4, <1>9 DEF one, two

(* A byte that is no part of a line end. *)
LEMMA CleanMore ==
  ASSUME NEW data \in Seq(Bytes), Clean(data), NEW byte \in {".", "x"}
  PROVE  Clean(data \o <<byte>>) /\ ~EndsWith(data \o <<byte>>, "LF")
<1>. DEFINE more == data \o <<byte>>
<1>1. PICK n \in Nat : n = Len(data)
  BY LenProperties
<1>2. byte \in Bytes
  BY DEF Bytes
<1>3. /\ more \in Seq(Bytes) /\ Len(more) = n + 1
      /\ \A i \in 1 .. n : more[i] = data[i]
      /\ more[n + 1] = byte
  BY <1>1, <1>2, OneMore
<1>. HIDE DEF more
<1>4. ASSUME NEW i \in 1 .. n + 1
      PROVE  /\ more[i] = "CR" => i < n + 1 /\ more[i + 1] = "LF"
             /\ more[i] = "LF" => i > 1 /\ more[i - 1] = "CR"
  <2>1. CASE i = n + 1
    BY <1>3, <2>1
  <2>2. CASE i \in 1 .. n
    <3>1. /\ data[i] = "CR" => i < n /\ data[i + 1] = "LF"
          /\ data[i] = "LF" => i > 1 /\ data[i - 1] = "CR"
      BY <1>1, <2>2 DEF Clean
    <3>2. (i < n => i + 1 \in 1 .. n) /\ (i > 1 => i - 1 \in 1 .. n)
      BY <2>2
    <3>. QED  BY <1>3, <2>2, <3>1, <3>2
  <2>. QED  BY <2>1, <2>2
<1>5. ~EndsWith(more, "LF")
  BY <1>3 DEF EndsWith
<1>. QED  BY <1>3, <1>4, <1>5 DEF Clean, more

(* A line end. *)
LEMMA CleanBreak ==
  ASSUME NEW data \in Seq(Bytes), Clean(data)
  PROVE  Clean(data \o CRLF) /\ EndsWith(data \o CRLF, "LF")
<1>. DEFINE more == data \o CRLF
<1>1. PICK n \in Nat : n = Len(data)
  BY LenProperties
<1>2. "CR" \in Bytes /\ "LF" \in Bytes
  BY DEF Bytes
<1>3. /\ more \in Seq(Bytes) /\ Len(more) = n + 2
      /\ \A i \in 1 .. n : more[i] = data[i]
      /\ more[n + 1] = "CR" /\ more[n + 2] = "LF"
  BY <1>1, <1>2, PairMore DEF CRLF
<1>. HIDE DEF more
<1>4. ASSUME NEW i \in 1 .. n + 2
      PROVE  /\ more[i] = "CR" => i < n + 2 /\ more[i + 1] = "LF"
             /\ more[i] = "LF" => i > 1 /\ more[i - 1] = "CR"
  <2>1. CASE i = n + 1
    BY <1>3, <2>1
  <2>2. CASE i = n + 2
    BY <1>3, <2>2
  <2>3. CASE i \in 1 .. n
    <3>1. /\ data[i] = "CR" => i < n /\ data[i + 1] = "LF"
          /\ data[i] = "LF" => i > 1 /\ data[i - 1] = "CR"
      BY <1>1, <2>3 DEF Clean
    <3>2. (i < n => i + 1 \in 1 .. n) /\ (i > 1 => i - 1 \in 1 .. n)
      BY <2>3
    <3>. QED  BY <1>3, <2>3, <3>1, <3>2
  <2>. QED  BY <2>1, <2>2, <2>3
<1>5. EndsWith(more, "LF")
  BY <1>3 DEF EndsWith
<1>. QED  BY <1>3, <1>4, <1>5 DEF Clean, more

LEMMA DoubledMore ==
  ASSUME NEW data \in Seq(Bytes), Doubled(data), NEW byte \in Bytes,
         byte = "." => ~(Len(data) = 0 \/ EndsWithBreak(data))
  PROVE  Doubled(data \o <<byte>>)
<1>. DEFINE more == data \o <<byte>>
<1>1. PICK n \in Nat : n = Len(data)
  BY LenProperties
<1>2. /\ more \in Seq(Bytes) /\ Len(more) = n + 1
      /\ \A i \in 1 .. n : more[i] = data[i]
      /\ more[n + 1] = byte
  BY <1>1, OneMore
<1>. HIDE DEF more
<1>3. ASSUME NEW i \in 1 .. n + 1, more[i] = ".", LineStart(more, i)
      PROVE  i < n + 1 /\ more[i + 1] = "."
  <2>1. CASE i = n + 1
    <3>1. /\ i - 1 = n /\ i - 2 = n - 1 /\ (i = 1 <=> n = 0) /\ (i > 2 <=> n > 1)
          /\ n > 1 => n \in 1 .. n /\ n - 1 \in 1 .. n
      BY <2>1
    <3>2. n = 0 \/ (n > 1 /\ data[n - 1] = "CR" /\ data[n] = "LF")
      BY <1>2, <1>3, <3>1 DEF LineStart
    <3>3. byte = "."
      BY <1>2, <1>3, <2>1
    <3>. QED  BY <1>1, <3>2, <3>3 DEF EndsWithBreak
  <2>2. CASE i \in 1 .. n
    <3>1. i > 2 => i - 1 \in 1 .. n /\ i - 2 \in 1 .. n
      BY <2>2
    <3>2. data[i] = "." /\ LineStart(data, i)
      BY <1>2, <1>3, <2>2, <3>1 DEF LineStart
    <3>3. i < n /\ data[i + 1] = "."
      BY <1>1, <2>2, <3>2 DEF Doubled
    <3>4. i + 1 \in 1 .. n
      BY <2>2, <3>3
    <3>. QED  BY <1>2, <3>3, <3>4
  <2>. QED  BY <2>1, <2>2
<1>. QED  BY <1>2, <1>3 DEF Doubled, more

LEMMA DoubledDots ==
  ASSUME NEW data \in Seq(Bytes), Doubled(data)
  PROVE  Doubled(data \o <<".", ".">>)
<1>. DEFINE more == data \o <<".", ".">>
<1>1. PICK n \in Nat : n = Len(data)
  BY LenProperties
<1>2. "." \in Bytes
  BY DEF Bytes
<1>3. /\ more \in Seq(Bytes) /\ Len(more) = n + 2
      /\ \A i \in 1 .. n : more[i] = data[i]
      /\ more[n + 1] = "." /\ more[n + 2] = "."
  BY <1>1, <1>2, PairMore
<1>. HIDE DEF more
<1>4. ASSUME NEW i \in 1 .. n + 2, more[i] = ".", LineStart(more, i)
      PROVE  i < n + 2 /\ more[i + 1] = "."
  <2>1. CASE i = n + 1
    <3>1. i + 1 = n + 2 /\ i < n + 2
      BY <2>1
    <3>. QED  BY <1>3, <3>1
  <2>2. CASE i = n + 2
    <3>1. i - 1 = n + 1 /\ i # 1
      BY <2>2
    <3>. QED  BY <1>3, <1>4, <3>1 DEF LineStart
  <2>3. CASE i \in 1 .. n
    <3>1. i > 2 => i - 1 \in 1 .. n /\ i - 2 \in 1 .. n
      BY <2>3
    <3>2. data[i] = "." /\ LineStart(data, i)
      BY <1>3, <1>4, <2>3, <3>1 DEF LineStart
    <3>3. i < n /\ data[i + 1] = "."
      BY <1>1, <2>3, <3>2 DEF Doubled
    <3>4. i + 1 \in 1 .. n
      BY <2>3, <3>3
    <3>. QED  BY <1>3, <3>3, <3>4
  <2>. QED  BY <2>1, <2>2, <2>3
<1>. QED  BY <1>3, <1>4 DEF Doubled, more

-----------------------------------------------------------------------------
(***************************************************************************)
(* What stuffing makes of clean data, a byte or a line end at a time.      *)
(***************************************************************************)
Image(data, stuffed) ==
  /\ data \in Seq(Bytes) /\ Clean(data)
  /\ stuffed = Stuffed(data) /\ stuffed \in Seq(Bytes) /\ Clean(stuffed) /\ Doubled(stuffed)
  /\ Unstuffed(stuffed) = data
  /\ Len(data) = 0 <=> Len(stuffed) = 0
  /\ EndsWith(data, "LF") <=> EndsWith(stuffed, "LF")

LEMMA ImageOfNothing == Image(<<>>, <<>>)
<1>1. <<>> \in Seq(Bytes) /\ Len(<<>>) = 0 /\ Stuffed(<<>>) = <<>> /\ Unstuffed(<<>>) = <<>>
  BY OfNothing
<1>2. Clean(<<>>) /\ Doubled(<<>>)
  BY <1>1 DEF Clean, Doubled
<1>. QED  BY <1>1, <1>2 DEF Image

LEMMA ImageMore ==
  ASSUME NEW data, NEW stuffed, Image(data, stuffed), NEW byte \in {".", "x"},
         byte = "." => ~(Len(data) = 0 \/ EndsWith(data, "LF"))
  PROVE  Image(data \o <<byte>>, stuffed \o <<byte>>)
<1>1. byte \in Bytes
  BY DEF Bytes
<1>2. /\ data \in Seq(Bytes) /\ Clean(data)
      /\ stuffed = Stuffed(data) /\ stuffed \in Seq(Bytes) /\ Clean(stuffed) /\ Doubled(stuffed)
      /\ Unstuffed(stuffed) = data
  BY DEF Image
<1>3. byte = "." => ~(Len(stuffed) = 0 \/ EndsWithBreak(stuffed))
  BY <1>2, CleanEnd DEF Image
<1>4. Stuffed(data \o <<byte>>) = stuffed \o <<byte>>
  BY <1>1, <1>2, StuffedMore
<1>5. Unstuffed(stuffed \o <<byte>>) = data \o <<byte>>
  BY <1>1, <1>2, <1>3, UnstuffedMore
<1>6. Doubled(stuffed \o <<byte>>)
  BY <1>1, <1>2, <1>3, DoubledMore
<1>7. /\ Clean(data \o <<byte>>) /\ ~EndsWith(data \o <<byte>>, "LF")
      /\ Clean(stuffed \o <<byte>>) /\ ~EndsWith(stuffed \o <<byte>>, "LF")
  BY <1>2, CleanMore
<1>8. /\ data \o <<byte>> \in Seq(Bytes) /\ Len(data \o <<byte>>) # 0
      /\ stuffed \o <<byte>> \in Seq(Bytes) /\ Len(stuffed \o <<byte>>) # 0
  BY <1>1, <1>2, OneMore
<1>. QED  BY <1>4, <1>5, <1>6, <1>7, <1>8 DEF Image

LEMMA ImageDot ==
  ASSUME NEW data, NEW stuffed, Image(data, stuffed), Len(data) = 0 \/ EndsWith(data, "LF")
  PROVE  Image(data \o <<".">>, stuffed \o <<".", ".">>)
<1>1. "." \in Bytes /\ "." \in {".", "x"}
  BY DEF Bytes
<1>2. /\ data \in Seq(Bytes) /\ Clean(data)
      /\ stuffed = Stuffed(data) /\ stuffed \in Seq(Bytes) /\ Clean(stuffed) /\ Doubled(stuffed)
      /\ Unstuffed(stuffed) = data
  BY DEF Image
<1>3. Len(stuffed) = 0 \/ EndsWithBreak(stuffed)
  BY <1>2, CleanEnd DEF Image
<1>. DEFINE one == stuffed \o <<".">>
<1>4. stuffed \o <<".", ".">> = one \o <<".">>
  BY <1>1, <1>2, PairMore
<1>5. Stuffed(data \o <<".">>) = one \o <<".">>
  BY <1>1, <1>2, <1>4, StuffedMore
<1>6. Unstuffed(one) = data \o <<>>
  BY <1>1, <1>2, <1>3, UnstuffedMore
<1>7. Unstuffed(one) = data
  BY <1>2, <1>6, ConcatEmptySeq
<1>8. /\ one \in Seq(Bytes) /\ Len(one) # 0 /\ Clean(one) /\ ~EndsWith(one, "LF")
  BY <1>1, <1>2, OneMore, CleanMore
<1>. HIDE DEF one
<1>9. ~(Len(one) = 0 \/ EndsWithBreak(one))
  BY <1>8, CleanEnd
<1>10. Unstuffed(one \o <<".">>) = data \o <<".">>
  BY <1>1, <1>7, <1>8, <1>9, UnstuffedMore
<1>11. /\ one \o <<".">> \in Seq(Bytes) /\ Len(one \o <<".">>) # 0
       /\ Clean(one \o <<".">>) /\ ~EndsWith(one \o <<".">>, "LF")
  BY <1>1, <1>8, OneMore, CleanMore
<1>12. /\ data \o <<".">> \in Seq(Bytes) /\ Len(data \o <<".">>) # 0
       /\ Clean(data \o <<".">>) /\ ~EndsWith(data \o <<".">>, "LF")
  BY <1>1, <1>2, OneMore, CleanMore
<1>13. Doubled(one \o <<".">>)
  BY <1>2, <1>4, DoubledDots
<1>. QED  BY <1>4, <1>5, <1>10, <1>11, <1>12, <1>13 DEF Image

LEMMA ImageBreak ==
  ASSUME NEW data, NEW stuffed, Image(data, stuffed)
  PROVE  Image(data \o CRLF, stuffed \o CRLF)
<1>1. "CR" \in Bytes /\ "LF" \in Bytes /\ "CR" # "." /\ "LF" # "."
  BY DEF Bytes
<1>2. /\ data \in Seq(Bytes) /\ Clean(data)
      /\ stuffed = Stuffed(data) /\ stuffed \in Seq(Bytes) /\ Clean(stuffed) /\ Doubled(stuffed)
      /\ Unstuffed(stuffed) = data
  BY DEF Image
<1>. DEFINE cr  == data \o <<"CR">>
            scr == stuffed \o <<"CR">>
<1>3. data \o CRLF = cr \o <<"LF">> /\ stuffed \o CRLF = scr \o <<"LF">>
  BY <1>2, BreakMore
<1>4. Stuffed(cr) = scr /\ Unstuffed(scr) = cr /\ Doubled(scr)
  BY <1>1, <1>2, StuffedMore, UnstuffedMore, DoubledMore
<1>5. cr \in Seq(Bytes) /\ scr \in Seq(Bytes)
  BY <1>1, <1>2, OneMore
<1>6. /\ Clean(data \o CRLF) /\ EndsWith(data \o CRLF, "LF")
      /\ Clean(stuffed \o CRLF) /\ EndsWith(stuffed \o CRLF, "LF")
  BY <1>2, CleanBreak
<1>. HIDE DEF cr, scr
<1>7. /\ Stuffed(cr \o <<"LF">>) = scr \o <<"LF">> /\ Unstuffed(scr \o <<"LF">>) = cr \o <<"LF">>
      /\ Doubled(scr \o <<"LF">>)
  BY <1>1, <1>4, <1>5, StuffedMore, UnstuffedMore, DoubledMore
<1>8. /\ cr \o <<"LF">> \in Seq(Bytes) /\ Len(cr \o <<"LF">>) # 0
      /\ scr \o <<"LF">> \in Seq(Bytes) /\ Len(scr \o <<"LF">>) # 0
  BY <1>1, <1>5, OneMore
<1>. QED  BY <1>3, <1>6, <1>7, <1>8 DEF Image

(* Canonical data is clean, and comes out of its stuffed form unchanged. *)
LEMMA CanonicalImage ==
  ASSUME NEW data \in Seq(Bytes)
  PROVE  Image(Canonical(data), Stuffed(Canonical(data)))
<1>. DEFINE Good == {d \in Seq(Bytes) : \E stuffed : Image(Canonical(d), stuffed)}
<1>1. <<>> \in Good
  BY OfNothing, ImageOfNothing
<1>2. ASSUME NEW d \in Seq(Bytes), NEW byte \in Bytes, d \in Good
      PROVE  d \o <<byte>> \in Good
  <2>. DEFINE c == Canonical(d)
  <2>1. PICK stuffed : Image(c, stuffed)
    BY <1>2
  <2>2. /\ c \in Seq(Bytes) /\ d \o <<byte>> \in Seq(Bytes)
        /\ Canonical(d \o <<byte>>) =
             c \o CASE byte = "LF" /\ EndsWith(d, "CR") -> <<>>
                    [] byte = "LF" /\ ~EndsWith(d, "CR") -> CRLF
                    [] byte = "CR" -> CRLF
                    [] OTHER -> <<byte>>
    BY CanonicalMore, OneMore
  <2>. HIDE DEF c
  <2>3. CASE byte = "LF" /\ EndsWith(d, "CR")
    <3>1. Canonical(d \o <<byte>>) = c \o <<>>
      BY <2>2, <2>3
    <3>2. Canonical(d \o <<byte>>) = c
      BY <2>2, <3>1, ConcatEmptySeq
    <3>. QED  BY <2>1, <2>2, <3>2
  <2>4. CASE byte = "CR" \/ (byte = "LF" /\ ~EndsWith(d, "CR"))
    <3>1. Canonical(d \o <<byte>>) = c \o CRLF
      BY <2>2, <2>4
    <3>2. Image(c \o CRLF, stuffed \o CRLF)
      BY <2>1, ImageBreak
    <3>. QED  BY <2>2, <3>1, <3>2
  <2>5. CASE byte \in {".", "x"}
    <3>1. Canonical(d \o <<byte>>) = c \o <<byte>>
      BY <2>2, <2>5
    <3>2. CASE byte = "." => ~(Len(c) = 0 \/ EndsWith(c, "LF"))
      <4>1. Image(c \o <<byte>>, stuffed \o <<byte>>)
        BY <2>1, <2>5, <3>2, ImageMore
      <4>. QED  BY <2>2, <3>1, <4>1
    <3>3. CASE byte = "." /\ (Len(c) = 0 \/ EndsWith(c, "LF"))
      <4>1. Image(c \o <<byte>>, stuffed \o <<".", ".">>)
        BY <2>1, <3>3, ImageDot
      <4>. QED  BY <2>2, <3>1, <4>1
    <3>. QED  BY <3>2, <3>3
  <2>6. byte = "LF" \/ byte = "CR" \/ byte \in {".", "x"}
    BY DEF Bytes
  <2>. QED  BY <2>3, <2>4, <2>5, <2>6
<1>. HIDE DEF Good
<1>3. Seq(Bytes) \subseteq Good
  BY <1>1, <1>2, AllLists
<1>. QED  BY <1>3 DEF Good, Image

-----------------------------------------------------------------------------
(***************************************************************************)
(* The loop of normalize_crlf makes what Canonical says.                   *)
(***************************************************************************)
IsLoop(loop, data, n) == loop = [left \in 0 .. n |-> Iterate(data, left, loop)]

LEMMA IterateSame ==
  ASSUME NEW data, NEW left \in Nat, NEW g, NEW h,
         \A k \in Nat : k < left => g[k] = h[k]
  PROVE  Iterate(data, left, g) = Iterate(data, left, h)
<1>1. left # 0 => left - 1 \in Nat /\ left - 1 < left
  OBVIOUS
<1>2. left > 1 => left - 2 \in Nat /\ left - 2 < left
  OBVIOUS
<1>3. left # 0 => g[left - 1] = h[left - 1]
  BY <1>1
<1>4. left > 1 => g[left - 2] = h[left - 2]
  BY <1>2
<1>. QED  BY <1>3, <1>4 DEF Iterate

LEMMA LoopAt ==
  ASSUME NEW loop, NEW data, NEW n \in Nat, IsLoop(loop, data, n), NEW left \in 0 .. n
  PROVE  loop[left] = Iterate(data, left, loop)
<1>. DEFINE h == [k \in 0 .. n |-> Iterate(data, k, loop)]
<1>1. loop = h
  BY DEF IsLoop
<1>2. h[left] = Iterate(data, left, loop)
  OBVIOUS
<1>. HIDE DEF h
<1>. QED  BY <1>1, <1>2

LEMMA LoopExists ==
  ASSUME NEW data, NEW n \in Nat
  PROVE  \E loop : IsLoop(loop, data, n)
<1>. DEFINE Done == {k \in Nat : \E loop : IsLoop(loop, data, k)}
<1>1. 0 \in Done
  <2>. DEFINE loop == [left \in 0 .. 0 |-> <<>>]
  <2>1. \A left \in 0 .. 0 : Iterate(data, left, loop) = <<>>
    BY DEF Iterate
  <2>2. IsLoop(loop, data, 0)
    BY <2>1 DEF IsLoop
  <2>. QED  BY <2>2
<1>2. ASSUME NEW k \in Nat, k \in Done
      PROVE  k + 1 \in Done
  <2>1. PICK g : IsLoop(g, data, k)
    BY <1>2
  <2>. DEFINE h == [left \in 0 .. k + 1 |-> Iterate(data, left, g)]
  <2>2. \A left \in 0 .. k : h[left] = g[left]
    BY <2>1, LoopAt
  <2>3. ASSUME NEW left \in 0 .. k + 1
        PROVE  Iterate(data, left, g) = Iterate(data, left, h)
    <3>1. \A i \in Nat : i < left => g[i] = h[i]
      BY <2>2
    <3>. HIDE DEF h
    <3>. QED  BY <3>1, IterateSame
  <2>4. IsLoop(h, data, k + 1)
    BY <2>3 DEF IsLoop
  <2>. QED  BY <2>4
<1>. HIDE DEF Done
<1>3. Nat \subseteq Done
  BY <1>1, <1>2, AllNaturals
<1>. QED  BY <1>3 DEF Done

LEMMA NormalizeIsLoop ==
  ASSUME NEW data, Len(data) \in Nat
  PROVE  \E loop : IsLoop(loop, data, Len(data)) /\ normalize_crlf(data) = loop[Len(data)]
<1>. DEFINE loop == CHOOSE g : IsLoop(g, data, Len(data))
<1>1. normalize_crlf(data) = loop[Len(data)]
  BY DEF normalize_crlf, IsLoop
<1>2. IsLoop(loop, data, Len(data))
  BY LoopExists
<1>. QED  BY <1>1, <1>2
LEMMA Associative ==
  \A s \in Seq(Bytes) : \A t \in Seq(Bytes) : \A u \in Seq(Bytes) : (s \o t) \o u = s \o (t \o u)
BY ConcatAssociative


(* With so many bytes left, and not inside a CRLF, the loop has made what    *)
(* Canonical makes of the bytes before.                                      *)
Between(data, left) ==
  LET k == Len(data) - left IN ~(k > 0 /\ left > 0 /\ data[k] = "CR" /\ data[k + 1] = "LF")

Normalized(data, left, loop) ==
  /\ loop[left] \in Seq(Bytes)
  /\ Between(data, left) =>
       Canonical(data) = Canonical(SubSeq(data, 1, Len(data) - left)) \o loop[left]

Reached(data, left, loop) ==
  Normalized(data, left, loop) /\ (left > 0 => Normalized(data, left - 1, loop))

LEMMA NormalizedMore ==
  ASSUME NEW data \in Seq(Bytes), NEW loop, NEW left \in Nat, left + 1 <= Len(data),
         IsLoop(loop, data, Len(data)), Reached(data, left, loop)
  PROVE  Normalized(data, left + 1, loop)
<1>. DEFINE before == SubSeq(data, 1, Len(data) - (left + 1))
            behind == SubSeq(data, 1, Len(data) - left)
<1>0. PICK n \in Nat : n = Len(data)
  BY LenProperties
<1>1. PICK k \in Nat : /\ k = Len(data) - (left + 1) /\ k + 1 = Len(data) - left
                       /\ k + 1 \in 1 .. Len(data) /\ k + 1 <= Len(data) /\ k <= Len(data)
  <2>1. left + 1 <= n
    BY <1>0
  <2>2. PICK k \in Nat : k = n - (left + 1)
    BY <2>1
  <2>3. /\ k + 1 = n - left /\ k + 1 \in 1 .. n /\ k + 1 <= n /\ k <= n
    BY <2>1, <2>2
  <2>. QED  BY <1>0, <2>2, <2>3
<1>. DEFINE index == k + 1
<1>. DEFINE byte == data[index]
<1>2. byte \in Bytes /\ before \in Seq(Bytes) /\ Len(before) = k
      /\ \A i \in 1 .. k : before[i] = data[i]
  BY <1>1, ElementOfSeq, PrefixProperties
<1>3. behind = before \o <<byte>>
  BY <1>1, PrefixMore
<1>. HIDE DEF before, behind
<1>. DEFINE c == Canonical(before)
<1>4. /\ c \in Seq(Bytes)
      /\ Canonical(behind) =
           c \o CASE byte = "LF" /\ EndsWith(before, "CR") -> <<>>
                  [] byte = "LF" /\ ~EndsWith(before, "CR") -> CRLF
                  [] byte = "CR" -> CRLF
                  [] OTHER -> <<byte>>
  BY <1>2, <1>3, CanonicalMore
<1>5. Between(data, left + 1) => ~(byte = "LF" /\ EndsWith(before, "CR"))
  <2>1. ASSUME byte = "LF", EndsWith(before, "CR")
        PROVE  ~Between(data, left + 1)
    <3>1. k # 0 /\ before[k] = "CR"
      BY <1>2, <2>1 DEF EndsWith
    <3>2. k \in 1 .. k /\ k > 0 /\ left + 1 > 0
      BY <3>1
    <3>3. data[k] = "CR" /\ data[k + 1] = "LF"
      BY <1>2, <2>1, <3>1, <3>2
    <3>. QED  BY <1>1, <3>2, <3>3 DEF Between
  <2>. QED  BY <2>1
<1>6. loop[left + 1] = Iterate(data, left + 1, loop)
  <2>1. Len(data) \in Nat /\ left + 1 \in 0 .. Len(data)
    BY LenProperties
  <2>. QED  BY <2>1, LoopAt
<1>7. PICK m \in Nat : m = left + 1 /\ m # 0 /\ m - 1 = left /\ Len(data) - m + 1 = index
                       /\ (m > 1 <=> left > 0) /\ m - 2 = left - 1
  <2>1. Len(data) \in Nat
    BY LenProperties
  <2>. QED  BY <1>1, <2>1
<1>. HIDE DEF byte
<1>8. /\ byte = "CR" /\ left > 0 /\ data[index + 1] = "LF" => loop[m] = CRLF \o loop[left - 1]
      /\ byte = "CR" /\ ~(left > 0 /\ data[index + 1] = "LF") => loop[m] = CRLF \o loop[left]
      /\ byte = "LF" => loop[m] = CRLF \o loop[left]
      /\ byte \in {".", "x"} => loop[m] = <<byte>> \o loop[left]
  BY <1>6, <1>7 DEF Iterate, byte
<1>9. /\ loop[left] \in Seq(Bytes)
      /\ Between(data, left) => Canonical(data) = Canonical(behind) \o loop[left]
  BY DEF Reached, Normalized, behind
<1>10. CRLF \in Seq(Bytes) /\ <<byte>> \in Seq(Bytes) /\ behind \in Seq(Bytes) /\ Len(behind) = index
  <2>1. CRLF \in Seq(Bytes)
    BY BreakMore
  <2>2. <<byte>> \in Seq(Bytes)
    BY <1>2, OneElement
  <2>. QED  BY <1>2, <1>3, <2>1, <2>2, OneMore
<1>11. Between(data, left) <=> ~(left > 0 /\ byte = "CR" /\ data[index + 1] = "LF")
  BY <1>1 DEF Between, byte
<1>. DEFINE Goal == /\ loop[m] \in Seq(Bytes)
                    /\ Between(data, m) => Canonical(data) = c \o loop[m]
<1>12. ASSUME byte = "CR" /\ left > 0 /\ data[index + 1] = "LF"
       PROVE  Goal
  <2>1. PICK l \in Nat : /\ l = left - 1 /\ index + 1 = Len(data) - l
                         /\ index + 1 <= Len(data) /\ index \in Nat
    BY <1>0, <1>1, <1>12
  <2>. DEFINE next == index + 1
  <2>2. /\ loop[l] \in Seq(Bytes)
        /\ Between(data, l) => Canonical(data) = Canonical(SubSeq(data, 1, next)) \o loop[l]
    BY <1>12, <2>1 DEF Reached, Normalized
  <2>3. Between(data, l)
    BY <1>12, <2>1 DEF Between
  <2>4. SubSeq(data, 1, next) = behind \o <<"LF">>
    BY <1>1, <1>12, <2>1, PrefixMore DEF behind
  <2>5. EndsWith(behind, "CR")
    <3>1. index # 0 /\ index \in 1 .. Len(behind)
      BY <1>1, <1>10
    <3>2. behind[index] = data[index]
      BY <1>1, <1>10, <3>1, PrefixProperties DEF behind
    <3>. QED  BY <1>10, <1>12, <3>1, <3>2 DEF EndsWith, byte
  <2>6. "LF" \in Bytes
    BY DEF Bytes
  <2>7. Canonical(behind) \in Seq(Bytes) /\ Canonical(SubSeq(data, 1, next)) = Canonical(behind) \o <<>>
    BY <1>10, <2>4, <2>5, <2>6, CanonicalMore
  <2>8. Canonical(SubSeq(data, 1, next)) = Canonical(behind)
    BY <2>7, ConcatEmptySeq
  <2>9. Canonical(behind) = c \o CRLF
    BY <1>4, <1>12
  <2>10. Canonical(data) = (c \o CRLF) \o loop[l]
    BY <2>2, <2>3, <2>8, <2>9
  <2>11. loop[m] = CRLF \o loop[l]
    BY <1>8, <1>12, <2>1
  <2>12. c \in Seq(Bytes) /\ CRLF \in Seq(Bytes) /\ loop[l] \in Seq(Bytes)
    BY <1>4, <1>10, <2>2, <2>3
  <2>. HIDE DEF c
  <2>13. (c \o CRLF) \o loop[l] = c \o (CRLF \o loop[l])
    BY <2>12, Associative
  <2>. QED  BY <2>10, <2>11, <2>12, <2>13, ConcatProperties
<1>. DEFINE piece == IF byte \in {"CR", "LF"} THEN CRLF ELSE <<byte>>
<1>13. ASSUME ~(byte = "CR" /\ left > 0 /\ data[index + 1] = "LF")
       PROVE  Goal
  <2>1. piece \in Seq(Bytes)
    BY <1>10
  <2>2. loop[m] = piece \o loop[left]
    BY <1>2, <1>8, <1>13 DEF Bytes
  <2>3. Canonical(data) = Canonical(behind) \o loop[left]
    BY <1>9, <1>11, <1>13
  <2>4. ASSUME Between(data, m)
        PROVE  Canonical(behind) = c \o piece
    <3>1. ~(byte = "LF" /\ EndsWith(before, "CR"))
      BY <1>5, <1>7, <2>4
    <3>. QED  BY <1>2, <1>4, <3>1 DEF Bytes
  <2>. HIDE DEF piece, c
  <2>5. c \in Seq(Bytes) /\ loop[left] \in Seq(Bytes)
    BY <1>4, <1>9
  <2>6. (c \o piece) \o loop[left] = c \o (piece \o loop[left])
    BY <2>1, <2>5, Associative
  <2>. QED  BY <2>1, <2>2, <2>3, <2>4, <2>5, <2>6, ConcatProperties
<1>14. Goal
  BY <1>12, <1>13
<1>15. before = SubSeq(data, 1, Len(data) - m)
  BY <1>7 DEF before
<1>. QED  BY <1>7, <1>14, <1>15 DEF Normalized

LEMMA NormalizeIsCanonical ==
  ASSUME NEW data \in Seq(Bytes)
  PROVE  normalize_crlf(data) = Canonical(data)
<1>1. PICK n \in Nat : n = Len(data)
  BY LenProperties
<1>2. PICK loop : IsLoop(loop, data, n) /\ normalize_crlf(data) = loop[n]
  BY <1>1, NormalizeIsLoop
<1>. DEFINE Done == {k \in Nat : k <= n => Reached(data, k, loop)}
<1>3. 0 \in Done
  <2>1. loop[0] = Iterate(data, 0, loop)
    BY <1>2, LoopAt
  <2>2. loop[0] = <<>>
    BY <2>1 DEF Iterate
  <2>3. SubSeq(data, 1, Len(data)) = data /\ Len(data) - 0 = Len(data)
    BY <1>1, SubSeqFull
  <2>4. Canonical(data) \o <<>> = Canonical(data)
    <3>1. Canonical(data) \in Seq(Bytes)
      BY CanonicalImage DEF Image
    <3>. QED  BY <3>1, ConcatEmptySeq
  <2>5. Normalized(data, 0, loop)
    BY <2>2, <2>3, <2>4, OfNothing DEF Normalized
  <2>. QED  BY <2>5 DEF Reached
<1>4. ASSUME NEW k \in Nat, k \in Done
      PROVE  k + 1 \in Done
  <2>1. SUFFICES ASSUME k + 1 <= n
                 PROVE  Reached(data, k + 1, loop)
    OBVIOUS
  <2>2. Reached(data, k, loop)
    BY <1>4, <2>1
  <2>3. Normalized(data, k + 1, loop)
    BY <1>1, <1>2, <2>1, <2>2, NormalizedMore
  <2>4. Normalized(data, k + 1 - 1, loop)
    <3>1. k + 1 - 1 = k
      OBVIOUS
    <3>. QED  BY <2>2, <3>1 DEF Reached
  <2>. QED  BY <2>3, <2>4 DEF Reached
<1>. HIDE DEF Done
<1>5. Nat \subseteq Done
  BY <1>3, <1>4, AllNaturals
<1>6. Normalized(data, n, loop)
  BY <1>5 DEF Done, Reached
<1>7. Between(data, n) /\ SubSeq(data, 1, Len(data) - n) = <<>>
  <2>1. Len(data) - n = 0
    BY <1>1
  <2>. QED  BY <2>1, SubSeqEmpty DEF Between
<1>8. loop[n] \in Seq(Bytes) /\ Canonical(data) = <<>> \o loop[n]
  BY <1>6, <1>7, OfNothing DEF Normalized
<1>. QED  BY <1>2, <1>8, ConcatEmptySeq

-----------------------------------------------------------------------------
(***************************************************************************)
(* What is written: stuffed data, a last line end, and the dot.            *)
(***************************************************************************)
(* Two lists put together. *)
LEMMA ConcatAt ==
  ASSUME NEW s \in Seq(Bytes), NEW t \in Seq(Bytes), NEW m \in Nat, NEW n \in Nat,
         m = Len(s), n = Len(t)
  PROVE  /\ s \o t \in Seq(Bytes) /\ Len(s \o t) = m + n
         /\ \A i \in 1 .. m : (s \o t)[i] = s[i]
         /\ \A i \in 1 .. n : (s \o t)[m + i] = t[i]
<1>1. s \o t \in Seq(Bytes) /\ Len(s \o t) = Len(s) + Len(t)
  BY ConcatProperties
<1>2. \A i \in 1 .. Len(s) + Len(t) : (s \o t)[i] = IF i <= Len(s) THEN s[i] ELSE t[i - Len(s)]
  BY ConcatProperties
<1>. DEFINE st == s \o t
<1>. HIDE DEF st
<1>3. /\ st \in Seq(Bytes) /\ Len(st) = m + n
      /\ \A i \in 1 .. m + n : st[i] = IF i <= m THEN s[i] ELSE t[i - m]
  BY <1>1, <1>2 DEF st
<1>4. \A i \in 1 .. m : st[i] = s[i]
  BY <1>3
<1>5. ASSUME NEW i \in 1 .. n
      PROVE  st[m + i] = t[i]
  <2>1. PICK j \in 1 .. m + n : j = m + i /\ j - m = i /\ ~(j <= m)
    OBVIOUS
  <2>. QED  BY <1>3, <2>1
<1>. QED  BY <1>3, <1>4, <1>5 DEF st

LEMMA FinalBytes ==
  /\ Final \in Seq(Bytes) /\ Len(Final) = 3
  /\ Final[1] = "." /\ Final[2] = "CR" /\ Final[3] = "LF"
<1>1. "." \in Bytes
  BY DEF Bytes
<1>2. <<".">> \in Seq(Bytes) /\ Len(<<".">>) = 1 /\ <<".">>[1] = "."
  BY <1>1, OneElement
<1>3. CRLF \in Seq(Bytes) /\ Len(CRLF) = 2 /\ CRLF[1] = "CR" /\ CRLF[2] = "LF"
  BY BreakMore
<1>. DEFINE dot == <<".">>
<1>. HIDE DEF dot
<1>4. PICK one \in Nat : one = 1
  OBVIOUS
<1>5. PICK two \in Nat : two = 2
  OBVIOUS
<1>6. /\ dot \o CRLF \in Seq(Bytes) /\ Len(dot \o CRLF) = one + two
      /\ \A i \in 1 .. one : (dot \o CRLF)[i] = dot[i]
      /\ \A i \in 1 .. two : (dot \o CRLF)[one + i] = CRLF[i]
  <2>1. dot \in Seq(Bytes) /\ CRLF \in Seq(Bytes) /\ one = Len(dot) /\ two = Len(CRLF)
    BY <1>2, <1>3, <1>4, <1>5 DEF dot
  <2>. QED  BY <2>1, ConcatAt
<1>7. Final = dot \o CRLF
  BY DEF Final, dot
<1>8. /\ 1 \in 1 .. one /\ 1 \in 1 .. two /\ 2 \in 1 .. two
      /\ one + 1 = 2 /\ one + 2 = 3 /\ one + two = 3
  BY <1>4, <1>5
<1>9. Final[1] = dot[1] /\ Final[one + 1] = CRLF[1] /\ Final[one + 2] = CRLF[2]
  BY <1>6, <1>7, <1>8
<1>. QED  BY <1>2, <1>3, <1>6, <1>7, <1>8, <1>9 DEF dot

LEMMA FinalHere ==
  ASSUME NEW data \in Seq(Bytes), NEW i \in 1 .. Len(data) - 2
  PROVE  SubSeq(data, i, i + 2) = Final <=>
           data[i] = "." /\ data[i + 1] = "CR" /\ data[i + 2] = "LF"
<1>1. PICK n \in Nat : n = Len(data)
  BY LenProperties
<1>2. PICK j \in Nat : j = i + 2 /\ j <= n /\ i <= j + 1 /\ j - i + 1 = 3 /\ i \in Nat \ {0}
  BY <1>1
<1>. DEFINE part == SubSeq(data, i, j)
<1>3. /\ part \in Seq(Bytes) /\ Len(part) = 3
      /\ \A k \in 1 .. 3 : part[k] = data[i + k - 1]
  BY <1>1, <1>2, PartOfList
<1>. HIDE DEF part
<1>4. part[1] = data[i] /\ part[2] = data[i + 1] /\ part[3] = data[i + 2]
  <2>1. /\ 1 \in 1 .. 3 /\ 2 \in 1 .. 3 /\ 3 \in 1 .. 3
        /\ i + 1 - 1 = i /\ i + 2 - 1 = i + 1 /\ i + 3 - 1 = i + 2
    OBVIOUS
  <2>2. part[1] = data[i + 1 - 1] /\ part[2] = data[i + 2 - 1] /\ part[3] = data[i + 3 - 1]
    BY <1>3, <2>1
  <2>. QED  BY <2>1, <2>2
<1>5. part = Final <=> part[1] = "." /\ part[2] = "CR" /\ part[3] = "LF"
  <2>1. ASSUME part[1] = "." /\ part[2] = "CR" /\ part[3] = "LF"
        PROVE  part = Final
    <3>1. \A k \in 1 .. 3 : part[k] = Final[k]
      <4>1. \A k \in 1 .. 3 : k = 1 \/ k = 2 \/ k = 3
        OBVIOUS
      <4>. QED  BY <2>1, <4>1, FinalBytes
    <3>. QED  BY <1>3, <3>1, FinalBytes, SeqEqual
  <2>. QED  BY <2>1, FinalBytes
<1>. QED  BY <1>2, <1>4, <1>5 DEF part

LEMMA FinalAtMembers ==
  ASSUME NEW data \in Seq(Bytes)
  PROVE  /\ FinalAt(data) \subseteq Nat
         /\ \A i \in Nat : i \in FinalAt(data) <=>
              /\ i \in 1 .. Len(data) - 2 /\ LineStart(data, i)
              /\ data[i] = "." /\ data[i + 1] = "CR" /\ data[i + 2] = "LF"
<1>1. Len(data) \in Nat
  BY LenProperties
<1>. QED  BY <1>1, FinalHere DEF FinalAt

(* Data that is clean, doubled and at the end of a line reads alike with     *)
(* the final dot behind it.                                                  *)
LEMMA WithFinal ==
  ASSUME NEW data \in Seq(Bytes), Clean(data), Doubled(data), EndsWith(data, "LF")
  PROVE  /\ data \o Final \in Seq(Bytes)
         /\ Correct(data \o Final)
         /\ DataEnd(data \o Final) = Len(data \o Final)
         /\ Text(data \o Final) = Unstuffed(data)
<1>. DEFINE all == data \o Final
<1>1. PICK n \in Nat : n = Len(data)
  BY LenProperties
<1>2. n > 1 /\ data[n - 1] = "CR" /\ data[n] = "LF"
  BY <1>1, CleanEnd DEF EndsWithBreak
<1>3. PICK three \in Nat : three = 3
  OBVIOUS
<1>4. /\ all \in Seq(Bytes) /\ Len(all) = n + three
      /\ \A i \in 1 .. n : all[i] = data[i]
      /\ \A i \in 1 .. three : all[n + i] = Final[i]
  <2>1. three = Len(Final) /\ Final \in Seq(Bytes)
    BY <1>3, FinalBytes
  <2>. QED  BY <1>1, <2>1, ConcatAt
<1>. HIDE DEF all
<1>5. /\ all[n + 1] = "." /\ all[n + 2] = "CR" /\ all[n + 3] = "LF"
      /\ Len(all) = n + 3
  <2>1. 1 \in 1 .. three /\ 2 \in 1 .. three /\ 3 \in 1 .. three
    BY <1>3
  <2>. QED  BY <1>3, <1>4, <2>1, FinalBytes
<1>6. n + 1 \in FinalAt(all)
  <2>1. PICK m \in Nat : /\ m = n + 1 /\ m + 1 = n + 2 /\ m + 2 = n + 3 /\ m > 2
                         /\ m - 1 = n /\ m - 2 = n - 1 /\ m \in 1 .. n + 3 - 2
                         /\ n \in 1 .. n /\ n - 1 \in 1 .. n
    BY <1>2
  <2>2. all[m - 2] = "CR" /\ all[m - 1] = "LF"
    BY <1>2, <1>4, <2>1
  <2>3. LineStart(all, m)
    BY <2>1, <2>2 DEF LineStart
  <2>. QED  BY <1>4, <1>5, <2>1, <2>3, FinalAtMembers
<1>7. ASSUME NEW i \in 1 .. n, all[i] = ".", LineStart(all, i)
      PROVE  i < n /\ all[i + 1] = "."
  <2>1. i > 2 => i - 1 \in 1 .. n /\ i - 2 \in 1 .. n
    OBVIOUS
  <2>2. LineStart(data, i)
    BY <1>4, <1>7, <2>1 DEF LineStart
  <2>3. i < n /\ data[i + 1] = "."
    BY <1>1, <1>4, <1>7, <2>2 DEF Doubled
  <2>4. i + 1 \in 1 .. n
    BY <2>3
  <2>. QED  BY <1>4, <2>3, <2>4
<1>8. \A i \in FinalAt(all) : n + 1 <= i
  <2>1. SUFFICES ASSUME NEW i \in Nat, i \in FinalAt(all), ~(n + 1 <= i)
                 PROVE  FALSE
    BY <1>4, FinalAtMembers
  <2>2. i \in 1 .. n + 3 - 2 /\ LineStart(all, i) /\ all[i] = "." /\ all[i + 1] = "CR"
    BY <1>4, <1>5, <2>1, FinalAtMembers
  <2>3. i \in 1 .. n
    BY <2>1, <2>2
  <2>. QED  BY <1>7, <2>2, <2>3
<1>9. Min(FinalAt(all)) = n + 1
  <2>1. FinalAt(all) \subseteq Nat /\ FinalAt(all) # {}
    BY <1>4, <1>6, FinalAtMembers
  <2>2. Min(FinalAt(all)) \in FinalAt(all) /\ Min(FinalAt(all)) <= n + 1
    BY <1>6, <2>1, MinIsLeast
  <2>3. Min(FinalAt(all)) \in Nat /\ n + 1 <= Min(FinalAt(all))
    BY <1>8, <2>1, <2>2
  <2>. QED  BY <2>2, <2>3
<1>10. DataEnd(all) = n + 3 /\ Min(FinalAt(all)) - 1 = n
  BY <1>9 DEF DataEnd
<1>11. Text(all) = Unstuffed(data)
  <2>1. SubSeq(all, 1, n) = data
    <3>1. n <= Len(all)
      BY <1>5
    <3>2. /\ SubSeq(all, 1, n) \in Seq(Bytes) /\ Len(SubSeq(all, 1, n)) = n
          /\ \A i \in 1 .. n : SubSeq(all, 1, n)[i] = all[i]
      BY <1>4, <3>1, PrefixProperties
    <3>. QED  BY <1>1, <1>4, <3>2, SeqEqual
  <2>. QED  BY <1>10, <2>1 DEF Text
<1>12. ASSUME NEW i \in 1 .. n + 3
       PROVE  /\ all[i] = "CR" => all[i + 1] = "LF"
              /\ all[i] = "LF" => i > 1 /\ all[i - 1] = "CR"
              /\ all[i] = "." /\ LineStart(all, i) => i = n + 1 \/ all[i + 1] = "."
  <2>1. CASE i = n + 1
    BY <1>5, <2>1
  <2>2. CASE i = n + 2
    BY <1>5, <2>2
  <2>3. CASE i = n + 3
    <3>1. i > 1 /\ i - 1 = n + 2
      BY <2>3
    <3>. QED  BY <1>5, <2>3, <3>1
  <2>4. CASE i \in 1 .. n
    <3>1. /\ data[i] = "CR" => i < n /\ data[i + 1] = "LF"
          /\ data[i] = "LF" => i > 1 /\ data[i - 1] = "CR"
      BY <1>1, <2>4 DEF Clean
    <3>2. /\ i < n => i + 1 \in 1 .. n
          /\ i > 1 => i - 1 \in 1 .. n
      BY <2>4
    <3>. QED  BY <1>4, <1>7, <2>4, <3>1, <3>2
  <2>. QED  BY <2>1, <2>2, <2>3, <2>4
<1>13. Correct(all)
  <2>1. Ended(all)
    BY <1>6 DEF Ended
  <2>2. DataEnd(all) - 2 = n + 1
    BY <1>10
  <2>. QED  BY <1>10, <1>12, <2>1, <2>2 DEF Correct
<1>. QED  BY <1>4, <1>5, <1>10, <1>11, <1>13 DEF all

LEMMA WithBreak ==
  ASSUME NEW data, NEW stuffed, Image(data, stuffed)
  PROVE  /\ Image(WithFinalBreak(data), WithFinalBreak(stuffed))
         /\ EndsWith(WithFinalBreak(stuffed), "LF")
<1>1. /\ data \in Seq(Bytes) /\ Clean(data)
      /\ stuffed \in Seq(Bytes) /\ Clean(stuffed)
      /\ EndsWith(data, "LF") <=> EndsWith(stuffed, "LF")
  BY DEF Image
<1>2. ASSUME NEW d \in Seq(Bytes), Clean(d)
      PROVE  IsSuffix(CRLF, d) <=> EndsWith(d, "LF")
  <2>1. "CR" \in Bytes /\ "LF" \in Bytes
    BY DEF Bytes
  <2>2. IsSuffix(CRLF, d) <=> 2 <= Len(d) /\ d[Len(d) - 1] = "CR" /\ d[Len(d)] = "LF"
    BY <2>1, EndsWithTwo DEF CRLF
  <2>3. Len(d) \in Nat
    BY LenProperties
  <2>4. IsSuffix(CRLF, d) <=> EndsWithBreak(d)
    BY <2>2, <2>3 DEF EndsWithBreak
  <2>. QED  BY <1>2, <2>4, CleanEnd
<1>3. IsSuffix(CRLF, data) <=> EndsWith(data, "LF")
  BY <1>1, <1>2
<1>4. IsSuffix(CRLF, stuffed) <=> EndsWith(stuffed, "LF")
  BY <1>1, <1>2
<1>5. CASE EndsWith(data, "LF")
  BY <1>1, <1>3, <1>4, <1>5 DEF WithFinalBreak
<1>6. CASE ~EndsWith(data, "LF")
  <2>1. /\ WithFinalBreak(data) = data \o CRLF
        /\ WithFinalBreak(stuffed) = stuffed \o CRLF
    BY <1>1, <1>3, <1>4, <1>6 DEF WithFinalBreak
  <2>. QED  BY <1>1, <2>1, ImageBreak, CleanBreak
<1>. QED  BY <1>5, <1>6

(* What reaches the remote server of any message. *)
LEMMA Written ==
  ASSUME NEW data \in Seq(Bytes)
  PROVE  /\ dot_stuff(data) \o Final \in Seq(Bytes)
         /\ Correct(dot_stuff(data) \o Final)
         /\ DataEnd(dot_stuff(data) \o Final) = Len(dot_stuff(data) \o Final)
         /\ Text(dot_stuff(data) \o Final) = WithFinalBreak(Canonical(data))
<1>. DEFINE c == Canonical(data)
            w == WithFinalBreak(Stuffed(c))
<1>1. dot_stuff(data) = w
  BY NormalizeIsCanonical DEF dot_stuff
<1>2. Image(WithFinalBreak(c), w) /\ EndsWith(w, "LF")
  BY CanonicalImage, WithBreak
<1>3. w \in Seq(Bytes) /\ Clean(w) /\ Doubled(w) /\ Unstuffed(w) = WithFinalBreak(c)
  BY <1>2 DEF Image
<1>. HIDE DEF w
<1>. QED  BY <1>1, <1>2, <1>3, WithFinal

-----------------------------------------------------------------------------
(***************************************************************************)
(* The line that is read, and what is kept of it.                          *)
(***************************************************************************)
NoBreak(byte) == byte \notin {"CR", "LF"}

Kept(line) == {i \in 1 .. Len(line) : NoBreak(line[i])}

(* The bytes up to the last one that is neither CR nor LF. *)
LEMMA TrimmedIs ==
  ASSUME NEW line \in Seq(Bytes), NEW k \in Nat, k <= Len(line),
         k # 0 => NoBreak(line[k]),
         \A i \in k + 1 .. Len(line) : ~NoBreak(line[i])
  PROVE  Trimmed(line) = SubSeq(line, 1, k)
<1>1. PICK n \in Nat : n = Len(line)
  BY LenProperties
<1>2. Trimmed(line) = SubSeq(line, 1, IF Kept(line) # {} THEN Max(Kept(line)) ELSE 0)
  BY DEF Trimmed, SelectLastInSeq, Kept, NoBreak
<1>3. \A i \in Kept(line) : i \in Nat /\ i <= k
  <2>1. SUFFICES ASSUME NEW i \in 1 .. n, NoBreak(line[i]), ~(i <= k)
                 PROVE  FALSE
    BY <1>1 DEF Kept
  <2>2. i \in k + 1 .. n
    BY <2>1
  <2>. QED  BY <1>1, <2>1, <2>2
<1>4. CASE k = 0
  <2>1. Kept(line) = {}
    BY <1>1, <1>3, <1>4 DEF Kept
  <2>. QED  BY <1>2, <1>4, <2>1
<1>5. CASE k # 0
  <2>1. k \in Kept(line)
    BY <1>1, <1>5 DEF Kept
  <2>2. Kept(line) \subseteq Nat
    BY <1>3
  <2>3. Max(Kept(line)) \in Kept(line) /\ \A i \in Kept(line) : i <= Max(Kept(line))
    BY <1>3, <2>1, <2>2, MaxIsGreatest
  <2>4. PICK m \in Nat : m = Max(Kept(line)) /\ m <= k /\ k <= m
    BY <1>3, <2>1, <2>3
  <2>5. m = k
    BY <2>4
  <2>. QED  BY <1>2, <2>1, <2>4, <2>5
<1>. QED  BY <1>4, <1>5

LEMMA TrimmedIsList ==
  ASSUME NEW line \in Seq(Bytes)
  PROVE  Trimmed(line) \in Seq(Bytes)
<1>1. PICK n \in Nat : n = Len(line)
  BY LenProperties
<1>2. Trimmed(line) = SubSeq(line, 1, IF Kept(line) # {} THEN Max(Kept(line)) ELSE 0)
  BY DEF Trimmed, SelectLastInSeq, Kept, NoBreak
<1>3. Kept(line) \subseteq Nat /\ \A i \in Kept(line) : i <= n
  BY <1>1 DEF Kept
<1>4. Kept(line) # {} => Max(Kept(line)) \in Kept(line)
  BY <1>3, MaxIsGreatest
<1>5. PICK k \in Nat : k <= Len(line) /\ Trimmed(line) = SubSeq(line, 1, k)
  <2>1. CASE Kept(line) = {}
    BY <1>1, <1>2, <2>1
  <2>2. CASE Kept(line) # {}
    BY <1>1, <1>2, <1>3, <1>4, <2>2
  <2>. QED  BY <2>1, <2>2
<1>. QED  BY <1>5, PrefixProperties

LineEnds == {i \in taken + 1 .. Len(sent) : sent[i] = "LF"}

(* The next line ends at the first LF, or with the stream. *)
LEMMA NextLineIs ==
  ASSUME sent \in Seq(Bytes), taken \in 0 .. Len(sent)
  PROVE  \E end \in Nat :
           /\ taken <= end /\ end <= Len(sent)
           /\ NextLine = SubSeq(sent, taken + 1, end)
           /\ NextLine \in Seq(Bytes) /\ Len(NextLine) = end - taken
           /\ \A i \in taken + 1 .. end - 1 : sent[i] # "LF"
           /\ (end = Len(sent) \/ (sent[end] = "LF" /\ taken < end))
<1>1. PICK n \in Nat : n = Len(sent)
  BY LenProperties
<1>2. taken \in Nat /\ taken <= n
  BY <1>1
<1>3. NextLine = SubSeq(sent, taken + 1, IF LineEnds # {} /\ Min(LineEnds) # 0 THEN Min(LineEnds) ELSE Len(sent))
  BY DEF NextLine, SelectInSubSeq, LineEnds
<1>4. LineEnds \subseteq Nat /\ \A i \in LineEnds : i > taken /\ i <= n /\ sent[i] = "LF"
  BY <1>1, <1>2 DEF LineEnds
<1>5. PICK end \in Nat : /\ taken <= end /\ end <= n
                         /\ NextLine = SubSeq(sent, taken + 1, end)
                         /\ \A i \in taken + 1 .. end - 1 : sent[i] # "LF"
                         /\ (end = n \/ (sent[end] = "LF" /\ taken < end))
  <2>1. CASE LineEnds = {}
    <3>1. \A i \in taken + 1 .. n - 1 : sent[i] # "LF"
      BY <1>1, <1>2, <2>1 DEF LineEnds
    <3>. QED  BY <1>1, <1>2, <1>3, <2>1, <3>1
  <2>2. CASE LineEnds # {}
    <3>1. Min(LineEnds) \in LineEnds /\ \A i \in LineEnds : Min(LineEnds) <= i
      BY <1>4, <2>2, MinIsLeast
    <3>2. PICK end \in Nat : end = Min(LineEnds)
      BY <1>4, <3>1
    <3>3. end > taken /\ end <= n /\ sent[end] = "LF" /\ end # 0
      BY <1>2, <1>4, <3>1, <3>2
    <3>4. \A i \in taken + 1 .. end - 1 : sent[i] # "LF"
      <4>1. SUFFICES ASSUME NEW i \in taken + 1 .. end - 1, sent[i] = "LF"
                     PROVE  FALSE
        OBVIOUS
      <4>2. i \in taken + 1 .. n /\ ~(end <= i)
        BY <1>2, <3>3
      <4>3. i \in LineEnds
        BY <1>1, <4>1, <4>2 DEF LineEnds
      <4>. QED  BY <3>1, <3>2, <4>2, <4>3
    <3>. QED  BY <1>2, <1>3, <2>2, <3>2, <3>3, <3>4
  <2>. QED  BY <2>1, <2>2
<1>6. PICK from \in Nat \ {0} : from = taken + 1 /\ from <= end + 1 /\ end - from + 1 = end - taken
  BY <1>2, <1>5
<1>7. SubSeq(sent, from, end) \in Seq(Bytes) /\ Len(SubSeq(sent, from, end)) = end - from + 1
  BY <1>1, <1>5, <1>6, PartOfList
<1>8. NextLine \in Seq(Bytes)
  BY <1>5, <1>6, <1>7
<1>9. Len(NextLine) = end - taken
  BY <1>5, <1>6, <1>7
<1>10. end <= Len(sent) /\ (end = Len(sent) \/ (sent[end] = "LF" /\ taken < end))
  BY <1>1, <1>5
<1>. QED  BY <1>5, <1>8, <1>9, <1>10

(* What is stored of a line: without the dot in front of a dot. *)
Dotted(line) == Len(line) > 1 /\ line[1] = "." /\ line[2] = "."

LEMMA TailOfList ==
  ASSUME NEW line \in Seq(Bytes), Len(line) # 0
  PROVE  Tail(line) \in Seq(Bytes) /\ Len(Tail(line)) = Len(line) - 1 /\ Len(line) \in Nat
<1>1. line # <<>>
  BY EmptySeq
<1>. QED  BY <1>1, HeadAndTail

LEMMA TailMore ==
  ASSUME NEW s \in Seq(Bytes), NEW byte \in Bytes, Len(s) # 0
  PROVE  Tail(s \o <<byte>>) = Tail(s) \o <<byte>>
<1>. DEFINE longer == s \o <<byte>>
            u == Tail(longer)
            v == Tail(s) \o <<byte>>
<1>1. PICK n \in Nat : n = Len(s)
  BY LenProperties
<1>2. PICK m \in Nat : m = n - 1 /\ m + 1 = n
  BY <1>1
<1>3. /\ longer \in Seq(Bytes) /\ Len(longer) = n + 1
      /\ \A i \in 1 .. n : longer[i] = s[i]
      /\ longer[n + 1] = byte
  BY <1>1, OneMore
<1>4. s # <<>> /\ longer # <<>>
  BY <1>1, <1>3, EmptySeq
<1>5. /\ Tail(s) \in Seq(Bytes) /\ Len(Tail(s)) = m
      /\ \A i \in DOMAIN Tail(s) : Tail(s)[i] = s[i + 1]
  BY <1>1, <1>2, <1>4, HeadAndTail
<1>6. DOMAIN Tail(s) = 1 .. m
  BY <1>5, LenProperties
<1>. HIDE DEF longer
<1>7. /\ u \in Seq(Bytes) /\ Len(u) = n
      /\ \A i \in DOMAIN u : u[i] = longer[i + 1]
  BY <1>1, <1>3, <1>4, HeadAndTail
<1>8. DOMAIN u = 1 .. n
  BY <1>7, LenProperties
<1>9. /\ v \in Seq(Bytes) /\ Len(v) = m + 1
      /\ \A i \in 1 .. m : v[i] = Tail(s)[i]
      /\ v[m + 1] = byte
  BY <1>5, OneMore
<1>. HIDE DEF u, v
<1>10. ASSUME NEW i \in 1 .. n
       PROVE  u[i] = v[i]
  <2>1. u[i] = longer[i + 1]
    BY <1>7, <1>8
  <2>2. CASE i = n
    BY <1>2, <1>3, <1>9, <2>1, <2>2
  <2>3. CASE i # n
    <3>1. i \in 1 .. m /\ i + 1 \in 1 .. n
      BY <1>2, <2>3
    <3>. QED  BY <1>3, <1>5, <1>6, <1>9, <2>1, <3>1
  <2>. QED  BY <2>2, <2>3
<1>11. u = v
  BY <1>2, <1>7, <1>9, <1>10, SeqEqual
<1>. QED  BY <1>11 DEF u, v, longer

LEMMA BodyLineIs ==
  ASSUME NEW line \in Seq(Bytes)
  PROVE  /\ BodyLine(line) = (IF Dotted(line) THEN Tail(line) ELSE line) \o CRLF
         /\ BodyLine(line) \in Seq(Bytes)
         /\ Len(line) \in Nat /\ Len(BodyLine(line)) \in Nat
         /\ Len(BodyLine(line)) >= Len(line) + 1
<1>. DEFINE two == <<".", ".">>
<1>1. two \in Seq(Bytes) /\ Len(two) = 2 /\ two[1] = "." /\ two[2] = "."
  <2>1. "." \in Bytes
    BY DEF Bytes
  <2>. QED  BY <2>1, TwoElements
<1>2. PICK n \in Nat : n = Len(line)
  BY LenProperties
<1>3. SubSeq(two, 1, 2) = two
  BY <1>1, SubSeqFull
<1>4. IsPrefix(two, line) <=> 2 <= n /\ two = SubSeq(line, 1, 2)
  <2>. HIDE DEF two
  <2>. QED  BY <1>1, <1>2, <1>3 DEF IsPrefix
<1>5. 2 <= n => (two = SubSeq(line, 1, 2) <=> line[1] = "." /\ line[2] = ".")
  <2>1. SUFFICES ASSUME 2 <= n
                 PROVE  two = SubSeq(line, 1, 2) <=> line[1] = "." /\ line[2] = "."
    OBVIOUS
  <2>2. PICK k \in Nat : k = 2 /\ k <= Len(line)
    BY <1>2, <2>1
  <2>. DEFINE part == SubSeq(line, 1, k)
  <2>3. part \in Seq(Bytes) /\ Len(part) = k /\ \A i \in 1 .. k : part[i] = line[i]
    BY <2>2, PrefixProperties
  <2>. HIDE DEF part, two
  <2>4. 1 \in 1 .. k /\ 2 \in 1 .. k /\ \A i \in 1 .. k : i = 1 \/ i = 2
    BY <2>2
  <2>5. part[1] = line[1] /\ part[2] = line[2]
    BY <2>3, <2>4
  <2>6. ASSUME line[1] = "." /\ line[2] = "."
        PROVE  two = part
    <3>1. \A i \in 1 .. k : two[i] = part[i]
      BY <1>1, <2>4, <2>5, <2>6
    <3>. QED  BY <1>1, <2>2, <2>3, <3>1, SeqEqual
  <2>7. two = part <=> line[1] = "." /\ line[2] = "."
    BY <1>1, <2>5, <2>6
  <2>. QED  BY <2>2, <2>7 DEF part
<1>6. IsPrefix(two, line) <=> Dotted(line)
  BY <1>2, <1>4, <1>5 DEF Dotted
<1>7. BodyLine(line) = (IF Dotted(line) THEN Tail(line) ELSE line) \o CRLF
  BY <1>6 DEF BodyLine
<1>8. PICK kept \in Seq(Bytes) : /\ BodyLine(line) = kept \o CRLF
                                 /\ Len(kept) \in Nat /\ Len(kept) >= n - 1
  <2>1. CASE Dotted(line)
    <3>1. Len(line) # 0
      BY <1>2, <2>1 DEF Dotted
    <3>2. Tail(line) \in Seq(Bytes) /\ Len(Tail(line)) = n - 1
      BY <1>2, <3>1, TailOfList
    <3>3. Len(Tail(line)) \in Nat
      BY <3>2, LenProperties
    <3>4. BodyLine(line) = Tail(line) \o CRLF
      BY <1>7, <2>1
    <3>5. Len(Tail(line)) >= n - 1
      BY <3>2, <3>3
    <3>. QED  BY <3>2, <3>3, <3>4, <3>5
  <2>2. CASE ~Dotted(line)
    BY <1>2, <1>7, <2>2
  <2>. QED  BY <2>1, <2>2
<1>9. PICK k \in Nat : k = Len(kept)
  BY <1>8
<1>10. PICK t \in Nat : t = 2
  OBVIOUS
<1>11. kept \o CRLF \in Seq(Bytes) /\ Len(kept \o CRLF) = k + t
  <2>1. CRLF \in Seq(Bytes) /\ t = Len(CRLF)
    BY <1>10, BreakMore
  <2>. QED  BY <1>9, <2>1, ConcatAt
<1>12. BodyLine(line) \in Seq(Bytes) /\ Len(BodyLine(line)) = k + t /\ k >= n - 1
  BY <1>8, <1>9, <1>11
<1>. QED  BY <1>2, <1>7, <1>10, <1>12

(* What is read of a line is no less than what is read before it. *)
LEMMA UnstuffedLonger ==
  ASSUME NEW data \in Seq(Bytes), NEW more \in Seq(Bytes)
  PROVE  /\ Len(Unstuffed(data)) \in Nat /\ Len(Unstuffed(data \o more)) \in Nat
         /\ Len(Unstuffed(data)) <= Len(Unstuffed(data \o more))
<1>1. PICK n \in Nat : n = Len(Unstuffed(data))
  BY UnstuffedMore, LenProperties
<1>. DEFINE Good == {s \in Seq(Bytes) : n <= Len(Unstuffed(data \o s))}
<1>2. <<>> \in Good
  BY <1>1, OfNothing, ConcatEmptySeq
<1>3. ASSUME NEW s \in Seq(Bytes), NEW byte \in Bytes, s \in Good
      PROVE  s \o <<byte>> \in Good
  <2>. DEFINE all == data \o s
              u   == Unstuffed(all)
  <2>1. s \o <<byte>> \in Seq(Bytes) /\ <<byte>> \in Seq(Bytes) /\ all \in Seq(Bytes)
    BY OneMore, OneElement, ConcatProperties
  <2>2. data \o (s \o <<byte>>) = all \o <<byte>>
    BY <2>1, Associative
  <2>. HIDE DEF all
  <2>3. /\ u \in Seq(Bytes)
        /\ Unstuffed(all \o <<byte>>) =
             u \o (IF byte = "." /\ (Len(all) = 0 \/ EndsWithBreak(all)) THEN <<>> ELSE <<byte>>)
    BY <2>1, UnstuffedMore
  <2>. HIDE DEF u
  <2>4. PICK m \in Nat : m = Len(u)
    BY <2>3, LenProperties
  <2>5. n <= m
    BY <1>3, <2>4 DEF all, u
  <2>6. Unstuffed(all \o <<byte>>) = u \o <<>> \/ Unstuffed(all \o <<byte>>) = u \o <<byte>>
    BY <2>3
  <2>7. u \o <<>> = u /\ Len(u \o <<byte>>) = m + 1
    BY <2>3, <2>4, ConcatEmptySeq, OneMore
  <2>8. n <= Len(Unstuffed(all \o <<byte>>))
    BY <2>4, <2>5, <2>6, <2>7
  <2>. QED  BY <2>1, <2>2, <2>8
<1>. HIDE DEF Good
<1>4. more \in Good
  BY <1>2, <1>3, AllLists
<1>5. data \o more \in Seq(Bytes)
  BY ConcatProperties
<1>. QED  BY <1>1, <1>4, <1>5, UnstuffedMore, LenProperties DEF Good

(* Of a line behind a line end its first dot is left out. *)
WithoutDot(line) == IF Len(line) # 0 /\ line[1] = "." THEN Tail(line) ELSE line

LEMMA UnstuffedLine ==
  ASSUME NEW data \in Seq(Bytes), Len(data) = 0 \/ EndsWithBreak(data),
         NEW line \in Seq(Bytes), \A i \in 1 .. Len(line) : line[i] # "LF"
  PROVE  Unstuffed(data \o line) = Unstuffed(data) \o WithoutDot(line)
<1>. DEFINE Plain(s) == \A i \in 1 .. Len(s) : s[i] # "LF"
            before == Unstuffed(data)
            Good == {s \in Seq(Bytes) : Plain(s) => Unstuffed(data \o s) = before \o WithoutDot(s)}
<1>1. <<>> \in Good
  <2>1. WithoutDot(<<>>) = <<>>
    BY OfNothing DEF WithoutDot
  <2>2. data \o <<>> = data /\ Unstuffed(data) \o <<>> = Unstuffed(data)
    BY UnstuffedMore, ConcatEmptySeq
  <2>. QED  BY <2>1, <2>2, OfNothing
<1>2. before \in Seq(Bytes)
  BY UnstuffedMore, OfNothing DEF Bytes
<1>3. ASSUME NEW s \in Seq(Bytes), NEW byte \in Bytes, s \in Good, Plain(s \o <<byte>>)
      PROVE  Unstuffed(data \o (s \o <<byte>>)) = before \o WithoutDot(s \o <<byte>>)
  <2>1. PICK n \in Nat : n = Len(s)
    BY LenProperties
  <2>. DEFINE longer == s \o <<byte>>
              all == data \o s
  <2>2. /\ longer \in Seq(Bytes) /\ Len(longer) = n + 1
        /\ \A i \in 1 .. n : longer[i] = s[i]
        /\ longer[n + 1] = byte
    BY <2>1, OneMore
  <2>3. <<byte>> \in Seq(Bytes) /\ all \in Seq(Bytes)
    BY OneElement, ConcatProperties
  <2>4. data \o longer = all \o <<byte>>
    BY <2>3, Associative
  <2>5. \A i \in 1 .. n : s[i] # "LF"
    <3>1. \A i \in 1 .. n + 1 : longer[i] # "LF"
      BY <1>3, <2>2
    <3>. QED  BY <2>2, <3>1
  <2>6. Unstuffed(all) = before \o WithoutDot(s)
    BY <1>3, <2>1, <2>5
  <2>7. Unstuffed(all \o <<byte>>) =
          Unstuffed(all) \o (IF byte = "." /\ (Len(all) = 0 \/ EndsWithBreak(all)) THEN <<>> ELSE <<byte>>)
    BY <2>3, UnstuffedMore
  <2>8. CASE n = 0
    <3>1. s = <<>>
      BY <2>1, <2>8, EmptySeq
    <3>2. all = data /\ longer = <<byte>>
      BY <2>3, <3>1, ConcatEmptySeq
    <3>3. Unstuffed(all \o <<byte>>) = before \o (IF byte = "." THEN <<>> ELSE <<byte>>)
      BY <2>7, <3>2
    <3>4. WithoutDot(longer) = IF byte = "." THEN <<>> ELSE <<byte>>
      <4>1. Len(<<byte>>) = 1 /\ <<byte>>[1] = byte
        BY OneElement
      <4>2. Tail(<<byte>>) = <<>>
        <5>1. Tail(<<byte>>) \in Seq(Bytes) /\ Len(Tail(<<byte>>)) = 0
          BY <2>3, <4>1, TailOfList
        <5>. QED  BY <5>1, EmptySeq
      <4>. HIDE DEF longer
      <4>. QED  BY <3>2, <4>1, <4>2 DEF WithoutDot
    <3>. QED  BY <2>4, <3>3, <3>4
  <2>9. CASE n # 0
    <3>1. PICK d \in Nat : d = Len(data)
      BY LenProperties
    <3>2. /\ Len(all) = d + n
          /\ \A i \in 1 .. n : all[d + i] = s[i]
      BY <2>1, <3>1, ConcatAt
    <3>3. Len(all) # 0 /\ ~EndsWithBreak(all)
      BY <2>5, <2>9, <3>1, <3>2 DEF EndsWithBreak
    <3>4. Unstuffed(all \o <<byte>>) = (before \o WithoutDot(s)) \o <<byte>>
      BY <2>6, <2>7, <3>3
    <3>5. WithoutDot(s) \in Seq(Bytes)
      BY <2>1, <2>9, TailOfList DEF WithoutDot
    <3>6. Unstuffed(all \o <<byte>>) = before \o (WithoutDot(s) \o <<byte>>)
      BY <1>2, <2>3, <3>4, <3>5, Associative
    <3>7. WithoutDot(longer) = WithoutDot(s) \o <<byte>>
      <4>1. Tail(longer) = Tail(s) \o <<byte>>
        BY <2>1, <2>9, TailMore
      <4>2. 1 \in 1 .. n /\ n + 1 # 0
        BY <2>9
      <4>3. longer[1] = s[1]
        BY <2>2, <4>2
      <4>. HIDE DEF longer
      <4>. QED  BY <2>1, <2>2, <2>9, <4>1, <4>2, <4>3 DEF WithoutDot, longer
    <3>. QED  BY <2>4, <3>6, <3>7
  <2>. QED  BY <2>8, <2>9
<1>4. \A s \in Seq(Bytes) : \A byte \in Bytes : s \in Good => s \o <<byte>> \in Good
  BY <1>3, OneMore
<1>. HIDE DEF Good
<1>5. line \in Good
  BY <1>1, <1>4, AllLists
<1>. QED  BY <1>5 DEF Good

-----------------------------------------------------------------------------
(***************************************************************************)
(* The lines of correct data.                                              *)
(***************************************************************************)
AtLine(data, k) == k = 0 \/ (k > 1 /\ data[k - 1] = "CR" /\ data[k] = "LF")

Proper(data, f) ==
  \A i \in 1 .. f + 2 :
    /\ data[i] = "CR" => data[i + 1] = "LF"
    /\ data[i] = "LF" => i > 1 /\ data[i - 1] = "CR"
    /\ data[i] = "." /\ LineStart(data, i) => i = f \/ data[i + 1] = "."

LEMMA CorrectIs ==
  ASSUME NEW data \in Seq(Bytes), Correct(data)
  PROVE  \E f \in Nat :
           /\ f = Min(FinalAt(data)) /\ DataEnd(data) = f + 2
           /\ f > 0 /\ f + 2 <= Len(data) /\ LineStart(data, f)
           /\ data[f] = "." /\ data[f + 1] = "CR" /\ data[f + 2] = "LF"
           /\ Proper(data, f)
<1>1. FinalAt(data) \subseteq Nat /\ FinalAt(data) # {}
  BY FinalAtMembers DEF Correct, Ended
<1>2. PICK f \in Nat : f = Min(FinalAt(data)) /\ f \in FinalAt(data)
  BY <1>1, MinIsLeast
<1>3. PICK n \in Nat : n = Len(data)
  BY LenProperties
<1>4. /\ f \in 1 .. n - 2 /\ LineStart(data, f)
      /\ data[f] = "." /\ data[f + 1] = "CR" /\ data[f + 2] = "LF"
  BY <1>2, <1>3, FinalAtMembers
<1>5. f > 0 /\ f + 2 <= Len(data)
  BY <1>3, <1>4
<1>6. DataEnd(data) = f + 2 /\ DataEnd(data) - 2 = f
  BY <1>2 DEF DataEnd
<1>7. Proper(data, f)
  BY <1>6 DEF Correct, Proper
<1>. QED  BY <1>2, <1>4, <1>5, <1>6, <1>7

(* A line of correct data, from k + 1 to end: it ends with the only CRLF in  *)
(* it, and it is the final dot or lies before it.                            *)
LineOf(data, f, n, k, end) ==
  /\ f > 0 /\ f + 2 <= n /\ LineStart(data, f) /\ Proper(data, f)
  /\ data[f] = "." /\ data[f + 1] = "CR" /\ data[f + 2] = "LF"
  /\ k < f /\ AtLine(data, k) /\ k <= end /\ end <= n
  /\ \A i \in k + 1 .. end - 1 : data[i] # "LF"
  /\ (end = n \/ (data[end] = "LF" /\ k < end))

LEMMA LineOfCorrect ==
  ASSUME NEW data, NEW f \in Nat, NEW n \in Nat, NEW k \in Nat, NEW end \in Nat,
         LineOf(data, f, n, k, end)
  PROVE  /\ k + 2 <= end /\ data[end - 1] = "CR" /\ data[end] = "LF"
         /\ \A i \in k + 1 .. end - 2 : NoBreak(data[i])
         /\ \/ end = f + 2 /\ k + 1 = f
            \/ end < f /\ (data[k + 1] = "." => data[k + 2] = ".")
<1>. USE DEF LineOf
<1>1. end <= f + 2
  <2>1. SUFFICES ASSUME f + 2 < end
                 PROVE  FALSE
    OBVIOUS
  <2>2. f + 2 \in k + 1 .. end - 1
    BY <2>1
  <2>. QED  BY <2>2
<1>2. data[end] = "LF" /\ k < end
  <2>1. end = n => end = f + 2
    BY <1>1
  <2>. QED  BY <2>1
<1>3. end > 1 /\ data[end - 1] = "CR"
  BY <1>1, <1>2 DEF Proper
<1>4. k + 2 <= end
  <2>1. k = end - 1 => k > 1
    BY <1>3 DEF AtLine
  <2>2. k # end - 1
    BY <1>3, <2>1 DEF AtLine
  <2>. QED  BY <1>2, <2>2
<1>5. ASSUME NEW i \in k + 1 .. end - 2
      PROVE  NoBreak(data[i])
  <2>1. /\ i \in 1 .. f + 2 /\ i \in k + 1 .. end - 1 /\ i + 1 \in k + 1 .. end - 1
    BY <1>1
  <2>2. data[i] # "LF" /\ data[i + 1] # "LF"
    BY <2>1
  <2>3. data[i] # "CR"
    BY <2>1, <2>2 DEF Proper
  <2>. QED  BY <2>2, <2>3 DEF NoBreak
<1>6. end # f /\ end # f + 1
  BY <1>2
<1>7. ASSUME end = f + 2
      PROVE  k + 1 = f
  <2>1. SUFFICES ASSUME k + 1 < f
                 PROVE  FALSE
    OBVIOUS
  <2>2. f - 1 \in k + 1 .. end - 2
    BY <1>7, <2>1
  <2>3. NoBreak(data[f - 1])
    BY <1>5, <2>2
  <2>4. f # 1 /\ data[f - 1] = "LF"
    BY <2>1 DEF LineStart
  <2>. QED  BY <2>3, <2>4 DEF NoBreak
<1>8. ASSUME end < f, data[k + 1] = "."
      PROVE  data[k + 2] = "."
  <2>1. PICK j \in 1 .. f + 2 : /\ j = k + 1 /\ j # f /\ j - 1 = k /\ j - 2 = k - 1 /\ j + 1 = k + 2
                                /\ (j = 1 <=> k = 0) /\ (j > 2 <=> k > 1)
    BY <1>4, <1>8
  <2>2. LineStart(data, j)
    BY <2>1 DEF AtLine, LineStart
  <2>3. data[j + 1] = "."
    BY <1>8, <2>1, <2>2 DEF Proper
  <2>. QED  BY <2>1, <2>3
<1>9. end = f + 2 \/ end < f
  BY <1>1, <1>6
<1>. QED  BY <1>2, <1>3, <1>4, <1>5, <1>7, <1>8, <1>9

LEMMA UnstuffedBreak ==
  ASSUME NEW data \in Seq(Bytes)
  PROVE  Unstuffed(data \o CRLF) = Unstuffed(data) \o CRLF
<1>1. "CR" \in Bytes /\ "LF" \in Bytes /\ "CR" # "." /\ "LF" # "."
  BY DEF Bytes
<1>. DEFINE cr == data \o <<"CR">>
<1>2. cr \in Seq(Bytes) /\ data \o CRLF = cr \o <<"LF">>
  BY <1>1, OneMore, BreakMore
<1>3. Unstuffed(cr) = Unstuffed(data) \o <<"CR">> /\ Unstuffed(data) \in Seq(Bytes)
  BY <1>1, UnstuffedMore
<1>. HIDE DEF cr
<1>4. Unstuffed(cr \o <<"LF">>) = Unstuffed(cr) \o <<"LF">>
  BY <1>1, <1>2, UnstuffedMore
<1>. QED  BY <1>2, <1>3, <1>4, BreakMore

(* The text a line with its CRLF adds to the lines before it. *)
LineHere(data, k, t, body) ==
  /\ k + t + 2 <= Len(data) /\ AtLine(data, k)
  /\ data[k + t + 1] = "CR" /\ data[k + t + 2] = "LF"
  /\ \A i \in k + 1 .. k + t : NoBreak(data[i])
  /\ Len(body) = t /\ \A i \in 1 .. t : body[i] = data[k + i]
  /\ data[k + 1] = "." => data[k + 2] = "."

LEMMA LineAdds ==
  ASSUME NEW data \in Seq(Bytes), NEW k \in Nat, NEW t \in Nat, NEW body \in Seq(Bytes),
         LineHere(data, k, t, body)
  PROVE  Unstuffed(SubSeq(data, 1, k + t + 2)) = Unstuffed(SubSeq(data, 1, k)) \o BodyLine(body)
<1>. DEFINE before == SubSeq(data, 1, k)
            behind == SubSeq(data, 1, k + t + 2)
            line == before \o body
            all == line \o CRLF
<1>1. PICK n \in Nat : n = Len(data) /\ k + t + 2 <= n /\ k <= n
  BY LenProperties DEF LineHere
<1>2. PICK end \in Nat : end = k + t + 2
  OBVIOUS
<1>3. /\ before \in Seq(Bytes) /\ Len(before) = k
      /\ \A i \in 1 .. k : before[i] = data[i]
  BY <1>1, PrefixProperties
<1>4. /\ SubSeq(data, 1, end) \in Seq(Bytes) /\ Len(SubSeq(data, 1, end)) = end
      /\ \A i \in 1 .. end : SubSeq(data, 1, end)[i] = data[i]
  BY <1>1, <1>2, PrefixProperties
<1>5. /\ behind \in Seq(Bytes) /\ Len(behind) = end
      /\ \A i \in 1 .. end : behind[i] = data[i]
  BY <1>2, <1>4
<1>. HIDE DEF before, behind
<1>6. /\ line \in Seq(Bytes) /\ Len(line) = k + t
      /\ \A i \in 1 .. k : line[i] = before[i]
      /\ \A i \in 1 .. t : line[k + i] = body[i]
  <2>1. k = Len(before) /\ t = Len(body) /\ before \in Seq(Bytes)
    BY <1>3 DEF LineHere
  <2>. QED  BY <2>1, ConcatAt
<1>. HIDE DEF line
<1>7. PICK m \in Nat : m = k + t
  OBVIOUS
<1>8. PICK two \in Nat : two = 2
  OBVIOUS
<1>9. /\ all \in Seq(Bytes) /\ Len(all) = m + two
      /\ \A i \in 1 .. m : all[i] = line[i]
      /\ \A i \in 1 .. two : all[m + i] = CRLF[i]
  <2>1. m = Len(line) /\ two = Len(CRLF) /\ line \in Seq(Bytes) /\ CRLF \in Seq(Bytes)
    BY <1>6, <1>7, <1>8, BreakMore
  <2>. QED  BY <2>1, ConcatAt
<1>. HIDE DEF all
<1>10. ASSUME NEW i \in 1 .. end
       PROVE  all[i] = data[i]
  <2>1. CASE i \in 1 .. k
    <3>1. i \in 1 .. m
      BY <1>7, <2>1
    <3>. QED  BY <1>3, <1>6, <1>9, <2>1, <3>1
  <2>2. CASE i \in k + 1 .. k + t
    <3>1. PICK j \in 1 .. t : i = k + j
      <4>1. i - k \in 1 .. t /\ i = k + (i - k)
        BY <2>2
      <4>. QED  BY <4>1
    <3>2. i \in 1 .. m
      BY <1>7, <2>2
    <3>. QED  BY <1>6, <1>9, <3>1, <3>2 DEF LineHere
  <2>3. CASE i = k + t + 1
    <3>1. 1 \in 1 .. two /\ i = m + 1
      BY <1>7, <1>8, <2>3
    <3>2. all[m + 1] = CRLF[1]
      BY <1>9, <3>1
    <3>. QED  BY <2>3, <3>1, <3>2, BreakMore DEF LineHere
  <2>4. CASE i = k + t + 2
    <3>1. 2 \in 1 .. two /\ i = m + 2
      BY <1>7, <1>8, <2>4
    <3>2. all[m + 2] = CRLF[2]
      BY <1>9, <3>1
    <3>. QED  BY <2>4, <3>1, <3>2, BreakMore DEF LineHere
  <2>. QED  BY <1>2, <2>1, <2>2, <2>3, <2>4
<1>11. Len(all) = end
  BY <1>2, <1>7, <1>8, <1>9
<1>12. behind = all
  <2>1. Len(behind) = Len(all) /\ \A i \in 1 .. Len(behind) : behind[i] = all[i]
    BY <1>5, <1>10, <1>11
  <2>. QED  BY <1>5, <1>9, <2>1, SeqEqual
<1>13. Len(before) = 0 \/ EndsWithBreak(before)
  <2>1. k > 1 => k \in 1 .. k /\ k - 1 \in 1 .. k
    OBVIOUS
  <2>. QED  BY <1>3, <2>1 DEF LineHere, AtLine, EndsWithBreak
<1>14. Len(body) = t /\ \A i \in 1 .. t : body[i] # "LF"
  <2>1. \A i \in 1 .. t : k + i \in k + 1 .. k + t
    OBVIOUS
  <2>. QED  BY <2>1 DEF LineHere, NoBreak
<1>15. Unstuffed(line) = Unstuffed(before) \o WithoutDot(body)
  BY <1>3, <1>13, <1>14, UnstuffedLine DEF line
<1>16. BodyLine(body) = WithoutDot(body) \o CRLF
  <2>1. WithoutDot(body) = IF Dotted(body) THEN Tail(body) ELSE body
    <3>1. ASSUME t # 0, body[1] = "."
          PROVE  t > 1 /\ body[2] = "."
      <4>1. 1 \in 1 .. t
        BY <3>1
      <4>2. data[k + 2] = "."
        BY <3>1, <4>1 DEF LineHere
      <4>3. t # 1
        BY <4>2 DEF LineHere
      <4>4. t > 1 /\ 2 \in 1 .. t
        BY <3>1, <4>3
      <4>. QED  BY <4>2, <4>4 DEF LineHere
    <3>. QED  BY <1>14, <3>1 DEF WithoutDot, Dotted
  <2>. QED  BY <2>1, BodyLineIs
<1>17. Unstuffed(all) = Unstuffed(line) \o CRLF
  BY <1>6, UnstuffedBreak DEF all
<1>18. WithoutDot(body) \in Seq(Bytes)
  BY TailOfList DEF WithoutDot
<1>19. Unstuffed(before) \in Seq(Bytes) /\ CRLF \in Seq(Bytes)
  BY <1>3, UnstuffedMore, BreakMore DEF Bytes
<1>20. Unstuffed(all) = Unstuffed(before) \o BodyLine(body)
  <2>1. Unstuffed(all) = (Unstuffed(before) \o WithoutDot(body)) \o CRLF
    BY <1>15, <1>17
  <2>2. (Unstuffed(before) \o WithoutDot(body)) \o CRLF = Unstuffed(before) \o (WithoutDot(body) \o CRLF)
    BY <1>18, <1>19, Associative
  <2>. QED  BY <1>16, <2>1, <2>2
<1>. QED  BY <1>12, <1>20 DEF before, behind

-----------------------------------------------------------------------------
(***************************************************************************)
(* Stored lines are clean, and Canonical leaves clean data as it is.       *)
(***************************************************************************)
Unbroken(line) == \A i \in 1 .. Len(line) : NoBreak(line[i])

LEMMA CleanLine ==
  ASSUME NEW data \in Seq(Bytes), Clean(data), NEW line \in Seq(Bytes), Unbroken(line)
  PROVE  Clean(data \o line)
<1>. DEFINE Good == {s \in Seq(Bytes) : Unbroken(s) => Clean(data \o s)}
<1>1. <<>> \in Good
  BY OfNothing, ConcatEmptySeq
<1>2. ASSUME NEW s \in Seq(Bytes), NEW byte \in Bytes, s \in Good, Unbroken(s \o <<byte>>)
      PROVE  Clean(data \o (s \o <<byte>>))
  <2>1. PICK n \in Nat : n = Len(s)
    BY LenProperties
  <2>. DEFINE longer == s \o <<byte>>
  <2>2. /\ longer \in Seq(Bytes) /\ Len(longer) = n + 1
        /\ \A i \in 1 .. n : longer[i] = s[i]
        /\ longer[n + 1] = byte
    BY <2>1, OneMore
  <2>. HIDE DEF longer
  <2>3. \A i \in 1 .. n + 1 : NoBreak(longer[i])
    BY <1>2, <2>2 DEF Unbroken, longer
  <2>4. byte \in {".", "x"}
    <3>1. NoBreak(byte)
      BY <2>2, <2>3
    <3>. QED  BY <3>1 DEF NoBreak, Bytes
  <2>5. Unbroken(s)
    BY <2>1, <2>2, <2>3 DEF Unbroken
  <2>6. Clean(data \o s) /\ data \o s \in Seq(Bytes)
    BY <1>2, <2>5, ConcatProperties
  <2>7. <<byte>> \in Seq(Bytes)
    BY OneElement
  <2>8. data \o (s \o <<byte>>) = (data \o s) \o <<byte>>
    BY <2>7, Associative
  <2>. QED  BY <2>4, <2>6, <2>8, CleanMore
<1>3. \A s \in Seq(Bytes) : \A byte \in Bytes : s \in Good => s \o <<byte>> \in Good
  BY <1>2, OneMore
<1>. HIDE DEF Good
<1>4. line \in Good
  BY <1>1, <1>3, AllLists
<1>. QED  BY <1>4 DEF Good

LEMMA CleanBody ==
  ASSUME NEW data \in Seq(Bytes), Clean(data), NEW line \in Seq(Bytes), Unbroken(line)
  PROVE  Clean(data \o BodyLine(line)) /\ EndsWith(data \o BodyLine(line), "LF")
<1>1. PICK kept \in Seq(Bytes) : BodyLine(line) = kept \o CRLF /\ Unbroken(kept)
  <2>1. CASE Dotted(line)
    <3>1. PICK n \in Nat : n = Len(line) /\ n > 1
      BY <2>1, LenProperties DEF Dotted
    <3>2. line # <<>>
      BY <3>1, EmptySeq
    <3>3. /\ Tail(line) \in Seq(Bytes) /\ Len(Tail(line)) = n - 1
          /\ \A i \in DOMAIN Tail(line) : i + 1 \in DOMAIN line /\ Tail(line)[i] = line[i + 1]
      BY <3>1, <3>2, HeadAndTail
    <3>4. DOMAIN line = 1 .. Len(line) /\ DOMAIN Tail(line) = 1 .. Len(Tail(line))
      BY <3>3, LenProperties
    <3>5. Unbroken(Tail(line))
      BY <3>3, <3>4 DEF Unbroken
    <3>. QED  BY <2>1, <3>3, <3>5, BodyLineIs
  <2>2. CASE ~Dotted(line)
    BY <2>2, BodyLineIs
  <2>. QED  BY <2>1, <2>2
<1>2. CRLF \in Seq(Bytes) /\ data \o kept \in Seq(Bytes)
  BY <1>1, BreakMore, ConcatProperties
<1>3. data \o BodyLine(line) = (data \o kept) \o CRLF
  <2>1. (data \o kept) \o CRLF = data \o (kept \o CRLF)
    BY <1>2, Associative
  <2>. QED  BY <1>1, <2>1
<1>4. Clean(data \o kept)
  BY <1>1, CleanLine
<1>. QED  BY <1>2, <1>3, <1>4, CleanBreak

(* Clean, but for a CR at the end. *)
Tidy(data) ==
  \A i \in 1 .. Len(data) :
    /\ data[i] = "CR" /\ i < Len(data) => data[i + 1] = "LF"
    /\ data[i] = "LF" => i > 1 /\ data[i - 1] = "CR"

LEMMA CanonicalOfTidy ==
  ASSUME NEW data \in Seq(Bytes), Tidy(data)
  PROVE  Canonical(data) = IF EndsWith(data, "CR") THEN data \o <<"LF">> ELSE data
<1>. DEFINE Same(d) == Canonical(d) = IF EndsWith(d, "CR") THEN d \o <<"LF">> ELSE d
            Good == {d \in Seq(Bytes) : Tidy(d) => Same(d)}
<1>1. <<>> \in Good
  BY OfNothing DEF EndsWith
<1>2. ASSUME NEW d \in Seq(Bytes), NEW byte \in Bytes, d \in Good, Tidy(d \o <<byte>>)
      PROVE  Same(d \o <<byte>>)
  <2>1. PICK n \in Nat : n = Len(d)
    BY LenProperties
  <2>. DEFINE more == d \o <<byte>>
  <2>2. /\ more \in Seq(Bytes) /\ Len(more) = n + 1
        /\ \A i \in 1 .. n : more[i] = d[i]
        /\ more[n + 1] = byte
    BY <2>1, OneMore
  <2>3. /\ d \in Seq(Bytes)
        /\ Canonical(more) =
             Canonical(d) \o CASE byte = "LF" /\ EndsWith(d, "CR") -> <<>>
                               [] byte = "LF" /\ ~EndsWith(d, "CR") -> CRLF
                               [] byte = "CR" -> CRLF
                               [] OTHER -> <<byte>>
    BY CanonicalMore
  <2>4. d \o CRLF = (d \o <<"CR">>) \o <<"LF">>
    BY BreakMore
  <2>. HIDE DEF more
  <2>5. \A i \in 1 .. n + 1 : /\ more[i] = "CR" /\ i < n + 1 => more[i + 1] = "LF"
                              /\ more[i] = "LF" => i > 1 /\ more[i - 1] = "CR"
    BY <1>2, <2>2 DEF Tidy, more
  <2>6. Tidy(d)
    <3>1. ASSUME NEW i \in 1 .. n
          PROVE  /\ d[i] = "CR" /\ i < n => d[i + 1] = "LF"
                 /\ d[i] = "LF" => i > 1 /\ d[i - 1] = "CR"
      <4>1. i \in 1 .. n + 1 /\ i < n + 1 /\ (i < n => i + 1 \in 1 .. n) /\ (i > 1 => i - 1 \in 1 .. n)
        OBVIOUS
      <4>. QED  BY <2>2, <2>5, <4>1
    <3>. QED  BY <2>1, <3>1 DEF Tidy
  <2>7. Same(d)
    BY <1>2, <2>6
  <2>8. EndsWith(d, "CR") <=> byte = "LF"
    <3>1. PICK m \in 1 .. n + 1 : m = n + 1 /\ m - 1 = n /\ (m > 1 => n \in 1 .. n)
      OBVIOUS
    <3>2. byte = "LF" => n # 0 /\ d[n] = "CR"
      BY <2>2, <2>5, <3>1
    <3>3. n # 0 /\ d[n] = "CR" => byte = "LF"
      <4>1. n # 0 => n \in 1 .. n /\ n \in 1 .. n + 1 /\ n < n + 1
        OBVIOUS
      <4>. QED  BY <2>2, <2>5, <4>1
    <3>. QED  BY <2>1, <3>2, <3>3 DEF EndsWith
  <2>9. EndsWith(more, "CR") <=> byte = "CR"
    BY <2>2 DEF EndsWith
  <2>10. CASE byte = "LF"
    <3>1. Canonical(d) = d \o <<"LF">>
      BY <2>7, <2>8, <2>10
    <3>2. Canonical(more) = more \o <<>>
      BY <2>3, <2>8, <2>10, <3>1 DEF more
    <3>3. Canonical(more) = more
      BY <2>2, <3>2, ConcatEmptySeq
    <3>. QED  BY <2>9, <2>10, <3>3 DEF more
  <2>11. CASE byte = "CR"
    <3>1. Canonical(more) = d \o CRLF
      BY <2>3, <2>7, <2>8, <2>11
    <3>2. Canonical(more) = more \o <<"LF">>
      BY <2>4, <2>11, <3>1 DEF more
    <3>. QED  BY <2>9, <2>11, <3>2 DEF more
  <2>12. CASE byte # "LF" /\ byte # "CR"
    <3>1. Canonical(more) = d \o <<byte>>
      BY <2>3, <2>7, <2>8, <2>12
    <3>. QED  BY <2>9, <2>12, <3>1 DEF more
  <2>. QED  BY <2>10, <2>11, <2>12
<1>. HIDE DEF Same
<1>3. \A d \in Seq(Bytes) : \A byte \in Bytes : d \in Good => d \o <<byte>> \in Good
  BY <1>2, OneMore
<1>. HIDE DEF Good
<1>4. data \in Good
  BY <1>1, <1>3, AllLists
<1>. QED  BY <1>4 DEF Good, Same

LEMMA CanonicalOfClean ==
  ASSUME NEW data \in Seq(Bytes), Clean(data), Len(data) = 0 \/ EndsWith(data, "LF")
  PROVE  WithFinalBreak(Canonical(data)) = IF data = <<>> THEN CRLF ELSE data
<1>1. PICK n \in Nat : n = Len(data)
  BY LenProperties
<1>2. Tidy(data) /\ ~EndsWith(data, "CR")
  BY <1>1 DEF Clean, Tidy, EndsWith
<1>3. Canonical(data) = data
  BY <1>2, CanonicalOfTidy
<1>4. "CR" \in Bytes /\ "LF" \in Bytes
  BY DEF Bytes
<1>5. IsSuffix(CRLF, data) <=> 2 <= n /\ data[n - 1] = "CR" /\ data[n] = "LF"
  BY <1>1, <1>4, EndsWithTwo DEF CRLF
<1>6. CASE data = <<>>
  <2>1. WithFinalBreak(data) = data \o CRLF
    BY <1>1, <1>5, <1>6, OfNothing DEF WithFinalBreak
  <2>2. data \o CRLF = CRLF
    BY <1>6, BreakMore, ConcatEmptySeq
  <2>. QED  BY <1>3, <1>6, <2>1, <2>2
<1>7. CASE data # <<>>
  <2>1. EndsWith(data, "LF")
    BY <1>7, EmptySeq
  <2>2. EndsWithBreak(data)
    BY <2>1, CleanEnd
  <2>3. IsSuffix(CRLF, data)
    BY <1>1, <1>5, <2>2 DEF EndsWithBreak
  <2>. QED  BY <1>3, <1>7, <2>3 DEF WithFinalBreak
<1>. QED  BY <1>6, <1>7

(* More lines are more text. *)
LEMMA PrefixLonger ==
  ASSUME NEW data \in Seq(Bytes), NEW j \in Nat, NEW k \in Nat, j <= k, k <= Len(data)
  PROVE  /\ Len(Unstuffed(SubSeq(data, 1, j))) \in Nat
         /\ Len(Unstuffed(SubSeq(data, 1, k))) \in Nat
         /\ Len(Unstuffed(SubSeq(data, 1, j))) <= Len(Unstuffed(SubSeq(data, 1, k)))
<1>1. PICK n \in Nat : n = Len(data) /\ k <= n
  BY LenProperties
<1>. DEFINE Size(i) == Len(Unstuffed(SubSeq(data, 1, i)))
<1>2. ASSUME NEW i \in Nat, i <= n
      PROVE  Size(i) \in Nat
  <2>1. SubSeq(data, 1, i) \in Seq(Bytes)
    BY <1>1, <1>2, PrefixProperties
  <2>. QED  BY <2>1, UnstuffedMore, LenProperties, OfNothing DEF Bytes
<1>3. ASSUME NEW i \in Nat, i + 1 <= n
      PROVE  Size(i) <= Size(i + 1)
  <2>1. SubSeq(data, 1, i + 1) = SubSeq(data, 1, i) \o <<data[i + 1]>>
    BY <1>1, <1>3, PrefixMore
  <2>2. SubSeq(data, 1, i) \in Seq(Bytes)
    BY <1>1, <1>3, PrefixProperties
  <2>3. <<data[i + 1]>> \in Seq(Bytes)
    <3>1. i + 1 \in 1 .. Len(data)
      BY <1>1, <1>3
    <3>. QED  BY <3>1, ElementOfSeq, OneElement
  <2>. QED  BY <2>1, <2>2, <2>3, UnstuffedLonger
<1>. HIDE DEF Size
<1>. DEFINE Done == {i \in Nat : j + i <= n => Size(j) <= Size(j + i)}
<1>4. 0 \in Done
  <2>1. j + 0 = j /\ (j + 0 <= n => Size(j) \in Nat)
    BY <1>2
  <2>. QED  BY <2>1
<1>5. ASSUME NEW i \in Nat, i \in Done
      PROVE  i + 1 \in Done
  <2>1. SUFFICES ASSUME j + (i + 1) <= n
                 PROVE  Size(j) <= Size(j + (i + 1))
    OBVIOUS
  <2>2. PICK m \in Nat : m = j + i /\ m + 1 = j + (i + 1) /\ m + 1 <= n /\ m <= n /\ j <= n
    BY <2>1
  <2>3. Size(j) <= Size(m)
    BY <1>5, <2>2
  <2>4. Size(m) <= Size(m + 1)
    BY <1>3, <2>2
  <2>5. Size(j) \in Nat /\ Size(m) \in Nat /\ Size(m + 1) \in Nat
    BY <1>2, <2>2
  <2>. QED  BY <2>2, <2>3, <2>4, <2>5
<1>. HIDE DEF Done
<1>6. Nat \subseteq Done
  BY <1>4, <1>5, AllNaturals
<1>7. PICK i \in Nat : j + i = k
  <2>1. k - j \in Nat /\ j + (k - j) = k
    OBVIOUS
  <2>. QED  BY <2>1
<1>8. Size(j) <= Size(k)
  BY <1>1, <1>6, <1>7 DEF Done
<1>9. Size(j) \in Nat /\ Size(k) \in Nat
  BY <1>1, <1>2
<1>. QED  BY <1>8, <1>9 DEF Size

Within(data, end) == AtLine(data, end) /\ end < Min(FinalAt(data))

UpTo(data, end) == Unstuffed(SubSeq(data, 1, end))

LEMMA TextIsMore ==
  ASSUME NEW data \in Seq(Bytes), Correct(data), NEW k \in Nat, k < Min(FinalAt(data))
  PROVE  /\ UpTo(data, k) \in Seq(Bytes)
         /\ Len(UpTo(data, k)) \in Nat /\ Len(Text(data)) \in Nat
         /\ Len(UpTo(data, k)) <= Len(Text(data))
<1>1. PICK f \in Nat : f = Min(FinalAt(data)) /\ f > 0 /\ f + 2 <= Len(data)
  BY CorrectIs
<1>2. PICK n \in Nat : n = Len(data)
  BY LenProperties
<1>3. PICK m \in Nat : m = f - 1 /\ m <= n /\ k <= m
  BY <1>1, <1>2
<1>4. Text(data) = Unstuffed(SubSeq(data, 1, m))
  BY <1>1, <1>3 DEF Text
<1>5. SubSeq(data, 1, k) \in Seq(Bytes)
  <2>1. k <= Len(data)
    BY <1>2, <1>3
  <2>. QED  BY <2>1, PrefixProperties
<1>6. UpTo(data, k) \in Seq(Bytes)
  BY <1>5, UnstuffedMore, OfNothing DEF UpTo, Bytes
<1>. QED  BY <1>2, <1>3, <1>4, <1>6, PrefixLonger DEF UpTo

(* What the next line of correct data is, and what it adds. *)
LEMMA ReadLine ==
  ASSUME sent \in Seq(Bytes), taken \in 0 .. Len(sent), Correct(sent), Within(sent, taken)
  PROVE  \E end \in Nat :
           /\ NextLine \in Seq(Bytes) /\ Len(NextLine) \in Nat /\ Len(NextLine) > 1
           /\ end = taken + Len(NextLine)
           /\ Trimmed(NextLine) \in Seq(Bytes) /\ Unbroken(Trimmed(NextLine))
           /\ Trimmed(NextLine) = <<".">> =>
                end = DataEnd(sent) /\ Len(NextLine) = 3 /\ UpTo(sent, taken) = Text(sent)
           /\ Trimmed(NextLine) # <<".">> =>
                /\ Within(sent, end)
                /\ UpTo(sent, end) = UpTo(sent, taken) \o BodyLine(Trimmed(NextLine))
                /\ Len(NextLine) <= Len(UpTo(sent, end)) + 1
<1>. DEFINE line == NextLine
            body == Trimmed(line)
<1>1. PICK n \in Nat : n = Len(sent)
  BY LenProperties
<1>2. PICK k \in Nat : k = taken /\ k <= n
  BY <1>1
<1>3. PICK f \in Nat : /\ f = Min(FinalAt(sent)) /\ DataEnd(sent) = f + 2
                       /\ f > 0 /\ f + 2 <= n /\ LineStart(sent, f)
                       /\ sent[f] = "." /\ sent[f + 1] = "CR" /\ sent[f + 2] = "LF"
                       /\ Proper(sent, f)
  BY <1>1, CorrectIs
<1>4. PICK end \in Nat : /\ k <= end /\ end <= n
                         /\ line = SubSeq(sent, k + 1, end)
                         /\ line \in Seq(Bytes) /\ Len(line) = end - k
                         /\ \A i \in k + 1 .. end - 1 : sent[i] # "LF"
                         /\ (end = n \/ (sent[end] = "LF" /\ k < end))
  BY <1>1, <1>2, NextLineIs
<1>. HIDE DEF line
<1>5. AtLine(sent, k) /\ k < f
  BY <1>2, <1>3 DEF Within
<1>6. /\ k + 2 <= end /\ sent[end - 1] = "CR" /\ sent[end] = "LF"
      /\ \A i \in k + 1 .. end - 2 : NoBreak(sent[i])
      /\ ((end = f + 2 /\ k + 1 = f) \/ (end < f /\ (sent[k + 1] = "." => sent[k + 2] = ".")))
  <2>1. LineOf(sent, f, n, k, end)
    BY <1>3, <1>4, <1>5 DEF LineOf
  <2>. QED  BY <2>1, LineOfCorrect
<1>7. PICK t \in Nat : /\ t = end - 2 - k /\ end = k + t + 2 /\ end - 2 = k + t /\ end - 1 = k + t + 1
                       /\ end - k = t + 2
  BY <1>6
<1>8. \A i \in 1 .. t + 2 : line[i] = sent[k + i]
  <2>1. PICK from \in Nat \ {0} : from = k + 1 /\ from <= end + 1 /\ end - from + 1 = t + 2
    BY <1>6, <1>7
  <2>2. \A i \in 1 .. end - from + 1 : SubSeq(sent, from, end)[i] = sent[from + i - 1]
    BY <1>1, <1>4, <2>1, PartOfList
  <2>3. \A i \in 1 .. t + 2 : from + i - 1 = k + i
    BY <2>1
  <2>. QED  BY <1>4, <2>1, <2>2, <2>3
<1>9. Len(line) = t + 2 /\ t <= Len(line)
  BY <1>4, <1>7
<1>10. body = SubSeq(line, 1, t)
  <2>1. t # 0 => NoBreak(line[t])
    <3>1. t # 0 => t \in 1 .. t + 2 /\ k + t \in k + 1 .. end - 2
      BY <1>7
    <3>. QED  BY <1>6, <1>8, <3>1
  <2>2. ASSUME NEW i \in t + 1 .. Len(line)
        PROVE  ~NoBreak(line[i])
    <3>1. i \in 1 .. t + 2 /\ (i = t + 1 \/ i = t + 2)
      BY <1>9, <2>2
    <3>2. line[i] = sent[k + i]
      BY <1>8, <3>1
    <3>3. k + i = end - 1 \/ k + i = end
      BY <1>7, <3>1
    <3>. QED  BY <1>6, <3>2, <3>3 DEF NoBreak
  <2>. QED  BY <1>4, <1>9, <2>1, <2>2, TrimmedIs
<1>11. body \in Seq(Bytes) /\ Len(body) = t /\ \A i \in 1 .. t : body[i] = line[i]
  <2>1. /\ SubSeq(line, 1, t) \in Seq(Bytes) /\ Len(SubSeq(line, 1, t)) = t
        /\ \A i \in 1 .. t : SubSeq(line, 1, t)[i] = line[i]
    BY <1>4, <1>9, PrefixProperties
  <2>. HIDE DEF body
  <2>. QED  BY <1>10, <2>1
<1>. HIDE DEF body
<1>12. \A i \in 1 .. t : body[i] = sent[k + i]
  <2>1. \A i \in 1 .. t : i \in 1 .. t + 2
    OBVIOUS
  <2>. QED  BY <1>8, <1>11, <2>1
<1>13. Unbroken(body)
  <2>1. \A i \in 1 .. t : k + i \in k + 1 .. end - 2
    BY <1>7
  <2>. QED  BY <1>6, <1>11, <1>12, <2>1 DEF Unbroken
<1>14. CASE end = f + 2 /\ k + 1 = f
  <2>1. t = 1
    BY <1>7, <1>14
  <2>2. body = <<".">>
    <3>1. "." \in Bytes
      BY DEF Bytes
    <3>2. <<".">> \in Seq(Bytes) /\ Len(<<".">>) = 1 /\ <<".">>[1] = "."
      BY <3>1, OneElement
    <3>3. 1 \in 1 .. t
      BY <2>1
    <3>4. body[1] = "."
      BY <1>3, <1>12, <1>14, <3>3
    <3>. DEFINE dot == <<".">>
    <3>. HIDE DEF dot
    <3>5. dot \in Seq(Bytes) /\ Len(dot) = 1 /\ dot[1] = "."
      BY <3>2 DEF dot
    <3>6. Len(body) = Len(dot) /\ \A i \in 1 .. Len(body) : body[i] = dot[i]
      <4>1. Len(body) = 1 /\ \A i \in 1 .. 1 : i = 1
        BY <1>11, <2>1
      <4>. QED  BY <3>4, <3>5, <4>1
    <3>7. body = dot
      BY <1>11, <3>5, <3>6, SeqEqual
    <3>. QED  BY <3>7 DEF dot
  <2>3. UpTo(sent, k) = Text(sent)
    <3>1. f - 1 = k
      BY <1>14
    <3>. QED  BY <1>3, <3>1 DEF UpTo, Text
  <2>4. end = DataEnd(sent) /\ Len(line) = 3 /\ end = k + Len(line)
    BY <1>3, <1>7, <1>9, <1>14, <2>1
  <2>. QED  BY <1>2, <1>4, <1>11, <1>13, <2>2, <2>3, <2>4 DEF line, body
<1>15. CASE end < f /\ (sent[k + 1] = "." => sent[k + 2] = ".")
  <2>1. Within(sent, end)
    <3>1. end > 1
      BY <1>6
    <3>. QED  BY <1>3, <1>6, <1>15, <3>1 DEF Within, AtLine
  <2>2. LineHere(sent, k, t, body)
    BY <1>1, <1>4, <1>5, <1>6, <1>7, <1>11, <1>12, <1>15 DEF LineHere
  <2>3. UpTo(sent, end) = UpTo(sent, k) \o BodyLine(body)
    <3>1. Unstuffed(SubSeq(sent, 1, k + t + 2)) = Unstuffed(SubSeq(sent, 1, k)) \o BodyLine(body)
      BY <1>11, <2>2, LineAdds
    <3>2. k + t + 2 = end
      BY <1>7
    <3>. QED  BY <3>1, <3>2 DEF UpTo
  <2>4. body # <<".">>
    <3>1. SUFFICES ASSUME body = <<".">>
                   PROVE  FALSE
      OBVIOUS
    <3>2. Len(body) = 1 /\ body[1] = "."
      BY <3>1, OneElement
    <3>3. t = 1 /\ 1 \in 1 .. t
      BY <1>11, <3>2
    <3>4. sent[k + 1] = "."
      BY <1>12, <3>2, <3>3
    <3>5. sent[k + 2] = "." /\ k + 2 = end - 1
      BY <1>7, <1>15, <3>3, <3>4
    <3>. QED  BY <1>6, <3>5
  <2>5. Len(line) <= Len(UpTo(sent, end)) + 1
    <3>1. PICK b \in Nat : b = Len(BodyLine(body)) /\ b >= t + 1 /\ BodyLine(body) \in Seq(Bytes)
      BY <1>11, BodyLineIs
    <3>2. UpTo(sent, k) \in Seq(Bytes)
      BY <1>3, <1>5, TextIsMore
    <3>3. PICK a \in Nat : a = Len(UpTo(sent, k))
      BY <3>2, LenProperties
    <3>4. Len(UpTo(sent, k) \o BodyLine(body)) = a + b
      BY <3>1, <3>2, <3>3, ConcatAt
    <3>. QED  BY <1>9, <2>3, <3>1, <3>3, <3>4
  <2>6. Len(line) \in Nat /\ Len(line) > 1 /\ end = k + Len(line)
    BY <1>7, <1>9
  <2>. QED  BY <1>2, <1>4, <1>11, <1>13, <2>1, <2>3, <2>4, <2>5, <2>6 DEF line, body
<1>. QED  BY <1>6, <1>14, <1>15

-----------------------------------------------------------------------------
(***************************************************************************)
(* The inductive invariant.  While correct data is read, the reader is at  *)
(* the start of a line before the final dot, and the stored message is the *)
(* text of the lines behind it, which are clean; what is written is the    *)
(* stuffed message.                                                        *)
(***************************************************************************)
SoFar ==
  Correct(sent) =>
    /\ phase = "reading" => Within(sent, taken) /\ message = UpTo(sent, taken)
    /\ phase \in {"stored", "written"} => message = Text(sent) /\ taken = DataEnd(sent)
    /\ phase # "closed"
    /\ phase = "refused" => Len(Text(sent)) > limit

CleanLines ==
  Correct(sent) /\ phase \in {"reading", "stored", "written"} =>
    Clean(message) /\ (Len(message) = 0 \/ EndsWith(message, "LF"))

WireInv == phase = "written" => wire = dot_stuff(message) \o Final

IInv == TypeOK /\ SoFar /\ CleanLines /\ WireInv

LEMMA InitInv == Init => IInv
<1>. SUFFICES ASSUME Init
              PROVE  IInv
  OBVIOUS
<1>1. sent \in Seq(Bytes) /\ limit \in Limits /\ limit \in Nat
  BY MessageCodecAssumption DEF Init
<1>2. <<>> \in Seq(Bytes) /\ Len(<<>>) = 0
  BY OfNothing
<1>3. TypeOK
  <2>1. taken \in 0 .. Len(sent)
    BY <1>1, LenProperties DEF Init
  <2>. QED  BY <1>1, <1>2, <2>1 DEF Init, TypeOK
<1>4. SoFar
  <2>1. SUFFICES ASSUME Correct(sent)
                 PROVE  Within(sent, taken) /\ message = UpTo(sent, taken)
    BY DEF Init, SoFar
  <2>2. PICK f \in Nat : f = Min(FinalAt(sent)) /\ f > 0
    BY <1>1, <2>1, CorrectIs
  <2>3. Within(sent, 0)
    BY <2>2 DEF Within, AtLine
  <2>4. UpTo(sent, 0) = <<>>
    <3>1. SubSeq(sent, 1, 0) = <<>>
      BY <1>1, SubSeqEmpty
    <3>. QED  BY <3>1, OfNothing DEF UpTo
  <2>. QED  BY <2>3, <2>4 DEF Init
<1>5. CleanLines
  BY <1>2 DEF Init, CleanLines, Clean
<1>. QED  BY <1>3, <1>4, <1>5 DEF Init, IInv, WireInv

(* What every reading step has of the line. *)
LEMMA NextLineTyped ==
  ASSUME TypeOK
  PROVE  /\ NextLine \in Seq(Bytes) /\ Len(NextLine) \in Nat
         /\ taken + Len(NextLine) \in 0 .. Len(sent)
<1>1. sent \in Seq(Bytes) /\ taken \in 0 .. Len(sent) /\ Len(sent) \in Nat
  BY LenProperties DEF TypeOK
<1>2. PICK end \in Nat : /\ taken <= end /\ end <= Len(sent)
                         /\ NextLine \in Seq(Bytes) /\ Len(NextLine) = end - taken
  BY <1>1, NextLineIs
<1>. QED  BY <1>1, <1>2, LenProperties

LEMMA StepInv == IInv /\ [Next]_vars => IInv'
<1>. SUFFICES ASSUME IInv, [Next]_vars
              PROVE  IInv'
  OBVIOUS
<1>. DEFINE line == NextLine
            body == BodyLine(Trimmed(line))
<1>0. TypeOK /\ SoFar /\ CleanLines /\ WireInv
  BY DEF IInv
<1>1. /\ limit \in Limits /\ limit \in Nat /\ sent \in Seq(Bytes) /\ taken \in 0 .. Len(sent)
      /\ message \in Seq(Bytes) /\ wire \in Seq(Bytes)
  BY <1>0, MessageCodecAssumption DEF TypeOK
<1>2. line \in Seq(Bytes) /\ Len(line) \in Nat /\ taken + Len(line) \in 0 .. Len(sent)
  BY <1>0, NextLineTyped
<1>3. body \in Seq(Bytes)
  BY <1>2, TrimmedIsList, BodyLineIs
<1>4. message \o body \in Seq(Bytes)
  BY <1>1, <1>3, ConcatProperties
<1>5. ASSUME Correct(sent), phase = "reading"
      PROVE  /\ Len(line) > 1 /\ message = UpTo(sent, taken)
             /\ Trimmed(line) = <<".">> =>
                  /\ taken + Len(line) = DataEnd(sent) /\ Len(line) = 3
                  /\ message = Text(sent)
             /\ Trimmed(line) # <<".">> =>
                  /\ Within(sent, taken + Len(line))
                  /\ Clean(message \o body) /\ EndsWith(message \o body, "LF")
                  /\ message \o body = UpTo(sent, taken + Len(line))
                  /\ Len(message \o body) \in Nat
                  /\ Len(line) <= Len(message \o body) + 1
                  /\ Len(Text(sent)) \in Nat /\ Len(message \o body) <= Len(Text(sent))
  <2>1. Within(sent, taken) /\ message = UpTo(sent, taken)
    BY <1>0, <1>5 DEF SoFar
  <2>2. PICK end \in Nat :
          /\ line \in Seq(Bytes) /\ Len(line) \in Nat /\ Len(line) > 1
          /\ end = taken + Len(line)
          /\ Trimmed(line) \in Seq(Bytes) /\ Unbroken(Trimmed(line))
          /\ Trimmed(line) = <<".">> =>
               end = DataEnd(sent) /\ Len(line) = 3 /\ UpTo(sent, taken) = Text(sent)
          /\ Trimmed(line) # <<".">> =>
               /\ Within(sent, end)
               /\ UpTo(sent, end) = UpTo(sent, taken) \o body
               /\ Len(line) <= Len(UpTo(sent, end)) + 1
    BY <1>1, <1>5, <2>1, ReadLine
  <2>3. Clean(message \o body) /\ EndsWith(message \o body, "LF")
    <3>1. Clean(message)
      BY <1>0, <1>5 DEF CleanLines
    <3>. QED  BY <1>1, <2>2, <3>1, CleanBody
  <2>. HIDE DEF line, body
  <2>4. ASSUME Trimmed(line) # <<".">>
        PROVE  /\ Within(sent, end) /\ message \o body = UpTo(sent, end)
               /\ Len(message \o body) \in Nat
               /\ Len(line) <= Len(message \o body) + 1
               /\ Len(Text(sent)) \in Nat /\ Len(message \o body) <= Len(Text(sent))
    <3>1. end < Min(FinalAt(sent))
      BY <2>2, <2>4 DEF Within
    <3>2. /\ Len(UpTo(sent, end)) \in Nat /\ Len(Text(sent)) \in Nat
          /\ Len(UpTo(sent, end)) <= Len(Text(sent))
      BY <1>1, <1>5, <3>1, TextIsMore
    <3>. QED  BY <2>1, <2>2, <2>4, <3>2
  <2>. QED  BY <2>1, <2>2, <2>3, <2>4
<1>. HIDE DEF line, body
<1>6. ASSUME Close
      PROVE  IInv'
  <2>1. /\ phase = "reading" /\ line = <<>> /\ phase' = "closed"
        /\ UNCHANGED <<limit, sent, wire, taken, message>>
    BY <1>6 DEF Close, Reading, line
  <2>2. ~Correct(sent)
    <3>1. Len(line) = 0
      BY <2>1, OfNothing
    <3>. QED  BY <1>5, <2>1, <3>1
  <2>3. TypeOK'
    BY <1>0, <2>1 DEF TypeOK
  <2>. QED  BY <1>0, <2>1, <2>2, <2>3 DEF IInv, SoFar, CleanLines, WireInv
<1>7. ASSUME RefuseLine
      PROVE  IInv'
  <2>1. /\ phase = "reading" /\ phase' = "refused" /\ taken' = taken + Len(line)
        /\ Len(line) > limit + 5
        /\ UNCHANGED <<limit, sent, wire, message>>
    BY <1>7 DEF RefuseLine, Read, Reading, LineLimit, line
  <2>2. TypeOK'
    BY <1>1, <1>2, <2>1 DEF TypeOK
  <2>3. Correct(sent) => Len(Text(sent)) > limit
    <3>1. SUFFICES ASSUME Correct(sent)
                   PROVE  Len(Text(sent)) > limit
      OBVIOUS
    <3>2. Len(line) # 3
      <4>1. limit \in Nat /\ Len(line) \in Nat /\ Len(line) > limit + 5
        BY <1>1, <1>2, <2>1
      <4>2. \A m \in Nat : \A n \in Nat : n > m + 5 => n # 3
        OBVIOUS
      <4>. QED  BY <4>1, <4>2
    <3>3. Trimmed(line) # <<".">>
      BY <1>5, <2>1, <3>1, <3>2
    <3>. QED  BY <1>1, <1>2, <1>5, <2>1, <3>1, <3>3
  <2>. QED  BY <1>0, <2>1, <2>2, <2>3 DEF IInv, SoFar, CleanLines, WireInv
<1>8. ASSUME EndData
      PROVE  IInv'
  <2>1. /\ phase = "reading" /\ phase' = "stored" /\ taken' = taken + Len(line)
        /\ Trimmed(line) = <<".">>
        /\ UNCHANGED <<limit, sent, wire, message>>
    BY <1>8 DEF EndData, Read, Reading, line
  <2>2. TypeOK'
    BY <1>0, <1>1, <1>2, <2>1 DEF TypeOK
  <2>3. Correct(sent) => message = Text(sent) /\ taken' = DataEnd(sent)
    BY <1>5, <2>1
  <2>. QED  BY <1>0, <2>1, <2>2, <2>3 DEF IInv, SoFar, CleanLines, WireInv
<1>9. ASSUME StoreLine
      PROVE  IInv'
  <2>1. /\ phase = "reading" /\ taken' = taken + Len(line) /\ Trimmed(line) # <<".">>
        /\ message' = message \o body
        /\ phase' = (IF Len(message') > limit THEN "refused" ELSE "reading")
        /\ UNCHANGED <<limit, sent, wire>>
    BY <1>9 DEF StoreLine, Read, Reading, line, body
  <2>2. Len(message') \in Nat
    BY <1>4, <2>1, LenProperties
  <2>3. TypeOK'
    BY <1>1, <1>2, <1>4, <2>1, <2>2 DEF TypeOK
  <2>4. SoFar'
    <3>1. SUFFICES ASSUME Correct(sent)
                   PROVE  SoFar'
      BY <2>1 DEF SoFar
    <3>2. /\ Within(sent, taken') /\ message' = UpTo(sent, taken')
          /\ Len(Text(sent)) \in Nat /\ Len(message') <= Len(Text(sent))
      BY <1>5, <2>1, <3>1
    <3>3. phase' = "refused" => Len(Text(sent)) > limit
      BY <1>1, <2>1, <2>2, <3>2
    <3>. QED  BY <2>1, <3>2, <3>3 DEF SoFar
  <2>5. CleanLines'
    <3>1. SUFFICES ASSUME Correct(sent)
                   PROVE  Clean(message') /\ EndsWith(message', "LF")
      BY <2>1 DEF CleanLines
    <3>. QED  BY <1>5, <2>1, <3>1
  <2>. QED  BY <2>1, <2>3, <2>4, <2>5 DEF IInv, WireInv
<1>10. ASSUME Write
       PROVE  IInv'
  <2>1. /\ phase = "stored" /\ phase' = "written" /\ wire' = dot_stuff(message) \o Final
        /\ UNCHANGED <<limit, sent, taken, message>>
    BY <1>10 DEF Write
  <2>2. wire' \in Seq(Bytes)
    BY <1>1, <2>1, Written
  <2>3. TypeOK'
    BY <1>0, <2>1, <2>2 DEF TypeOK
  <2>4. SoFar'
    BY <1>0, <2>1 DEF SoFar
  <2>5. CleanLines'
    BY <1>0, <2>1 DEF CleanLines
  <2>. QED  BY <2>1, <2>3, <2>4, <2>5 DEF IInv, WireInv
<1>11. CASE UNCHANGED vars
  BY <1>0, <1>11 DEF IInv, TypeOK, SoFar, CleanLines, WireInv, vars
<1>. QED  BY <1>6, <1>7, <1>8, <1>9, <1>10, <1>11 DEF Next

(* The strengthened invariant holds in every reachable state.                *)
THEOREM Invariance == Spec => []IInv
<1>. QED  BY InitInv, StepInv, PTL DEF Spec

(* Whatever the client sends, the reader stays within it, and no message     *)
(* above the limit is kept (the size checks of read_message_data).           *)
THEOREM TypeCorrect == Spec => []TypeOK
<1>1. IInv => TypeOK
  BY DEF IInv
<1>. QED  BY <1>1, Invariance, PTL

(* Exactly the text of correct data is stored, and exactly its bytes are     *)
(* taken from the stream (the loop of read_message_data).                    *)
THEOREM TextIsStored == Spec => []StoredAsSubmitted
<1>1. IInv => StoredAsSubmitted
  BY DEF IInv, SoFar, StoredAsSubmitted
<1>. QED  BY <1>1, Invariance, PTL

(* No line limit and no count of a stuffed dot refuses a text that is no     *)
(* larger than message_size_limit_bytes (read_message_data).                 *)
THEOREM RefusedAboveLimit == Spec => []RefusedOnlyAboveLimit
<1>1. IInv => RefusedOnlyAboveLimit
  BY DEF IInv, SoFar, RefusedOnlyAboveLimit
<1>. QED  BY <1>1, Invariance, PTL

(* The data written for a stored message of any bytes is correct, ends where *)
(* it should and carries its text (normalize_crlf, dot_stuff and             *)
(* write_message_data).                                                      *)
THEOREM TextArrives == Spec => []ArrivesIntact
<1>1. IInv => ArrivesIntact
  <2>1. SUFFICES ASSUME IInv, phase = "written"
                 PROVE  /\ Correct(wire) /\ DataEnd(wire) = Len(wire)
                        /\ Text(wire) = WithFinalBreak(Canonical(message))
    BY DEF ArrivesIntact
  <2>2. message \in Seq(Bytes) /\ wire = dot_stuff(message) \o Final
    BY <2>1 DEF IInv, TypeOK, WireInv
  <2>. QED  BY <2>2, Written
<1>. QED  BY <1>1, Invariance, PTL

(* What a client that follows the RFC submits is what arrives: the lines it  *)
(* sent, whatever dots they begin with, and nothing more but the line end of *)
(* an empty text (read_message_data and write_message_data together).        *)
THEOREM SubmissionArrives == Spec => []DeliveredAsSubmitted
<1>1. IInv => DeliveredAsSubmitted
  <2>1. SUFFICES ASSUME IInv, phase = "written", Correct(sent)
                 PROVE  Text(wire) = IF Text(sent) = <<>> THEN CRLF ELSE Text(sent)
    BY DEF DeliveredAsSubmitted
  <2>2. /\ message \in Seq(Bytes) /\ wire = dot_stuff(message) \o Final /\ message = Text(sent)
        /\ Clean(message) /\ (Len(message) = 0 \/ EndsWith(message, "LF"))
    BY <2>1 DEF IInv, TypeOK, SoFar, CleanLines, WireInv
  <2>3. Text(wire) = WithFinalBreak(Canonical(message))
    BY <2>2, Written
  <2>. QED  BY <2>2, <2>3, CanonicalOfClean
<1>. QED  BY <1>1, Invariance, PTL
=============================================================================

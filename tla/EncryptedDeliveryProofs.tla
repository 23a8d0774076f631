------------------------ MODULE EncryptedDeliveryProofs ------------------------
(***************************************************************************)
(* Proofs about EncryptedDelivery: whom a message is encrypted for, when   *)
(* its preparation is refused, what stays in clear and what is encrypted,  *)
(* for any keys, any answers and messages of any length.                   *)
(***************************************************************************)
EXTENDS EncryptedDelivery, ListTheorems, FunctionTheorems

(***************************************************************************)
(* The inductive invariant, a part for each thing that is prepared.        *)
(***************************************************************************)
(* Under a name there are only its certificates, and those of each key file  *)
(* that has been read.                                                       *)
Indexing ==
  /\ \A n \in Name : ToSet(local_index[n]) \subseteq Of(n, InFiles)
  /\ pc = "index" =>
       /\ ToSet(files) \subseteq ToSet(KeyFiles)
       /\ \A n \in Name : \A f \in ToSet(KeyFiles) \ ToSet(files) :
            Of(n, ToSet(case.files[f].certs)) \subseteq ToSet(local_index[n])

(* Whom the certificates collected so far are for.                           *)
Collected ==
  /\ \A i \in 1 .. resolved : \E cert \in ToSet(certs) :
       cert.fingerprint \in Fingerprints(Of(case.recipients[i], InFiles \cup InAnswers))
  /\ \A cert \in ToSet(certs) : cert.emails \cap ToSet(case.recipients) # {}

(* The message is made of the submission, and encrypted when all certificates *)
(* have been collected and can be used.                                      *)
Composed ==
  /\ pc \in {"resolve", "encrypted", "prepared"} =>
       /\ plaintext = plaintext_for_encryption(case.lines, case.mode)
       /\ case.recipients # <<>>
  /\ pc \in {"encrypted", "prepared"} =>
       /\ resolved = Len(case.recipients)
       /\ \A cert \in ToSet(certs) : cert.usable
  /\ pc = "prepared" => ~IsMalformed(case.lines)
  /\ outer = IF pc = "prepared" THEN OuterHeader(case.lines) ELSE <<>>

IInv ==
  /\ TypeOK
  /\ case \in Cases
  /\ Indexing
  /\ IndexComplete
  /\ Collected
  /\ Composed
  /\ EachKeyOnce
  /\ PreparationRefusedForCause

-----------------------------------------------------------------------------
(***************************************************************************)
(* Positions in order.                                                     *)
(***************************************************************************)
Rank(S, i) == Cardinality({j \in S : j <= i})

LEMMA RankBounds ==
  ASSUME NEW S, S \subseteq Nat, IsFiniteSet(S), NEW i \in S
  PROVE  Cardinality(S) \in Nat /\ Rank(S, i) \in 1 .. Cardinality(S)
<1>. DEFINE below == {j \in S : j <= i}
<1>1. below \in SUBSET S /\ i \in below
  OBVIOUS
<1>. HIDE DEF below
<1>2. IsFiniteSet(below) /\ Cardinality(below) <= Cardinality(S)
  BY <1>1, FS_Subset
<1>3. Cardinality(S) \in Nat /\ Cardinality(below) \in Nat /\ Cardinality(below) # 0
  BY <1>1, <1>2, FS_CardinalityType, FS_EmptySet
<1>4. Cardinality(below) \in 1 .. Cardinality(S)
  BY <1>2, <1>3
<1>. QED  BY <1>3, <1>4 DEF Rank, below

LEMMA RankOrder ==
  ASSUME NEW S, S \subseteq Nat, IsFiniteSet(S), NEW i \in S, NEW k \in S, i < k
  PROVE  Rank(S, i) < Rank(S, k)
<1>. DEFINE A == {j \in S : j <= i}
            B == {j \in S : j <= k}
<1>0. i \in Nat /\ k \in Nat /\ \A j \in S : j \in Nat /\ (j <= i => j <= k)
  <2>1. i \in Nat /\ k \in Nat /\ \A j \in S : j \in Nat
    OBVIOUS
  <2>. QED  BY <2>1
<1>1. A \in SUBSET B /\ A # B /\ B \in SUBSET S
  <2>1. k \in B /\ k \notin A
    BY <1>0
  <2>2. A \in SUBSET B /\ B \in SUBSET S
    BY <1>0
  <2>. QED  BY <2>1, <2>2
<1>. HIDE DEF A, B
<1>2. IsFiniteSet(B)
  BY <1>1, FS_Subset
<1>3. IsFiniteSet(A) /\ Cardinality(A) <= Cardinality(B) /\ Cardinality(A) # Cardinality(B)
  BY <1>1, <1>2, FS_Subset
<1>4. Cardinality(A) \in Nat /\ Cardinality(B) \in Nat
  BY <1>2, <1>3, FS_CardinalityType
<1>5. Cardinality(A) < Cardinality(B)
  BY <1>3, <1>4
<1>. QED  BY <1>5 DEF Rank, A, B

(* Ranks are natural numbers, and tell positions apart.                      *)
LEMMA RankInjective ==
  ASSUME NEW S, S \subseteq Nat, IsFiniteSet(S), NEW i \in S, NEW k \in S
  PROVE  /\ Rank(S, i) \in Nat /\ Rank(S, k) \in Nat
         /\ Rank(S, i) = Rank(S, k) => i = k
         /\ Rank(S, i) < Rank(S, k) => i < k
<1>1. i \in Nat /\ k \in Nat
  OBVIOUS
<1>2. Rank(S, i) \in Nat /\ Rank(S, k) \in Nat
  <2>1. /\ Cardinality(S) \in Nat /\ Rank(S, i) \in 1 .. Cardinality(S)
        /\ Rank(S, k) \in 1 .. Cardinality(S)
    BY RankBounds
  <2>. QED  BY <2>1
<1>3. i < k => Rank(S, i) < Rank(S, k)
  BY RankOrder
<1>4. k < i => Rank(S, k) < Rank(S, i)
  BY RankOrder
<1>. QED  BY <1>1, <1>2, <1>3, <1>4

LEMMA RankOnto ==
  ASSUME NEW S, S \subseteq Nat, IsFiniteSet(S), NEW n \in 1 .. Cardinality(S)
  PROVE  \E i \in S : Rank(S, i) = n
<1>. DEFINE T == 1 .. Cardinality(S)
            f == [i \in S |-> Rank(S, i)]
<1>1. Cardinality(S) \in Nat
  BY FS_CardinalityType
<1>2. IsFiniteSet(T) /\ Cardinality(T) = Cardinality(S)
  BY <1>1, FS_Interval
<1>3. \A i \in S : f[i] = Rank(S, i)
  OBVIOUS
<1>4. f \in [S -> T]
  BY RankBounds
<1>. HIDE DEF f, T
<1>5. ASSUME NEW a \in S, NEW b \in S, f[a] = f[b] PROVE a = b
  <2>1. Rank(S, a) = Rank(S, b)
    BY <1>3, <1>5
  <2>. QED  BY <2>1, RankInjective
<1>6. f \in Injection(S, T)
  BY <1>4, <1>5, Fun_IsInj
<1>7. f \in Surjection(S, T)
  BY <1>2, <1>6, FS_Injection
<1>8. n \in T /\ \A t \in T : \E i \in S : f[i] = t
  BY <1>7, Fun_SurjectionProperties DEF T
<1>. QED  BY <1>3, <1>8

LEMMA InOrderProperties ==
  ASSUME NEW S, S \subseteq Nat, IsFiniteSet(S)
  PROVE  /\ Cardinality(S) \in Nat
         /\ InOrder(S) \in Seq(S) /\ Len(InOrder(S)) = Cardinality(S)
         /\ DOMAIN InOrder(S) = 1 .. Cardinality(S) /\ ToSet(InOrder(S)) = S
         /\ \A m, n \in DOMAIN InOrder(S) : m < n => InOrder(S)[m] < InOrder(S)[n]
<1>. DEFINE s == InOrder(S)
            c == Cardinality(S)
<1>1. c \in Nat
  BY FS_CardinalityType
<1>2. s = [n \in 1 .. c |-> CHOOSE i \in S : Rank(S, i) = n]
  BY DEF InOrder, Rank
<1>. HIDE DEF s
<1>3. \A n \in 1 .. c : s[n] \in S /\ Rank(S, s[n]) = n
  BY <1>2, RankOnto
<1>4. s \in [1 .. c -> S]
  BY <1>2, <1>3
<1>. HIDE DEF c
<1>5. s \in Seq(S)
  BY <1>1, <1>4, SeqDef
<1>6. Len(s) = c /\ DOMAIN s = 1 .. c
  BY <1>1, <1>4, <1>5, LenProperties
<1>7. ASSUME NEW i \in S PROVE i \in ToSet(s)
  <2>1. PICK n \in 1 .. c : n = Rank(S, i)
    BY RankBounds DEF c
  <2>2. s[n] \in S /\ Rank(S, s[n]) = Rank(S, i)
    BY <1>3, <2>1
  <2>3. s[n] = i
    BY <2>2, RankInjective
  <2>. QED  BY <1>6, <2>3 DEF ToSet
<1>8. ToSet(s) = S
  BY <1>3, <1>6, <1>7 DEF ToSet
<1>9. ASSUME NEW m \in DOMAIN s, NEW n \in DOMAIN s, m < n PROVE s[m] < s[n]
  <2>1. s[m] \in S /\ s[n] \in S /\ Rank(S, s[m]) = m /\ Rank(S, s[n]) = n
    BY <1>3, <1>6
  <2>2. Rank(S, s[m]) < Rank(S, s[n])
    BY <1>9, <2>1
  <2>. QED  BY <2>1, <2>2, RankInjective
<1>. QED  BY <1>1, <1>5, <1>6, <1>8, <1>9 DEF s, c

(* The positions of an interval, in order.                                   *)
LEMMA InOrderInterval ==
  ASSUME NEW a \in Nat, NEW b \in Int, a <= b + 1
  PROVE  InOrder(a .. b) = [n \in 1 .. b - a + 1 |-> a + n - 1]
<1>. DEFINE S == a .. b
<1>1. S \subseteq Nat /\ IsFiniteSet(S) /\ Cardinality(S) = b - a + 1
  BY FS_Interval
<1>2. \A i \in S : Rank(S, i) = i - a + 1
  <2>1. SUFFICES ASSUME NEW i \in S PROVE Rank(S, i) = i - a + 1
    OBVIOUS
  <2>2. {j \in S : j <= i} = a .. i
    OBVIOUS
  <2>3. i \in Int /\ a <= i
    OBVIOUS
  <2>4. Cardinality(a .. i) = i - a + 1
    BY <2>3, FS_Interval
  <2>. QED  BY <2>2, <2>4 DEF Rank
<1>3. InOrder(S) = [n \in 1 .. Cardinality(S) |-> CHOOSE i \in S : Rank(S, i) = n]
  BY DEF InOrder, Rank
<1>4. ASSUME NEW n \in 1 .. b - a + 1
      PROVE  (CHOOSE i \in S : Rank(S, i) = n) = a + n - 1
  <2>1. a + n - 1 \in S /\ \A i \in S : Rank(S, i) = n <=> i = a + n - 1
    BY <1>2
  <2>. QED  BY <2>1
<1>. QED  BY <1>1, <1>3, <1>4

-----------------------------------------------------------------------------
(***************************************************************************)
(* What stays of a list of certificates.                                   *)
(***************************************************************************)
LEMMA KeptProperties ==
  ASSUME NEW S, NEW all \in Seq(S), NEW positions \in SUBSET DOMAIN all
  PROVE  /\ Kept(all, positions) \in Seq(S)
         /\ ToSet(Kept(all, positions)) = {all[i] : i \in positions}
         /\ Len(Kept(all, positions)) \in Nat
         /\ DOMAIN Kept(all, positions) = 1 .. Len(Kept(all, positions))
         /\ \E order \in [DOMAIN Kept(all, positions) -> positions] :
              /\ \A n \in DOMAIN Kept(all, positions) : Kept(all, positions)[n] = all[order[n]]
              /\ \A m, n \in DOMAIN Kept(all, positions) : m < n => order[m] < order[n]
<1>. DEFINE order == InOrder(positions)
            kept  == Kept(all, positions)
            c     == Cardinality(positions)
<1>1. DOMAIN all = 1 .. Len(all) /\ Len(all) \in Nat /\ \A i \in DOMAIN all : all[i] \in S
  BY LenProperties, ElementOfSeq
<1>2. positions \subseteq Nat /\ IsFiniteSet(positions)
  <2>1. IsFiniteSet(DOMAIN all)
    BY <1>1, FS_Interval
  <2>. QED  BY <1>1, <2>1, FS_Subset
<1>3. /\ c \in Nat /\ order \in Seq(positions) /\ Len(order) = c /\ DOMAIN order = 1 .. c
      /\ ToSet(order) = positions /\ \A m, n \in DOMAIN order : m < n => order[m] < order[n]
  BY <1>2, InOrderProperties
<1>4. kept = [n \in DOMAIN order |-> all[order[n]]]
  BY DEF Kept
<1>. HIDE DEF order, kept, c
<1>5. order \in [1 .. c -> positions]
  BY <1>3, LenProperties
<1>6. kept = [n \in 1 .. c |-> all[order[n]]] /\ DOMAIN kept = 1 .. c
  BY <1>3, <1>4
<1>7. \A n \in 1 .. c : kept[n] = all[order[n]] /\ kept[n] \in S
  BY <1>1, <1>5, <1>6
<1>8. kept \in [1 .. c -> S]
  BY <1>6, <1>7
<1>9. kept \in Seq(S)
  BY <1>3, <1>8, SeqDef
<1>10. Len(kept) = c
  BY <1>3, <1>6, <1>9, LenProperties
<1>11. ToSet(kept) = {all[i] : i \in positions}
  <2>1. ASSUME NEW i \in positions PROVE all[i] \in ToSet(kept)
    <3>1. PICK n \in 1 .. c : order[n] = i
      BY <1>3 DEF ToSet
    <3>. QED  BY <1>6, <1>7, <3>1 DEF ToSet
  <2>2. ASSUME NEW x \in ToSet(kept) PROVE x \in {all[i] : i \in positions}
    <3>1. PICK n \in 1 .. c : x = kept[n]
      BY <1>6 DEF ToSet
    <3>. QED  BY <1>5, <1>7, <3>1
  <2>. QED  BY <2>1, <2>2
<1>12. \E f \in [DOMAIN kept -> positions] :
         /\ \A n \in DOMAIN kept : kept[n] = all[f[n]]
         /\ \A m, n \in DOMAIN kept : m < n => f[m] < f[n]
  <2>1. order \in [DOMAIN kept -> positions]
    BY <1>5, <1>6
  <2>2. \A n \in DOMAIN kept : kept[n] = all[order[n]]
    BY <1>6, <1>7
  <2>3. \A m, n \in DOMAIN kept : m < n => order[m] < order[n]
    BY <1>3, <1>6
  <2>. QED  BY <2>1, <2>2, <2>3
<1>. QED  BY <1>3, <1>6, <1>9, <1>10, <1>11, <1>12 DEF kept

(* A filtered list has the certificates of the recipient, and no others.     *)
LEMMA FilterProperties ==
  ASSUME NEW all \in Seq(Certs), NEW recipient
  PROVE  /\ filter_certs_for_email(all, recipient) \in Seq(Certs)
         /\ ToSet(filter_certs_for_email(all, recipient)) = Of(recipient, ToSet(all))
<1>. DEFINE positions == {i \in DOMAIN all : recipient \in all[i].emails}
<1>1. positions \in SUBSET DOMAIN all
  OBVIOUS
<1>2. filter_certs_for_email(all, recipient) = Kept(all, positions)
  BY DEF filter_certs_for_email
<1>3. {all[i] : i \in positions} = Of(recipient, ToSet(all))
  BY DEF Of, ToSet
<1>. HIDE DEF positions
<1>4. Kept(all, positions) \in Seq(Certs) /\ ToSet(Kept(all, positions)) = {all[i] : i \in positions}
  BY <1>1, KeptProperties
<1>. QED  BY <1>2, <1>3, <1>4

(* Certificates that are told apart by their fingerprints are as many as     *)
(* these.                                                                    *)
LEMMA CountedByFingerprint ==
  ASSUME NEW all \in Seq(Certs),
         \A i, j \in DOMAIN all : all[i].fingerprint = all[j].fingerprint => i = j
  PROVE  Len(all) = Cardinality(Fingerprints(ToSet(all)))
<1>. DEFINE T == Fingerprints(ToSet(all))
            f == [i \in DOMAIN all |-> all[i].fingerprint]
<1>1. Len(all) \in Nat /\ DOMAIN all = 1 .. Len(all)
  BY LenProperties
<1>2. IsFiniteSet(DOMAIN all) /\ Cardinality(DOMAIN all) = Len(all)
  BY <1>1, FS_Interval
<1>3. \A i \in DOMAIN all : f[i] = all[i].fingerprint
  OBVIOUS
<1>4. f \in [DOMAIN all -> T]
  BY DEF Fingerprints, ToSet
<1>5. \A t \in T : \E i \in DOMAIN all : f[i] = t
  <2>1. \A t \in T : \E i \in DOMAIN all : all[i].fingerprint = t
    BY DEF Fingerprints, ToSet
  <2>. HIDE DEF f, T
  <2>. QED  BY <1>3, <2>1
<1>. HIDE DEF f, T
<1>6. f \in Injection(DOMAIN all, T)
  BY <1>3, <1>4, Fun_IsInj
<1>7. f \in Surjection(DOMAIN all, T)
  BY <1>4, <1>5, Fun_IsSurj
<1>8. Cardinality(T) = Cardinality(DOMAIN all)
  BY <1>2, <1>6, <1>7, FS_Surjection
<1>. QED  BY <1>2, <1>8 DEF T

(* Each fingerprint stays, once.                                             *)
LEMMA DeduplicateProperties ==
  ASSUME NEW all \in Seq(Certs)
  PROVE  /\ deduplicate_certs(all) \in Seq(Certs)
         /\ ToSet(deduplicate_certs(all)) \subseteq ToSet(all)
         /\ Fingerprints(ToSet(deduplicate_certs(all))) = Fingerprints(ToSet(all))
         /\ \A i, j \in DOMAIN deduplicate_certs(all) :
              deduplicate_certs(all)[i].fingerprint = deduplicate_certs(all)[j].fingerprint => i = j
         /\ Len(deduplicate_certs(all)) = Cardinality(Fingerprints(ToSet(deduplicate_certs(all))))
<1>. DEFINE positions == {i \in DOMAIN all :
                           \A j \in 1 .. i - 1 : all[j].fingerprint # all[i].fingerprint}
            kept == deduplicate_certs(all)
<1>1. positions \in SUBSET DOMAIN all
  OBVIOUS
<1>2. kept = Kept(all, positions)
  BY DEF deduplicate_certs
<1>3. DOMAIN all = 1 .. Len(all) /\ Len(all) \in Nat
  BY LenProperties
<1>4. \A i \in positions : \A j \in 1 .. i - 1 : all[j].fingerprint # all[i].fingerprint
  OBVIOUS
<1>5. \A i \in DOMAIN all : \E k \in positions : all[k].fingerprint = all[i].fingerprint
  <2>1. SUFFICES ASSUME NEW i \in DOMAIN all
                 PROVE  \E k \in positions : all[k].fingerprint = all[i].fingerprint
    OBVIOUS
  <2>. DEFINE same == {k \in DOMAIN all : all[k].fingerprint = all[i].fingerprint}
  <2>2. same \subseteq Nat /\ same # {}
    BY <1>3
  <2>3. PICK k \in same : \A n \in same : k <= n
    BY <2>2, Smallest
  <2>4. \A j \in 1 .. k - 1 : j \notin same /\ j \in DOMAIN all
    BY <1>3, <2>2, <2>3
  <2>5. k \in positions
    BY <2>3, <2>4
  <2>. QED  BY <2>3, <2>5
<1>. HIDE DEF positions, kept
<1>6. /\ kept \in Seq(Certs) /\ ToSet(kept) = {all[i] : i \in positions}
      /\ DOMAIN kept = 1 .. Len(kept) /\ Len(kept) \in Nat
      /\ \E order \in [DOMAIN kept -> positions] :
           /\ \A n \in DOMAIN kept : kept[n] = all[order[n]]
           /\ \A m, n \in DOMAIN kept : m < n => order[m] < order[n]
  BY <1>1, <1>2, KeptProperties, SMTT(30)
<1>7. ToSet(kept) \subseteq ToSet(all)
  BY <1>1, <1>6 DEF ToSet
<1>8. Fingerprints(ToSet(kept)) = Fingerprints(ToSet(all))
  <2>1. Fingerprints(ToSet(kept)) \subseteq Fingerprints(ToSet(all))
    BY <1>7 DEF Fingerprints
  <2>2. ASSUME NEW x \in Fingerprints(ToSet(all)) PROVE x \in Fingerprints(ToSet(kept))
    <3>1. PICK i \in DOMAIN all : x = all[i].fingerprint
      BY <2>2 DEF Fingerprints, ToSet
    <3>2. PICK k \in positions : all[k].fingerprint = x
      BY <1>5, <3>1
    <3>3. all[k] \in ToSet(kept)
      BY <1>6
    <3>. QED  BY <3>2, <3>3 DEF Fingerprints
  <2>. QED  BY <2>1, <2>2
<1>9. \A i, j \in DOMAIN kept : kept[i].fingerprint = kept[j].fingerprint => i = j
  <2>1. PICK order \in [DOMAIN kept -> positions] :
          /\ \A n \in DOMAIN kept : kept[n] = all[order[n]]
          /\ \A m, n \in DOMAIN kept : m < n => order[m] < order[n]
    BY <1>6
  <2>2. ASSUME NEW m \in DOMAIN kept, NEW n \in DOMAIN kept, m < n
        PROVE  kept[m].fingerprint # kept[n].fingerprint
    <3>1. order[m] \in positions /\ order[n] \in positions /\ order[m] < order[n]
      BY <2>1, <2>2
    <3>2. order[m] \in 1 .. order[n] - 1
      BY <1>1, <1>3, <3>1
    <3>3. all[order[m]].fingerprint # all[order[n]].fingerprint
      BY <1>4, <3>1, <3>2
    <3>. QED  BY <2>1, <3>3
  <2>3. SUFFICES ASSUME NEW i \in DOMAIN kept, NEW j \in DOMAIN kept,
                        kept[i].fingerprint = kept[j].fingerprint
                 PROVE  i = j
    OBVIOUS
  <2>4. ~(i < j) /\ ~(j < i)
    BY <2>2, <2>3
  <2>. QED  BY <1>6, <2>4
<1>10. Len(kept) = Cardinality(Fingerprints(ToSet(kept)))
  BY <1>6, <1>9, CountedByFingerprint
<1>. QED  BY <1>6, <1>7, <1>8, <1>9, <1>10 DEF kept

-----------------------------------------------------------------------------
(***************************************************************************)
(* The parts of a message, as the code finds them and as RFC 5322 has it.  *)
(***************************************************************************)
LEMMA PartsProperties ==
  ASSUME NEW lines \in Seq(Lines)
  PROVE  /\ HeaderLines(lines) \subseteq DOMAIN lines
         /\ BodyLines(lines) \subseteq DOMAIN lines
         /\ \A class : FieldLines(lines, class) \subseteq DOMAIN lines
         /\ \A S \in SUBSET DOMAIN lines : S \subseteq Nat /\ IsFiniteSet(S)
<1>1. Len(lines) \in Nat /\ DOMAIN lines = 1 .. Len(lines)
  BY LenProperties
<1>2. HeaderLines(lines) \subseteq DOMAIN lines /\ BodyLines(lines) \subseteq DOMAIN lines
  <2>1. CASE Breaks(lines) = {}
    BY <2>1 DEF HeaderLines, BodyLines
  <2>2. CASE Breaks(lines) # {}
    <3>. DEFINE break == Min(Breaks(lines))
    <3>1. Breaks(lines) \subseteq 1 .. Len(lines) - 1
      BY DEF Breaks
    <3>2. Breaks(lines) \subseteq Nat
      BY <1>1, <3>1
    <3>3. break \in Breaks(lines)
      BY <2>2, <3>2, MinIsLeast
    <3>4. break \in 1 .. Len(lines) - 1
      BY <3>1, <3>3
    <3>5. /\ HeaderLines(lines) \subseteq 1 .. break
          /\ BodyLines(lines) = break + 2 .. Len(lines)
      BY <2>2 DEF HeaderLines, BodyLines
    <3>. HIDE DEF break
    <3>. QED  BY <1>1, <3>4, <3>5
  <2>. QED  BY <2>1, <2>2
<1>3. \A class : FieldLines(lines, class) \subseteq DOMAIN lines
  BY <1>2 DEF FieldLines, Block
<1>4. ASSUME NEW S \in SUBSET DOMAIN lines PROVE S \subseteq Nat /\ IsFiniteSet(S)
  <2>1. IsFiniteSet(DOMAIN lines)
    BY <1>1, FS_Interval
  <2>. QED  BY <1>1, <2>1, FS_Subset
<1>. QED  BY <1>2, <1>3, <1>4

(* The first line is neither empty nor folded.                               *)
BeginsPlainly(lines) == lines # <<>> /\ lines[1] \notin Folds \cup {"empty"}

LEMMA FieldBeginsPlainly ==
  ASSUME NEW lines, BeginsWithField(lines)
  PROVE  BeginsPlainly(lines)
BY DEF BeginsWithField, BeginsPlainly, Fields, Folds

LEMMA HeaderShape ==
  ASSUME NEW lines \in Seq(Lines), BeginsPlainly(lines)
  PROVE  /\ Len(lines) \in Nat /\ DOMAIN lines = 1 .. Len(lines)
         /\ HeaderEnd(lines) \in 1 .. Len(lines)
         /\ HeaderLines(lines) = 1 .. HeaderEnd(lines)
         /\ BodyLines(lines) = HeaderEnd(lines) + 2 .. Len(lines)
         /\ \A i \in 1 .. HeaderEnd(lines) : lines[i] # "empty"
         /\ HeaderEnd(lines) < Len(lines) => lines[HeaderEnd(lines) + 1] = "empty"
<1>0. PICK n \in Nat : n = Len(lines)
  BY LenProperties
<1>. DEFINE empties == {i \in DOMAIN lines : lines[i] = "empty"} \cup {n + 1}
            m       == Min(empties)
<1>1. DOMAIN lines = 1 .. n
  BY <1>0, LenProperties
<1>2. n # 0
  BY <1>0, EmptySeq DEF BeginsPlainly
<1>3. lines[1] # "empty" /\ 1 \in DOMAIN lines
  BY <1>1, <1>2 DEF BeginsPlainly
<1>4. empties \subseteq Nat /\ empties # {}
  BY <1>1
<1>5. HeaderEnd(lines) = m - 1
  BY <1>0 DEF HeaderEnd
<1>6. m \in empties /\ \A e \in empties : m <= e
  BY <1>4, MinIsLeast
<1>7. \A i : i \in empties <=> (i \in 1 .. n /\ lines[i] = "empty") \/ i = n + 1
  BY <1>1
<1>. HIDE DEF m, empties
<1>8. m \in 2 .. n + 1
  BY <1>1, <1>2, <1>3, <1>6, <1>7
<1>9. \A i \in 1 .. m - 1 : lines[i] # "empty"
  <2>1. SUFFICES ASSUME NEW i \in 1 .. m - 1, lines[i] = "empty" PROVE FALSE
    OBVIOUS
  <2>2. i \in empties /\ i < m
    BY <1>1, <1>7, <1>8, <2>1
  <2>. QED  BY <1>4, <1>6, <1>8, <2>2
<1>10. m - 1 < n => lines[(m - 1) + 1] = "empty"
  <2>1. m - 1 < n => m \in 1 .. n /\ m # n + 1 /\ (m - 1) + 1 = m
    BY <1>8
  <2>. QED  BY <1>6, <1>7, <2>1
<1>11. \A i : i \in Breaks(lines) <=> i \in 1 .. n - 1 /\ lines[i + 1] = "empty"
  BY <1>0 DEF Breaks
<1>12. CASE Breaks(lines) = {}
  <2>1. m = n + 1
    <3>1. SUFFICES ASSUME m # n + 1 PROVE FALSE
      OBVIOUS
    <3>2. m \in 2 .. n /\ lines[m] = "empty"
      BY <1>1, <1>6, <1>7, <1>8, <3>1
    <3>3. m - 1 \in 1 .. n - 1 /\ (m - 1) + 1 = m
      BY <1>1, <3>2
    <3>. QED  BY <1>11, <1>12, <3>2, <3>3
  <2>2. HeaderLines(lines) = DOMAIN lines /\ BodyLines(lines) = {}
    BY <1>12 DEF HeaderLines, BodyLines
  <2>. QED  BY <1>0, <1>1, <1>5, <1>8, <1>9, <1>10, <2>1, <2>2
<1>13. CASE Breaks(lines) # {}
  <2>. DEFINE break == Min(Breaks(lines))
  <2>1. Breaks(lines) \subseteq Nat
    BY <1>1, <1>11
  <2>2. break \in Breaks(lines) /\ \A i \in Breaks(lines) : break <= i
    BY <1>13, <2>1, MinIsLeast
  <2>3. /\ HeaderLines(lines) = IF break = 1 /\ lines[1] = "empty" THEN {} ELSE 1 .. break
        /\ BodyLines(lines) = break + 2 .. n
    BY <1>0, <1>13 DEF HeaderLines, BodyLines
  <2>. HIDE DEF break
  <2>4. break \in 1 .. n - 1 /\ lines[break + 1] = "empty"
    BY <1>11, <2>2
  <2>5. break + 1 \in empties
    BY <1>1, <1>7, <2>4
  <2>6. m <= break + 1
    BY <1>6, <2>5
  <2>7. m # n + 1 /\ m \in 2 .. n
    BY <1>1, <1>8, <2>4, <2>6
  <2>8. m - 1 \in Breaks(lines)
    <3>1. lines[m] = "empty" /\ m - 1 \in 1 .. n - 1 /\ (m - 1) + 1 = m
      BY <1>1, <1>6, <1>7, <2>7
    <3>. QED  BY <1>11, <3>1
  <2>9. break <= m - 1
    BY <2>2, <2>8
  <2>10. break = m - 1
    BY <2>4, <2>6, <2>7, <2>9
  <2>. QED  BY <1>0, <1>1, <1>3, <1>5, <1>8, <1>9, <1>10, <2>3, <2>10
<1>. QED  BY <1>12, <1>13

(* The blocks of a name are the lines of the fields of that class.           *)
LEMMA FieldLinesAreInHeader ==
  ASSUME NEW lines \in Seq(Lines), BeginsPlainly(lines), NEW class
  PROVE  FieldLines(lines, class) = InHeader(lines, class)
<1>. DEFINE end == HeaderEnd(lines)
<1>1. end \in Nat /\ end >= 1 /\ HeaderLines(lines) = 1 .. end
  BY HeaderShape
<1>2. lines[1] \notin Folds
  BY DEF BeginsPlainly
<1>3. \A h : h \in Heads(lines) <=> h \in 1 .. end /\ lines[h] \notin Folds
  BY <1>1 DEF Heads
<1>. HIDE DEF end
<1>4. ASSUME NEW i \in 1 .. end
      PROVE  /\ HeadOf(lines, i) \in Heads(lines) /\ HeadOf(lines, i) <= i
             /\ ClassOf(lines, i) = lines[HeadOf(lines, i)]
  <2>. DEFINE before == {h \in Heads(lines) : h <= i}
  <2>1. before = {1} \cup {h \in 1 .. i : lines[h] \notin Folds}
    BY <1>1, <1>2, <1>3
  <2>2. before \subseteq Nat /\ before # {} /\ i \in Nat /\ \A h \in before : h <= i
    BY <1>1, <1>2, <1>3
  <2>3. HeadOf(lines, i) = Max(before)
    BY DEF HeadOf
  <2>4. ClassOf(lines, i) = lines[Max(before)]
    BY <2>1 DEF ClassOf
  <2>5. Max(before) \in before
    BY <2>2, MaxIsGreatest
  <2>. QED  BY <2>3, <2>4, <2>5
<1>5. \A i : i \in InHeader(lines, class) <=> i \in 1 .. end /\ ClassOf(lines, i) = class
  BY DEF InHeader, end
<1>6. \A i : i \in FieldLines(lines, class) <=>
        \E h \in Heads(lines) : lines[h] = class /\ i \in Block(lines, h)
  BY DEF FieldLines
<1>7. \A h, i : i \in Block(lines, h) <=> i \in 1 .. end /\ h <= i /\ HeadOf(lines, i) = h
  BY <1>1 DEF Block, end
<1>8. \A i : i \in FieldLines(lines, class) <=> i \in InHeader(lines, class)
  BY <1>4, <1>5, <1>6, <1>7
<1>. QED  BY <1>8

(* A malformed message that begins with a field has a line of text in its    *)
(* header.                                                                   *)
LEMMA MalformedHasText ==
  ASSUME NEW lines \in Seq(Lines), BeginsWithField(lines), IsMalformed(lines)
  PROVE  \E i \in 1 .. HeaderEnd(lines) : lines[i] = "text"
<1>1. /\ HeaderLines(lines) = 1 .. HeaderEnd(lines) /\ HeaderEnd(lines) \in 1 .. Len(lines)
      /\ Len(lines) \in Nat /\ DOMAIN lines = 1 .. Len(lines)
      /\ \A i \in 1 .. HeaderEnd(lines) : lines[i] # "empty"
  BY HeaderShape, FieldBeginsPlainly
<1>2. lines[1] \notin Folds
  BY DEF BeginsWithField, Fields, Folds
<1>3. PICK h \in Heads(lines) : \A i \in Block(lines, h) : lines[i] \notin Fields \cup {"fold:"}
  BY <1>2 DEF IsMalformed
<1>4. h \in 1 .. HeaderEnd(lines) /\ lines[h] \notin Folds
  BY <1>1, <1>3 DEF Heads
<1>5. h \in Block(lines, h)
  <2>. DEFINE before == {g \in Heads(lines) : g <= h}
  <2>1. h \in Nat
    BY <1>1, <1>4
  <2>2. before \subseteq Nat /\ before # {} /\ \A g \in before : g <= h
    BY <1>1, <1>3, <2>1 DEF Heads
  <2>3. Max(before) \in before /\ \A g \in before : g <= Max(before)
    BY <2>1, <2>2, MaxIsGreatest
  <2>4. h \in before
    BY <1>3, <2>1
  <2>5. Max(before) = h
    BY <2>1, <2>2, <2>3, <2>4
  <2>. QED  BY <1>1, <1>4, <2>1, <2>5 DEF Block, HeadOf
<1>6. lines[h] \in Lines
  BY <1>1, <1>4, ElementOfSeq
<1>. QED  BY <1>1, <1>3, <1>4, <1>5, <1>6 DEF Lines, Fields, Folds

(* The recipients of the header of a message that begins with a field are not *)
(* read for a line of text in it, or for a field that is no list of addresses. *)
LEMMA UnreadableRecipients ==
  ASSUME NEW lines \in Seq(Lines), BeginsWithField(lines), NEW unparsed \in SUBSET DOMAIN lines,
         FALSE \in RecipientsParse(lines, unparsed)
  PROVE  \E i \in 1 .. HeaderEnd(lines) : lines[i] = "text" \/ i \in unparsed
<1>1. PICK n \in Nat, e \in Nat :
        /\ n = Len(lines) /\ e = HeaderEnd(lines) /\ e \in 1 .. n /\ DOMAIN lines = 1 .. n
        /\ e < n => lines[e + 1] = "empty"
  BY HeaderShape, FieldBeginsPlainly
<1>2. ASSUME NEW i \in ParsedHeader(lines) PROVE i \in 1 .. e
  <2>1. i \in 1 .. n /\ \A j \in 1 .. i : lines[j] # "empty"
    BY <1>1, <1>2 DEF ParsedHeader
  <2>2. ~(e < i)
    <3>1. e < i => e < n /\ e + 1 \in 1 .. i
      BY <1>1, <2>1
    <3>. QED  BY <1>1, <2>1, <3>1
  <2>. QED  BY <1>1, <2>1, <2>2
<1>3. lines[1] \notin Folds
  BY DEF BeginsWithField, Fields, Folds
<1>4. CASE \E i \in ParsedHeader(lines) : lines[i] = "text" \/ (i = 1 /\ lines[i] \in Folds)
  BY <1>1, <1>2, <1>3, <1>4
<1>5. CASE ~ \E i \in ParsedHeader(lines) : lines[i] = "text" \/ (i = 1 /\ lines[i] \in Folds)
  <2>1. unparsed \cap ParsedHeader(lines) # {}
    BY <1>5, Zenon DEF RecipientsParse
  <2>. QED  BY <1>1, <1>2, <2>1
<1>. QED  BY <1>4, <1>5

(* A well formed message has its fields of the allow list in its header,     *)
(* whatever it begins with, unless that is an empty line and then a folded   *)
(* one.                                                                      *)
LEMMA AllowedFieldsAreInHeader ==
  ASSUME NEW lines \in Seq(Lines), ~IsMalformed(lines),
         ~(Len(lines) >= 2 /\ lines[1] = "empty" /\ lines[2] \in Folds),
         NEW p \in FieldLines(lines, "allowed")
  PROVE  p \in InHeader(lines, "allowed")
<1>1. PICK n \in Nat : n = Len(lines) /\ DOMAIN lines = 1 .. n
  BY LenProperties
<1>2. p \in HeaderLines(lines) /\ p \in 1 .. n
  BY <1>1, PartsProperties DEF FieldLines, Block
<1>3. 1 \in 1 .. n /\ lines # <<>>
  BY <1>1, <1>2, EmptySeq
<1>4. \A i : i \in Breaks(lines) <=> i \in 1 .. n - 1 /\ lines[i + 1] = "empty"
  BY <1>1 DEF Breaks
<1>. DEFINE break == Min(Breaks(lines))
<1>5. Breaks(lines) # {} => break \in Breaks(lines) /\ \A i \in Breaks(lines) : break <= i
  <2>1. Breaks(lines) \subseteq Nat
    BY <1>1, <1>4
  <2>. QED  BY <2>1, MinIsLeast
<1>6. HeaderLines(lines) = IF Breaks(lines) = {} THEN 1 .. n
                           ELSE IF break = 1 /\ lines[1] = "empty" THEN {} ELSE 1 .. break
  BY <1>1 DEF HeaderLines
<1>. HIDE DEF break
<1>7. 1 \in HeaderLines(lines) /\ HeaderLines(lines) \subseteq Nat
  <2>1. Breaks(lines) # {} => break \in 1 .. n - 1
    BY <1>4, <1>5
  <2>. QED  BY <1>2, <1>3, <1>6, <2>1
<1>8. lines[1] \notin Folds
  BY <1>7 DEF IsMalformed
<1>9. lines[1] # "empty"
  <2>1. SUFFICES ASSUME lines[1] = "empty" PROVE FALSE
    OBVIOUS
  <2>2. n >= 2 => lines[2] \notin Folds
    BY <1>1, <2>1
  <2>3. n >= 2 => lines[2] # "empty"
    <3>1. SUFFICES ASSUME n >= 2, lines[2] = "empty" PROVE FALSE
      OBVIOUS
    <3>2. 1 \in Breaks(lines)
      BY <1>4, <3>1
    <3>3. break = 1
      BY <1>4, <1>5, <3>2
    <3>. QED  BY <1>2, <1>6, <2>1, <3>2, <3>3
  <2>4. n >= 2 => 2 \in HeaderLines(lines)
    <3>1. n >= 2 /\ Breaks(lines) # {} => break \in 1 .. n - 1 /\ break # 1
      BY <1>4, <1>5, <2>3
    <3>. QED  BY <1>6, <3>1
  <2>5. 1 \in Heads(lines) /\ (n >= 2 => 2 \in Heads(lines))
    BY <1>7, <1>8, <2>2, <2>4 DEF Heads
  <2>6. ASSUME NEW i \in Block(lines, 1) PROVE i = 1
    <3>. DEFINE before == {h \in Heads(lines) : h <= i}
    <3>1. i \in HeaderLines(lines) /\ Max(before) = 1
      BY <2>6 DEF Block, HeadOf
    <3>2. i \in 1 .. n /\ Heads(lines) \subseteq Nat
      BY <1>1, <1>7, <3>1, PartsProperties DEF Heads
    <3>3. SUFFICES ASSUME i # 1 PROVE FALSE
      OBVIOUS
    <3>4. 2 \in before
      BY <2>5, <3>2, <3>3
    <3>5. before \subseteq Nat /\ i \in Nat /\ \A h \in before : h <= i
      BY <3>2
    <3>. HIDE DEF before
    <3>6. \A h \in before : h <= Max(before)
      BY <3>4, <3>5, MaxIsGreatest
    <3>. QED  BY <3>1, <3>4, <3>6
  <2>7. \A i \in Block(lines, 1) : lines[i] \notin Fields \cup {"fold:"}
    BY <2>1, <2>6 DEF Fields
  <2>. QED  BY <2>5, <2>7 DEF IsMalformed
<1>. QED  BY <1>3, <1>8, <1>9, FieldLinesAreInHeader DEF BeginsPlainly

(* What is encrypted consists of lines of the message, and of empty lines.   *)
LEMMA PlaintextLines ==
  ASSUME NEW lines \in Seq(Lines), NEW mode
  PROVE  /\ plaintext_for_encryption(lines, mode) \in Seq({0} \cup DOMAIN lines)
         /\ ToSet(plaintext_for_encryption(lines, mode)) \subseteq {0} \cup DOMAIN lines
         /\ ToSet(OuterHeader(lines)) = FieldLines(lines, "allowed")
<1>. DEFINE P == {0} \cup DOMAIN lines
<1>1. ASSUME NEW S \in SUBSET DOMAIN lines
      PROVE  InOrder(S) \in Seq(P) /\ ToSet(InOrder(S)) = S
  <2>1. S \subseteq Nat /\ IsFiniteSet(S)
    BY PartsProperties
  <2>2. InOrder(S) \in Seq(S) /\ ToSet(InOrder(S)) = S
    BY <2>1, InOrderProperties
  <2>. QED  BY <2>2, SeqMonotonic
<1>2. FieldLines(lines, "content") \in SUBSET DOMAIN lines /\ BodyLines(lines) \in SUBSET DOMAIN lines
      /\ FieldLines(lines, "allowed") \in SUBSET DOMAIN lines /\ DOMAIN lines \in SUBSET DOMAIN lines
  BY PartsProperties
<1>. DEFINE fields == InOrder(FieldLines(lines, "content"))
            gap    == IF FieldLines(lines, "content") = {} THEN <<>> ELSE <<0>>
            body   == InOrder(BodyLines(lines))
            all    == InOrder(DOMAIN lines)
<1>3. fields \in Seq(P) /\ body \in Seq(P) /\ all \in Seq(P)
  BY <1>1, <1>2
<1>4. gap \in Seq(P)
  BY EmptySeq, OneElement
<1>5. plaintext_for_encryption(lines, mode) = IF mode = "full_message" THEN all ELSE fields \o gap \o body
  BY DEF plaintext_for_encryption, PgpMimeBody
<1>6. ToSet(OuterHeader(lines)) = FieldLines(lines, "allowed")
  BY <1>1, <1>2 DEF OuterHeader
<1>. HIDE DEF fields, gap, body, all
<1>7. fields \o gap \in Seq(P)
  BY <1>3, <1>4, ConcatProperties
<1>8. (fields \o gap) \o body \in Seq(P)
  BY <1>3, <1>7, ConcatProperties
<1>9. plaintext_for_encryption(lines, mode) \in Seq(P)
  BY <1>3, <1>5, <1>8
<1>. HIDE DEF P
<1>10. ToSet(plaintext_for_encryption(lines, mode)) \subseteq P
  BY <1>9, LenProperties, ElementOfSeq DEF ToSet
<1>. QED  BY <1>6, <1>9, <1>10 DEF P

(* Three lists put together: the first two, and what follows.                *)
LEMMA AroundTheGap ==
  ASSUME NEW P, 0 \in P, NEW fields \in Seq(P), NEW body \in Seq(P),
         \A i \in DOMAIN fields : fields[i] # 0
  PROVE  LET text == fields \o <<0>> \o body
             break == SelectInSeq(text, LAMBDA p : p = 0)
         IN  /\ SubSeq(text, 1, break - 1) = fields
             /\ SubSeq(text, break + 1, Len(text)) = body
<1>0. PICK n \in Nat, m \in Nat : n = Len(fields) /\ m = Len(body)
  BY LenProperties
<1>. DEFINE text  == fields \o <<0>> \o body
            head  == fields \o <<0>>
            break == SelectInSeq(text, LAMBDA p : p = 0)
            zeros == {i \in 1 .. Len(text) : text[i] = 0}
<1>1. DOMAIN fields = 1 .. n /\ DOMAIN body = 1 .. m
  BY <1>0, LenProperties
<1>2. <<0>> \in Seq(P) /\ Len(<<0>>) = 1 /\ <<0>>[1] = 0
  BY OneElement
<1>3. /\ head \in Seq(P) /\ Len(head) = n + 1
      /\ \A i \in 1 .. n + 1 : head[i] = IF i <= n THEN fields[i] ELSE <<0>>[i - n]
  BY <1>0, <1>2, ConcatProperties
<1>4. head[n + 1] = 0 /\ \A i \in 1 .. n : head[i] = fields[i]
  BY <1>2, <1>3
<1>5. text = head \o body
  OBVIOUS
<1>. HIDE DEF head
<1>6. /\ text \in Seq(P) /\ Len(text) = n + 1 + m
      /\ \A i \in 1 .. n + 1 + m : text[i] = IF i <= n + 1 THEN head[i] ELSE body[i - (n + 1)]
  BY <1>0, <1>3, <1>5, ConcatProperties
<1>7. break = IF zeros # {} THEN Min(zeros) ELSE 0
  BY DEF SelectInSeq
<1>. HIDE DEF text, break
<1>8. /\ \A i \in 1 .. n : text[i] = fields[i] /\ text[i] # 0
      /\ text[n + 1] = 0
      /\ \A i \in 1 .. m : text[n + 1 + i] = body[i]
  BY <1>1, <1>4, <1>6, SMTT(30)
<1>9. /\ \A i : i \in zeros <=> i \in 1 .. n + 1 + m /\ text[i] = 0
  BY <1>6
<1>. HIDE DEF zeros
<1>10. zeros \subseteq Nat /\ n + 1 \in zeros
  BY <1>8, <1>9
<1>11. Min(zeros) \in zeros /\ \A i \in zeros : Min(zeros) <= i
  BY <1>10, MinIsLeast
<1>12. break = n + 1
  <2>1. Min(zeros) \in 1 .. n + 1
    BY <1>9, <1>10, <1>11
  <2>2. Min(zeros) \notin 1 .. n
    BY <1>8, <1>9, <1>11
  <2>. QED  BY <1>7, <1>10, <2>1, <2>2
<1>13. SubSeq(text, 1, n) = fields
  <2>1. \A i \in 1 .. n : text[i] \in P
    BY <1>1, <1>8, <1>0, ElementOfSeq
  <2>2. /\ SubSeq(text, 1, n) \in Seq(P) /\ Len(SubSeq(text, 1, n)) = n
        /\ \A i \in 1 .. n : SubSeq(text, 1, n)[i] = fields[i]
    BY <1>8, <2>1, SubSeqProperties
  <2>. QED  BY <1>0, <2>2, SeqEqual
<1>14. SubSeq(text, n + 2, n + 1 + m) = body
  <2>1. \A i \in n + 2 .. n + 1 + m : text[i] \in P
    BY <1>6, ElementOfSeq
  <2>2. /\ SubSeq(text, n + 2, n + 1 + m) \in Seq(P) /\ Len(SubSeq(text, n + 2, n + 1 + m)) = m
        /\ \A i \in 1 .. m : SubSeq(text, n + 2, n + 1 + m)[i] = text[n + 2 + i - 1]
    BY <2>1, SubSeqProperties
  <2>3. \A i \in 1 .. m : SubSeq(text, n + 2, n + 1 + m)[i] = body[i]
    BY <1>8, <2>2
  <2>. QED  BY <1>0, <2>2, <2>3, SeqEqual
<1>15. break - 1 = n /\ break + 1 = n + 2
  BY <1>12
<1>. QED  BY <1>6, <1>13, <1>14, <1>15 DEF text, break

(* What DecryptsToTheSubmission says of a message and a mode.                *)
BodyOf(lines) ==
  [i \in 1 .. Len(lines) - HeaderEnd(lines) - 1 |-> HeaderEnd(lines) + 1 + i]

LEMMA DecryptsBody ==
  ASSUME NEW lines \in Seq(Lines), BeginsWithField(lines)
  PROVE  /\ InOrder(BodyLines(lines)) = BodyOf(lines)
         /\ InOrder(DOMAIN lines) = [i \in DOMAIN lines |-> i]
         /\ InOrder({}) = <<>>
<1>1. PICK n \in Nat, e \in Nat :
        /\ n = Len(lines) /\ e = HeaderEnd(lines) /\ e \in 1 .. n /\ DOMAIN lines = 1 .. n
        /\ BodyLines(lines) = e + 2 .. n
  BY HeaderShape, FieldBeginsPlainly
<1>2. InOrder(e + 2 .. n) = [i \in 1 .. n - e - 1 |-> e + 1 + i]
  <2>2. CASE e = n
    <3>1. e + 2 .. n = {} /\ 1 .. n - e - 1 = {} /\ Cardinality({}) = 0
      BY <1>1, <2>2, FS_EmptySet
    <3>. QED  BY <3>1 DEF InOrder
  <2>3. CASE e # n
    <3>1. e + 2 \in Nat /\ n \in Int /\ e + 2 <= n + 1
      BY <1>1, <2>3
    <3>2. InOrder(e + 2 .. n) = [i \in 1 .. n - (e + 2) + 1 |-> (e + 2) + i - 1]
      BY <3>1, InOrderInterval
    <3>3. n - (e + 2) + 1 = n - e - 1 /\ \A i \in 1 .. n - e - 1 : (e + 2) + i - 1 = e + 1 + i
      BY <1>1
    <3>. QED  BY <3>2, <3>3
  <2>. QED  BY <2>2, <2>3
<1>3. InOrder(1 .. n) = [i \in 1 .. n |-> i]
  <2>1. InOrder(1 .. n) = [i \in 1 .. n - 1 + 1 |-> 1 + i - 1]
    BY <1>1, InOrderInterval
  <2>. QED  BY <1>1, <2>1
<1>4. InOrder({}) = <<>>
  <2>1. {} \subseteq Nat /\ IsFiniteSet({}) /\ Cardinality({}) = 0
    BY FS_EmptySet
  <2>2. InOrder({}) \in Seq({}) /\ Len(InOrder({})) = 0
    BY <2>1, InOrderProperties
  <2>. QED  BY <2>2, EmptySeq
<1>. QED  BY <1>1, <1>2, <1>3, <1>4 DEF BodyOf

LEMMA DecryptsParts ==
  ASSUME NEW lines \in Seq(Lines), BeginsWithField(lines), InHeader(lines, "content") # {}
  PROVE  LET text  == PgpMimeBody(lines)
             break == SelectInSeq(text, LAMBDA p : p = 0)
         IN  /\ ToSet(SubSeq(text, 1, break - 1)) = InHeader(lines, "content")
             /\ SubSeq(text, break + 1, Len(text)) = BodyOf(lines)
<1>. DEFINE P      == {0} \cup DOMAIN lines
            fields == InOrder(FieldLines(lines, "content"))
            body   == InOrder(BodyLines(lines))
<1>1. FieldLines(lines, "content") = InHeader(lines, "content")
  BY FieldLinesAreInHeader, FieldBeginsPlainly
<1>2. /\ FieldLines(lines, "content") \in SUBSET DOMAIN lines
      /\ BodyLines(lines) \in SUBSET DOMAIN lines
      /\ \A S \in SUBSET DOMAIN lines : S \subseteq Nat /\ IsFiniteSet(S)
  BY PartsProperties
<1>3. /\ fields \in Seq(FieldLines(lines, "content")) /\ ToSet(fields) = FieldLines(lines, "content")
      /\ body \in Seq(BodyLines(lines))
  BY <1>2, InOrderProperties
<1>4. fields \in Seq(P) /\ body \in Seq(P)
  BY <1>2, <1>3, SeqMonotonic
<1>5. 0 \in P /\ \A i \in FieldLines(lines, "content") : i # 0
  BY <1>2, LenProperties
<1>6. PgpMimeBody(lines) = fields \o <<0>> \o body
  BY <1>1 DEF PgpMimeBody
<1>7. body = BodyOf(lines)
  BY DecryptsBody
<1>. HIDE DEF fields, body, P
<1>8. \A i \in DOMAIN fields : fields[i] # 0
  BY <1>3, <1>5 DEF ToSet
<1>. DEFINE text  == fields \o <<0>> \o body
            break == SelectInSeq(text, LAMBDA p : p = 0)
<1>9. SubSeq(text, 1, break - 1) = fields /\ SubSeq(text, break + 1, Len(text)) = body
  BY <1>4, <1>5, <1>8, AroundTheGap
<1>. QED  BY <1>1, <1>3, <1>6, <1>7, <1>9

-----------------------------------------------------------------------------
(***************************************************************************)
(* The keys there are.                                                     *)
(***************************************************************************)
LEMMA CaseProperties ==
  ASSUME case \in Cases
  PROVE  /\ case.files \in [DOMAIN case.files ->
              [kind : {"regular", "symlink"}, sound : BOOLEAN, certs : Seq(Certs)]]
         /\ DOMAIN case.files \subseteq Nat /\ IsFiniteSet(DOMAIN case.files)
         /\ case.key_files \in Seq(DOMAIN case.files)
         /\ case.key_directories \in Seq(SUBSET DOMAIN case.files)
         /\ case.answers \in [ToSet(KeyServices) ->
              [status : {"ok", "none", "error", "disabled"}, certs : Seq(Certs)]]
         /\ case.recipients \in Seq(Name)
         /\ case.lines \in Seq(Lines)
         /\ case.unparsed \subseteq
              {i \in DOMAIN case.lines : case.lines[i] \in {"allowed", "other"}}
         /\ case.mode \in Modes
BY EncryptedDeliveryAssumption, Zenon

LEMMA Services ==
  ToSet(KeyServices) = {"advanced", "direct", "keyserver"}
<1>. DEFINE s == KeyServices
<1>1. DOMAIN s = {1, 2, 3}
  BY DEF KeyServices
<1>2. s[1] = "advanced" /\ s[2] = "direct" /\ s[3] = "keyserver"
  BY DEF KeyServices
<1>. HIDE DEF s
<1>3. ToSet(s) = {"advanced", "direct", "keyserver"}
  BY <1>1, <1>2 DEF ToSet
<1>. QED  BY <1>3 DEF s

LEMMA KeyFilesProperties ==
  ASSUME case \in Cases
  PROVE  /\ KeyFiles \in Seq(DOMAIN case.files)
         /\ ToSet(KeyFiles) \subseteq DOMAIN case.files
<1>. DEFINE all     == DOMAIN case.files
            dirs    == case.key_directories
            Read(i) == read_directory_files(dirs[i])
            lists   == [i \in DOMAIN dirs |-> Read(i)]
<1>1. /\ all \subseteq Nat /\ IsFiniteSet(all) /\ dirs \in Seq(SUBSET all)
      /\ case.key_files \in Seq(all)
  BY CaseProperties
<1>2. Len(dirs) \in Nat /\ DOMAIN dirs = 1 .. Len(dirs)
  BY <1>1, LenProperties
<1>3. ASSUME NEW i \in DOMAIN dirs
      PROVE  Read(i) \in Seq(all)
  <2>. DEFINE regular == {f \in dirs[i] : case.files[f].kind = "regular"}
  <2>1. dirs[i] \in SUBSET all
    BY <1>1, <1>2, ElementOfSeq
  <2>2. regular \subseteq all
    BY <2>1
  <2>3. regular \subseteq Nat /\ IsFiniteSet(regular)
    BY <1>1, <2>2, FS_Subset
  <2>4. Read(i) = InOrder(regular)
    BY DEF read_directory_files
  <2>. HIDE DEF regular
  <2>5. InOrder(regular) \in Seq(regular)
    BY <2>3, InOrderProperties
  <2>. QED  BY <2>2, <2>4, <2>5, SeqMonotonic
<1>. HIDE DEF Read
<1>4. lists \in Seq(Seq(all))
  BY <1>2, <1>3, SeqDef
<1>5. FlattenSeq(lists) \in Seq(all)
  BY <1>4, FlattenProperties
<1>6. KeyFiles = case.key_files \o FlattenSeq(lists)
  BY DEF KeyFiles, Read
<1>7. KeyFiles \in Seq(all)
  BY <1>1, <1>5, <1>6, ConcatProperties
<1>. QED  BY <1>7, ElementsOfList

(* What a key service is asked for: the certificates it sends of the         *)
(* recipient, if it answers with some.                                       *)
LEMMA FetchedProperties ==
  ASSUME case \in Cases, NEW service \in ToSet(KeyServices), NEW r
  PROVE  /\ \A all \in Fetched(service, r) \ {<<>>} :
              /\ all \in Seq(Certs) /\ all # <<>>
              /\ ToSet(all) \subseteq Of(r, InAnswers)
         /\ Fetched(service, r) \ {<<>>} = {} /\ case.answers[service].status = "ok" =>
                Of(r, ToSet(case.answers[service].certs)) = {}
<1>. DEFINE answer == case.answers[service]
            mine   == filter_certs_for_email(answer.certs, r)
<1>1. /\ case.answers \in [ToSet(KeyServices) ->
              [status : {"ok", "none", "error", "disabled"}, certs : Seq(Certs)]]
  BY CaseProperties
<1>2. answer.certs \in Seq(Certs) /\ answer.status \in {"ok", "none", "error", "disabled"}
  BY <1>1
<1>3. mine \in Seq(Certs) /\ ToSet(mine) = Of(r, ToSet(answer.certs))
  BY <1>2, FilterProperties
<1>4. mine = <<>> => ToSet(mine) = {}
  BY <1>3, NoElements
<1>5. Fetched(service, r) =
        CASE answer.status \in {"none", "disabled"} -> {<<>>}
          [] answer.status = "ok" /\ mine # <<>> -> {mine}
          [] OTHER -> {}
  BY DEF Fetched
<1>6. answer.status = "ok" => ToSet(answer.certs) \subseteq InAnswers
  BY DEF InAnswers
<1>. HIDE DEF mine
<1>7. \A all \in Fetched(service, r) \ {<<>>} :
        answer.status = "ok" /\ mine # <<>> /\ all = mine
  BY <1>2, <1>5
<1>8. answer.status = "ok" => Of(r, ToSet(answer.certs)) \subseteq Of(r, InAnswers)
  BY <1>6 DEF Of
<1>9. \A all \in Fetched(service, r) \ {<<>>} :
        /\ all \in Seq(Certs) /\ all # <<>>
        /\ ToSet(all) \subseteq Of(r, InAnswers)
  BY <1>3, <1>7, <1>8
<1>10. answer.status = "ok" /\ mine # <<>> => mine \in Fetched(service, r) \ {<<>>}
  BY <1>5
<1>11. ASSUME Fetched(service, r) \ {<<>>} = {}, answer.status = "ok"
       PROVE  Of(r, ToSet(answer.certs)) = {}
  BY <1>3, <1>4, <1>10, <1>11
<1>. QED  BY <1>9, <1>11

(* A certificate of the recipient is found wherever there is one, and no     *)
(* other.                                                                    *)
LEMMA ResolutionProperties ==
  ASSUME case \in Cases, TypeOK, Indexing, IndexComplete, pc = "resolve", NEW r \in Name
  PROVE  /\ \A all \in Resolution(r) :
              /\ all \in Seq(Certs) /\ all # <<>>
              /\ ToSet(all) \subseteq Of(r, InFiles \cup InAnswers)
         /\ Resolution(r) = {} => Of(r, InFiles \cup InAnswers) = {}
<1>. DEFINE all       == local_index[r]
            Found(s)  == Fetched(s, r) \ {<<>>}
            Missed(s) == case.answers[s].status = "ok" => Of(r, ToSet(case.answers[s].certs)) = {}
<1>1. /\ all \in Seq(Certs) /\ ToSet(all) \subseteq Of(r, InFiles)
      /\ Fingerprints(ToSet(all)) = Fingerprints(Of(r, InFiles))
  BY DEF TypeOK, Indexing, IndexComplete
<1>2. all = <<>> => Of(r, InFiles) = {}
  BY <1>1, NoElements DEF Fingerprints
<1>3. \A s \in ToSet(KeyServices) :
        /\ \A one \in Found(s) :
             one \in Seq(Certs) /\ one # <<>> /\ ToSet(one) \subseteq Of(r, InAnswers)
        /\ Found(s) = {} => Missed(s)
  BY FetchedProperties
<1>4. Resolution(r) = IF all # <<>> THEN {all}
                      ELSE IF Found("advanced") # {} THEN Found("advanced")
                      ELSE IF Found("direct") # {} THEN Found("direct")
                      ELSE Found("keyserver")
  BY DEF Resolution
<1>5. Of(r, InFiles \cup InAnswers) = Of(r, InFiles) \cup Of(r, InAnswers)
  BY DEF Of
<1>6. (\A s \in ToSet(KeyServices) : Missed(s)) => Of(r, InAnswers) = {}
  BY DEF Of, InAnswers
<1>. HIDE DEF all, Found, Missed
<1>7. \A one \in Resolution(r) :
        (one = all /\ all # <<>>) \/ \E s \in ToSet(KeyServices) : one \in Found(s)
  BY <1>4, Services
<1>8. Resolution(r) = {} => all = <<>> /\ \A s \in ToSet(KeyServices) : Found(s) = {}
  BY <1>4, Services
<1>9. Resolution(r) = {} => Of(r, InFiles \cup InAnswers) = {}
  BY <1>2, <1>3, <1>5, <1>6, <1>8
<1>10. ASSUME NEW one \in Resolution(r)
       PROVE  one \in Seq(Certs) /\ one # <<>> /\ ToSet(one) \subseteq Of(r, InFiles \cup InAnswers)
  <2>1. CASE one = all /\ all # <<>>
    BY <1>1, <1>5, <2>1
  <2>2. CASE \E s \in ToSet(KeyServices) : one \in Found(s)
    BY <1>3, <1>5, <2>2
  <2>. QED  BY <1>7, <2>1, <2>2
<1>. QED  BY <1>9, <1>10

-----------------------------------------------------------------------------
(***************************************************************************)
(* The invariant holds at first, and every step keeps it.                  *)
(***************************************************************************)
LEMMA SameKeys ==
  ASSUME case' = case
  PROVE  KeyFiles' = KeyFiles /\ InFiles' = InFiles /\ InAnswers' = InAnswers
<1>1. KeyFiles' = KeyFiles
  BY DEF KeyFiles, read_directory_files
<1>. QED  BY <1>1 DEF InFiles, InAnswers

LEMMA InitHolds == Init => IInv
<1>. SUFFICES ASSUME Init PROVE IInv
  OBVIOUS
<1>1. /\ case \in Cases /\ pc = "index" /\ files = KeyFiles /\ local_index = [n \in Name |-> <<>>]
      /\ resolved = 0 /\ certs = <<>> /\ plaintext = <<>> /\ outer = <<>>
  BY DEF Init
<1>2. <<>> \in Seq(Certs) /\ ToSet(<<>>) = {}
  BY EmptyList
<1>3. KeyFiles \in Seq(DOMAIN case.files)
  BY <1>1, KeyFilesProperties
<1>4. Len(case.recipients) \in Nat
  BY <1>1, CaseProperties, LenProperties
<1>5. TypeOK
  BY <1>1, <1>2, <1>3, <1>4 DEF TypeOK
<1>6. Indexing
  BY <1>1, <1>2 DEF Indexing
<1>7. Collected
  BY <1>1, <1>2 DEF Collected
<1>8. Composed /\ IndexComplete /\ EachKeyOnce /\ PreparationRefusedForCause
  BY <1>1 DEF Composed, IndexComplete, EachKeyOnce, PreparationRefusedForCause
<1>. QED  BY <1>1, <1>5, <1>6, <1>7, <1>8 DEF IInv

LEMMA IndexFileHolds ==
  ASSUME IInv, IndexFile
  PROVE  IInv'
<1>. DEFINE f       == Head(files)
            all     == case.files[f].certs
            new(n)  == filter_certs_for_email(all, n)
<1>1. /\ pc = "index" /\ files # <<>>
      /\ case' = case /\ resolved' = resolved /\ certs' = certs
      /\ plaintext' = plaintext /\ outer' = outer
  BY DEF IndexFile
<1>2. /\ TypeOK /\ case \in Cases /\ Indexing /\ IndexComplete /\ Collected /\ Composed
      /\ EachKeyOnce /\ PreparationRefusedForCause
  BY DEF IInv
<1>3. KeyFiles' = KeyFiles /\ InFiles' = InFiles /\ InAnswers' = InAnswers
  BY <1>1, SameKeys
<1>4. /\ files \in Seq(DOMAIN case.files)
      /\ local_index \in [Name -> Seq(Certs)]
  BY <1>2 DEF TypeOK
<1>5. /\ f \in DOMAIN case.files
      /\ Tail(files) \in Seq(DOMAIN case.files)
      /\ ToSet(files) = {f} \cup ToSet(Tail(files))
  BY <1>1, <1>4, HeadAndTail
<1>6. all \in Seq(Certs)
  BY <1>2, <1>5, CaseProperties
<1>7. \A n \in Name : new(n) \in Seq(Certs) /\ ToSet(new(n)) = Of(n, ToSet(all))
  BY <1>6, FilterProperties
<1>8. pc' \in {"index", "failed"}
  BY <1>1 DEF IndexFile
<1>9. \/ /\ files' = Tail(files) /\ pc' = pc
         /\ local_index' = [n \in Name |-> local_index[n] \o new(n)]
      \/ pc' = "failed" /\ files' = files /\ local_index' = local_index
  BY DEF IndexFile
<1>. HIDE DEF f, new
<1>10. ASSUME files' = Tail(files), pc' = pc,
              local_index' = [n \in Name |-> local_index[n] \o new(n)]
       PROVE  TypeOK' /\ Indexing'
  <2>1. \A n \in Name : /\ local_index'[n] \in Seq(Certs)
                        /\ ToSet(local_index'[n]) = ToSet(local_index[n]) \cup Of(n, ToSet(all))
    BY <1>4, <1>7, <1>10, ToSetOfConcat
  <2>2. TypeOK'
    BY <1>1, <1>2, <1>5, <1>10, <2>1 DEF TypeOK
  <2>3. ToSet(files) \subseteq ToSet(KeyFiles) /\ f \in ToSet(KeyFiles)
    BY <1>1, <1>2, <1>5 DEF Indexing
  <2>4. ToSet(all) \subseteq InFiles
    BY <2>3 DEF InFiles
  <2>5. \A n \in Name : ToSet(local_index'[n]) \subseteq Of(n, InFiles)
    BY <1>2, <2>1, <2>4 DEF Indexing, Of
  <2>6. ASSUME NEW n \in Name, NEW g \in ToSet(KeyFiles) \ ToSet(Tail(files))
        PROVE  Of(n, ToSet(case.files[g].certs)) \subseteq ToSet(local_index'[n])
    <3>1. CASE g = f
      BY <2>1, <3>1
    <3>2. CASE g # f
      <4>1. g \in ToSet(KeyFiles) \ ToSet(files)
        BY <1>5, <3>2
      <4>2. Of(n, ToSet(case.files[g].certs)) \subseteq ToSet(local_index[n])
        BY <1>1, <1>2, <4>1 DEF Indexing
      <4>. QED  BY <2>1, <4>2
    <3>. QED  BY <3>1, <3>2
  <2>7. Indexing'
    BY <1>1, <1>3, <1>5, <1>10, <2>3, <2>5, <2>6 DEF Indexing
  <2>. QED  BY <2>2, <2>7
<1>11. ASSUME pc' = "failed", files' = files, local_index' = local_index
       PROVE  TypeOK' /\ Indexing'
  <2>1. TypeOK'
    BY <1>1, <1>2, <1>11 DEF TypeOK
  <2>2. Indexing'
    BY <1>1, <1>2, <1>3, <1>11 DEF Indexing
  <2>. QED  BY <2>1, <2>2
<1>12. TypeOK' /\ Indexing'
  BY <1>9, <1>10, <1>11
<1>13. IndexComplete' /\ EachKeyOnce' /\ PreparationRefusedForCause'
  BY <1>8 DEF IndexComplete, EachKeyOnce, PreparationRefusedForCause
<1>14. Collected'
  BY <1>1, <1>2, <1>3 DEF Collected
<1>15. Composed'
  BY <1>1, <1>2, <1>8 DEF Composed
<1>. QED  BY <1>1, <1>2, <1>12, <1>13, <1>14, <1>15 DEF IInv

LEMMA FinishIndexHolds ==
  ASSUME IInv, FinishIndex
  PROVE  IInv'
<1>1. /\ pc = "index" /\ files = <<>> /\ pc' = "ready"
      /\ local_index' = [n \in Name |-> deduplicate_certs(local_index[n])]
      /\ case' = case /\ files' = files /\ resolved' = resolved /\ certs' = certs
      /\ plaintext' = plaintext /\ outer' = outer
  BY DEF FinishIndex
<1>2. /\ TypeOK /\ case \in Cases /\ Indexing /\ IndexComplete /\ Collected /\ Composed
      /\ EachKeyOnce /\ PreparationRefusedForCause
  BY DEF IInv
<1>3. KeyFiles' = KeyFiles /\ InFiles' = InFiles /\ InAnswers' = InAnswers
  BY <1>1, SameKeys
<1>4. \A n \in Name : local_index[n] \in Seq(Certs)
  BY <1>2 DEF TypeOK
<1>5. ToSet(files) = {}
  BY <1>1, EmptyList
<1>6. \A n \in Name : ToSet(local_index[n]) = Of(n, InFiles)
  <2>1. \A n \in Name : ToSet(local_index[n]) \subseteq Of(n, InFiles)
    BY <1>2 DEF Indexing
  <2>2. \A n \in Name : \A f \in ToSet(KeyFiles) :
          Of(n, ToSet(case.files[f].certs)) \subseteq ToSet(local_index[n])
    BY <1>1, <1>2, <1>5 DEF Indexing
  <2>3. \A n \in Name : Of(n, InFiles) \subseteq ToSet(local_index[n])
    BY <2>2 DEF Of, InFiles
  <2>. QED  BY <2>1, <2>3
<1>7. \A n \in Name :
        LET one == local_index'[n] IN
        /\ one \in Seq(Certs)
        /\ ToSet(one) \subseteq ToSet(local_index[n])
        /\ Fingerprints(ToSet(one)) = Fingerprints(ToSet(local_index[n]))
        /\ Len(one) = Cardinality(Fingerprints(ToSet(one)))
  BY <1>1, <1>4, DeduplicateProperties
<1>8. TypeOK'
  BY <1>1, <1>2, <1>7 DEF TypeOK
<1>9. Indexing'
  BY <1>1, <1>3, <1>6, <1>7 DEF Indexing
<1>10. IndexComplete'
  BY <1>3, <1>6, <1>7 DEF IndexComplete
<1>11. Collected'
  BY <1>1, <1>2, <1>3 DEF Collected
<1>12. Composed'
  BY <1>1, <1>2 DEF Composed
<1>13. EachKeyOnce' /\ PreparationRefusedForCause'
  BY <1>1 DEF EachKeyOnce, PreparationRefusedForCause
<1>. QED  BY <1>1, <1>2, <1>8, <1>9, <1>10, <1>11, <1>12, <1>13 DEF IInv

LEMMA PreparePlaintextHolds ==
  ASSUME IInv, PreparePlaintext
  PROVE  IInv'
<1>. DEFINE lines == case.lines
<1>1. /\ pc = "ready"
      /\ case' = case /\ files' = files /\ local_index' = local_index
      /\ resolved' = resolved /\ certs' = certs /\ outer' = outer
  BY DEF PreparePlaintext
<1>2. /\ TypeOK /\ case \in Cases /\ Indexing /\ IndexComplete /\ Collected /\ Composed
      /\ EachKeyOnce /\ PreparationRefusedForCause
  BY DEF IInv
<1>3. KeyFiles' = KeyFiles /\ InFiles' = InFiles /\ InAnswers' = InAnswers
  BY <1>1, SameKeys
<1>4. lines \in Seq(Lines)
  BY <1>2, CaseProperties
<1>5. \/ /\ \/ case.recipients = <<>> \/ IsMalformed(lines)
            \/ FALSE \in RecipientsParse(lines, case.unparsed)
         /\ pc' = "refused" /\ plaintext' = plaintext
      \/ /\ case.recipients # <<>>
         /\ pc' = "resolve" /\ plaintext' = plaintext_for_encryption(lines, case.mode)
  <2>1. RecipientsParse(lines, case.unparsed) \subseteq BOOLEAN
    BY DEF RecipientsParse
  <2>2. PICK parsed \in RecipientsParse(lines, case.unparsed) :
          IF \/ ~parsed
             \/ case.recipients = <<>>
             \/ case.mode = "pgp_mime_body" /\ IsMalformed(lines)
          THEN pc' = "refused" /\ UNCHANGED plaintext
          ELSE /\ pc' = "resolve"
               /\ plaintext' = plaintext_for_encryption(lines, case.mode)
    BY DEF PreparePlaintext
  <2>3. parsed = TRUE \/ (parsed = FALSE /\ FALSE \in RecipientsParse(lines, case.unparsed))
    BY <2>1
  <2>. QED  BY <2>2, <2>3
<1>6. pc' \in {"refused", "resolve"}
  BY <1>5
<1>7. ToSet(plaintext') \subseteq {0} \cup DOMAIN lines
  BY <1>2, <1>4, <1>5, PlaintextLines DEF TypeOK
<1>8. TypeOK'
  BY <1>1, <1>2, <1>6, <1>7 DEF TypeOK
<1>9. Indexing'
  BY <1>1, <1>2, <1>3, <1>6 DEF Indexing
<1>10. IndexComplete'
  BY <1>1, <1>2, <1>3 DEF IndexComplete
<1>11. Collected'
  BY <1>1, <1>2, <1>3 DEF Collected
<1>12. Composed'
  BY <1>1, <1>2, <1>5 DEF Composed
<1>13. EachKeyOnce'
  BY <1>6 DEF EachKeyOnce
<1>14. PreparationRefusedForCause'
  <2>1. case.unparsed \in SUBSET DOMAIN lines
    BY <1>2, CaseProperties
  <2>2. pc' = "refused" /\ BeginsWithField(lines) =>
          \/ case.recipients = <<>>
          \/ \E i \in 1 .. HeaderEnd(lines) : lines[i] = "text" \/ i \in case.unparsed
    BY <1>4, <1>5, <2>1, MalformedHasText, UnreadableRecipients
  <2>. QED  BY <1>1, <2>2 DEF PreparationRefusedForCause
<1>. QED  BY <1>1, <1>2, <1>8, <1>9, <1>10, <1>11, <1>12, <1>13, <1>14 DEF IInv

LEMMA ResolveHolds ==
  ASSUME IInv, Resolve
  PROVE  IInv'
<1>. DEFINE r     == case.recipients[resolved + 1]
            known == InFiles \cup InAnswers
            For(i, all) == \E cert \in all :
                             cert.fingerprint \in Fingerprints(Of(case.recipients[i], known))
<1>1. /\ pc = "resolve" /\ resolved < Len(case.recipients)
      /\ case' = case /\ files' = files /\ local_index' = local_index
      /\ plaintext' = plaintext /\ outer' = outer
  BY DEF Resolve
<1>2. /\ TypeOK /\ case \in Cases /\ Indexing /\ IndexComplete /\ Collected /\ Composed
      /\ EachKeyOnce /\ PreparationRefusedForCause
  BY DEF IInv
<1>3. KeyFiles' = KeyFiles /\ InFiles' = InFiles /\ InAnswers' = InAnswers
  BY <1>1, SameKeys
<1>4. /\ case.recipients \in Seq(Name) /\ Len(case.recipients) \in Nat
      /\ resolved \in Nat /\ resolved + 1 \in 1 .. Len(case.recipients)
      /\ resolved + 1 \in DOMAIN case.recipients
  BY <1>1, <1>2, CaseProperties, LenProperties DEF TypeOK
<1>5. r \in Name /\ r \in ToSet(case.recipients)
  BY <1>4, ElementsOfList
<1>6. /\ \A all \in Resolution(r) :
           all \in Seq(Certs) /\ all # <<>> /\ ToSet(all) \subseteq Of(r, known)
      /\ Resolution(r) = {} => Of(r, known) = {}
  BY <1>1, <1>2, <1>5, ResolutionProperties
<1>7. \/ /\ \E all \in Resolution(r) : certs' = certs \o all
         /\ resolved' = resolved + 1 /\ pc' = pc
      \/ /\ r \notin Addressable \/ Resolution(r) = {}
         /\ pc' = "refused" /\ resolved' = resolved /\ certs' = certs
  BY DEF Resolve
<1>8. Indexing' /\ IndexComplete' /\ EachKeyOnce'
  <2>1. pc' \in {"resolve", "refused"}
    BY <1>1, <1>7
  <2>2. Indexing'
    BY <1>1, <1>2, <1>3, <2>1 DEF Indexing
  <2>3. IndexComplete'
    BY <1>1, <1>2, <1>3 DEF IndexComplete
  <2>4. EachKeyOnce'
    BY <2>1 DEF EachKeyOnce
  <2>. QED  BY <2>2, <2>3, <2>4
<1>9. Composed'
  BY <1>1, <1>2, <1>7 DEF Composed
<1>. HIDE DEF r, known
<1>10. ASSUME NEW all \in Resolution(r), certs' = certs \o all,
              resolved' = resolved + 1, pc' = pc
       PROVE  TypeOK' /\ Collected' /\ PreparationRefusedForCause'
  <2>1. certs \in Seq(Certs) /\ all \in Seq(Certs) /\ all # <<>> /\ ToSet(all) \subseteq Of(r, known)
    BY <1>2, <1>6 DEF TypeOK
  <2>2. certs' \in Seq(Certs) /\ ToSet(certs') = ToSet(certs) \cup ToSet(all)
    BY <1>10, <2>1, ToSetOfConcat
  <2>3. TypeOK'
    BY <1>1, <1>2, <1>4, <1>10, <2>2 DEF TypeOK
  <2>4. \A i \in 1 .. resolved : For(i, ToSet(certs))
    BY <1>2 DEF Collected, known
  <2>5. For(resolved + 1, ToSet(all))
    <3>1. ToSet(all) # {}
      BY <2>1, NoElements
    <3>2. PICK cert \in ToSet(all) : cert \in Of(r, known)
      BY <2>1, <3>1
    <3>3. cert.fingerprint \in Fingerprints(Of(r, known))
      BY <3>2 DEF Fingerprints
    <3>. QED  BY <3>3 DEF r
  <2>6. \A cert \in ToSet(all) : cert.emails \cap ToSet(case.recipients) # {}
    BY <1>5, <2>1 DEF Of
  <2>7. \A cert \in ToSet(certs) : cert.emails \cap ToSet(case.recipients) # {}
    BY <1>2 DEF Collected
  <2>8. \A i \in 1 .. resolved' : For(i, ToSet(certs'))
    <3>1. \A i \in 1 .. resolved' : i \in 1 .. resolved \/ i = resolved + 1
      BY <1>4, <1>10
    <3>2. \A i : For(i, ToSet(certs)) \/ For(i, ToSet(all)) => For(i, ToSet(certs'))
      BY <2>2
    <3>. HIDE DEF For
    <3>. QED  BY <2>4, <2>5, <3>1, <3>2
  <2>9. Collected'
    BY <1>1, <1>3, <2>2, <2>6, <2>7, <2>8 DEF Collected, known
  <2>10. PreparationRefusedForCause'
    BY <1>1, <1>10 DEF PreparationRefusedForCause
  <2>. QED  BY <2>3, <2>9, <2>10
<1>11. ASSUME r \notin Addressable \/ Resolution(r) = {},
              pc' = "refused", resolved' = resolved, certs' = certs
       PROVE  TypeOK' /\ Collected' /\ PreparationRefusedForCause'
  <2>1. TypeOK'
    BY <1>1, <1>2, <1>11 DEF TypeOK
  <2>2. Collected'
    BY <1>1, <1>2, <1>3, <1>11 DEF Collected
  <2>3. r \notin Addressable \/ Of(r, known) = {}
    BY <1>6, <1>11
  <2>4. PreparationRefusedForCause'
    BY <1>1, <1>3, <1>5, <2>3 DEF PreparationRefusedForCause, known
  <2>. QED  BY <2>1, <2>2, <2>4
<1>12. TypeOK' /\ Collected' /\ PreparationRefusedForCause'
  BY <1>7, <1>10, <1>11
<1>. QED  BY <1>1, <1>2, <1>8, <1>9, <1>12 DEF IInv

LEMMA EncryptHolds ==
  ASSUME IInv, Encrypt
  PROVE  IInv'
<1>. DEFINE known == InFiles \cup InAnswers
<1>1. /\ pc = "resolve" /\ resolved = Len(case.recipients)
      /\ certs' = deduplicate_certs(certs)
      /\ case' = case /\ files' = files /\ local_index' = local_index
      /\ resolved' = resolved /\ plaintext' = plaintext /\ outer' = outer
  BY DEF Encrypt
<1>2. /\ TypeOK /\ case \in Cases /\ Indexing /\ IndexComplete /\ Collected /\ Composed
      /\ EachKeyOnce /\ PreparationRefusedForCause
  BY DEF IInv
<1>3. KeyFiles' = KeyFiles /\ InFiles' = InFiles /\ InAnswers' = InAnswers
  BY <1>1, SameKeys
<1>4. certs \in Seq(Certs)
  BY <1>2 DEF TypeOK
<1>5. /\ certs' \in Seq(Certs) /\ ToSet(certs') \subseteq ToSet(certs)
      /\ Fingerprints(ToSet(certs')) = Fingerprints(ToSet(certs))
      /\ \A i, j \in DOMAIN certs' : certs'[i].fingerprint = certs'[j].fingerprint => i = j
  BY <1>1, <1>4, DeduplicateProperties
<1>6. certs' # <<>>
  <2>1. Len(case.recipients) \in Nat \ {0}
    BY <1>1, <1>2, CaseProperties, LenProperties, EmptySeq DEF Composed
  <2>2. 1 \in 1 .. resolved
    BY <1>1, <2>1
  <2>3. ToSet(certs) # {}
    BY <1>2, <2>2 DEF Collected
  <2>4. Fingerprints(ToSet(certs)) # {}
    BY <2>3 DEF Fingerprints
  <2>5. ToSet(certs') # {}
    BY <1>5, <2>4 DEF Fingerprints
  <2>. QED  BY <2>5, EmptyList
<1>7. pc' = IF \A i \in DOMAIN certs' : certs'[i].usable THEN "encrypted" ELSE "refused"
  BY DEF Encrypt
<1>8. \/ pc' = "encrypted" /\ \A cert \in ToSet(certs') : cert.usable
      \/ pc' = "refused" /\ \E cert \in ToSet(certs') : ~cert.usable
  BY <1>7 DEF ToSet
<1>9. TypeOK'
  BY <1>1, <1>2, <1>5, <1>6, <1>8 DEF TypeOK
<1>10. Indexing'
  BY <1>1, <1>2, <1>3, <1>8 DEF Indexing
<1>11. IndexComplete'
  BY <1>1, <1>2, <1>3 DEF IndexComplete
<1>12. Collected'
  <2>1. \A i \in 1 .. resolved : \E f \in Fingerprints(ToSet(certs)) :
          f \in Fingerprints(Of(case.recipients[i], known))
    BY <1>2 DEF Collected, Fingerprints
  <2>2. \A i \in 1 .. resolved : \E cert \in ToSet(certs') :
          cert.fingerprint \in Fingerprints(Of(case.recipients[i], known))
    <3>. SUFFICES ASSUME NEW i \in 1 .. resolved
                  PROVE  \E cert \in ToSet(certs') :
                           cert.fingerprint \in Fingerprints(Of(case.recipients[i], known))
      OBVIOUS
    <3>1. PICK f \in Fingerprints(ToSet(certs')) : f \in Fingerprints(Of(case.recipients[i], known))
      BY <1>5, <2>1
    <3>2. PICK cert \in ToSet(certs') : cert.fingerprint = f
      BY DEF Fingerprints
    <3>. QED  BY <3>1, <3>2
  <2>3. \A cert \in ToSet(certs') : cert.emails \cap ToSet(case.recipients) # {}
    BY <1>2, <1>5 DEF Collected
  <2>. QED  BY <1>1, <1>3, <2>2, <2>3 DEF Collected
<1>13. Composed'
  BY <1>1, <1>2, <1>8 DEF Composed
<1>14. EachKeyOnce'
  BY <1>5 DEF EachKeyOnce
<1>15. PreparationRefusedForCause'
  BY <1>1, <1>8 DEF PreparationRefusedForCause
<1>. QED  BY <1>1, <1>2, <1>9, <1>10, <1>11, <1>12, <1>13, <1>14, <1>15 DEF IInv

LEMMA BuildHolds ==
  ASSUME IInv, Build
  PROVE  IInv'
<1>. DEFINE lines == case.lines
<1>1. /\ pc = "encrypted"
      /\ case' = case /\ files' = files /\ local_index' = local_index
      /\ resolved' = resolved /\ certs' = certs /\ plaintext' = plaintext
  BY DEF Build
<1>2. /\ TypeOK /\ case \in Cases /\ Indexing /\ IndexComplete /\ Collected /\ Composed
      /\ EachKeyOnce /\ PreparationRefusedForCause
  BY DEF IInv
<1>3. KeyFiles' = KeyFiles /\ InFiles' = InFiles /\ InAnswers' = InAnswers
  BY <1>1, SameKeys
<1>4. lines \in Seq(Lines)
  BY <1>2, CaseProperties
<1>5. \/ pc' = "refused" /\ outer' = outer /\ IsMalformed(lines)
      \/ pc' = "prepared" /\ outer' = OuterHeader(lines) /\ ~IsMalformed(lines)
  BY DEF Build
<1>6. ToSet(outer') \subseteq DOMAIN lines
  <2>1. ToSet(OuterHeader(lines)) \subseteq DOMAIN lines
    BY <1>4, PlaintextLines, PartsProperties
  <2>. QED  BY <1>2, <1>5, <2>1 DEF TypeOK
<1>7. TypeOK'
  BY <1>1, <1>2, <1>5, <1>6 DEF TypeOK
<1>8. Indexing'
  BY <1>1, <1>2, <1>3, <1>5 DEF Indexing
<1>9. IndexComplete'
  BY <1>1, <1>2, <1>3 DEF IndexComplete
<1>10. Collected'
  BY <1>1, <1>2, <1>3 DEF Collected
<1>11. Composed'
  <2>1. outer' = IF pc' = "prepared" THEN OuterHeader(lines) ELSE <<>>
    BY <1>1, <1>2, <1>5 DEF Composed
  <2>. QED  BY <1>1, <1>2, <1>5, <2>1 DEF Composed
<1>12. EachKeyOnce'
  BY <1>1, <1>2 DEF EachKeyOnce
<1>13. PreparationRefusedForCause'
  <2>1. pc' = "refused" /\ BeginsWithField(lines) =>
          \E i \in 1 .. HeaderEnd(lines) : lines[i] = "text"
    BY <1>4, <1>5, MalformedHasText
  <2>. QED  BY <1>1, <2>1 DEF PreparationRefusedForCause
<1>. QED  BY <1>1, <1>2, <1>7, <1>8, <1>9, <1>10, <1>11, <1>12, <1>13 DEF IInv

LEMMA NothingHolds ==
  ASSUME IInv, UNCHANGED vars
  PROVE  IInv'
<1>1. /\ case' = case /\ pc' = pc /\ files' = files /\ local_index' = local_index
      /\ resolved' = resolved /\ certs' = certs /\ plaintext' = plaintext /\ outer' = outer
  BY DEF vars
<1>2. KeyFiles' = KeyFiles /\ InFiles' = InFiles /\ InAnswers' = InAnswers
  BY <1>1, SameKeys
<1>3. /\ TypeOK /\ case \in Cases /\ Indexing /\ IndexComplete /\ Collected /\ Composed
      /\ EachKeyOnce /\ PreparationRefusedForCause
  BY DEF IInv
<1>4. TypeOK' /\ EachKeyOnce'
  BY <1>1, <1>3 DEF TypeOK, EachKeyOnce
<1>5. Indexing' /\ IndexComplete'
  BY <1>1, <1>2, <1>3 DEF Indexing, IndexComplete
<1>6. Collected' /\ Composed'
  BY <1>1, <1>2, <1>3 DEF Collected, Composed
<1>7. PreparationRefusedForCause'
  BY <1>1, <1>2, <1>3 DEF PreparationRefusedForCause
<1>. QED  BY <1>1, <1>3, <1>4, <1>5, <1>6, <1>7 DEF IInv

LEMMA Inductive == IInv /\ [Next]_vars => IInv'
<1>1. SUFFICES ASSUME IInv, [Next]_vars PROVE IInv'
  OBVIOUS
<1>. QED
  BY <1>1, IndexFileHolds, FinishIndexHolds, PreparePlaintextHolds, ResolveHolds, EncryptHolds,
     BuildHolds, NothingHolds DEF Next

-----------------------------------------------------------------------------
(* The inductive invariant holds in every state of a preparation             *)
(* (prepare_encrypted_delivery), for any keys, services and messages.        *)
THEOREM Invariance == Spec => []IInv
BY InitHolds, Inductive, PTL DEF Spec

(* What prepare_encrypted_delivery handles has its type, and what is         *)
(* encrypted is encrypted for somebody.                                      *)
THEOREM TypeCorrect == Spec => []TypeOK
<1>1. IInv => TypeOK
  BY DEF IInv
<1>. QED  BY <1>1, Invariance, PTL

(* The index build_local_key_index makes has every key of every name in the  *)
(* key files, each once.                                                     *)
THEOREM IndexIsComplete == Spec => []IndexComplete
<1>1. IInv => IndexComplete
  BY DEF IInv
<1>. QED  BY <1>1, Invariance, PTL

(* encrypt_to_armored_message is given for each recipient a usable           *)
(* certificate with a key published for them, and for nobody else one,       *)
(* whatever the sources hold and the services send.                          *)
THEOREM ReadersAreRecipients == Spec => []EncryptedForRecipients
<1>1. ASSUME IInv, pc \in {"encrypted", "prepared"}
      PROVE  EncryptedForRecipients
  <2>1. /\ resolved = Len(case.recipients) /\ case.recipients \in Seq(Name)
        /\ \A cert \in ToSet(certs) : cert.usable
    BY <1>1, CaseProperties DEF IInv, Composed
  <2>2. \A r \in ToSet(case.recipients) : \E i \in 1 .. resolved : r = case.recipients[i]
    BY <2>1, LenProperties DEF ToSet
  <2>3. \A i \in 1 .. resolved : \E cert \in ToSet(certs) :
          cert.fingerprint \in Fingerprints(Of(case.recipients[i], InFiles \cup InAnswers))
    BY <1>1 DEF IInv, Collected
  <2>4. \A r \in ToSet(case.recipients) : \E cert \in ToSet(certs) :
          cert.usable /\ cert.fingerprint \in Fingerprints(Of(r, InFiles \cup InAnswers))
    BY <2>1, <2>2, <2>3
  <2>5. \A cert \in ToSet(certs) : cert.emails \cap ToSet(case.recipients) # {}
    BY <1>1 DEF IInv, Collected
  <2>. QED  BY <2>4, <2>5 DEF EncryptedForRecipients
<1>2. IInv => EncryptedForRecipients
  BY <1>1 DEF EncryptedForRecipients
<1>. QED  BY <1>2, Invariance, PTL

(* deduplicate_certs before the encryption leaves each key once.             *)
THEOREM KeysOnce == Spec => []EachKeyOnce
<1>1. IInv => EachKeyOnce
  BY DEF IInv
<1>. QED  BY <1>1, Invariance, PTL

(* A preparation is refused for the header (malformed, or its recipients    *)
(* cannot be read), for want of a recipient, or for the keys, and for no     *)
(* other cause.                                                              *)
THEOREM RefusalsHaveCause == Spec => []PreparationRefusedForCause
<1>1. IInv => PreparationRefusedForCause
  BY DEF IInv
<1>. QED  BY <1>1, Invariance, PTL

(* build_encrypted_message puts nothing in clear but fields of the allow     *)
(* list, for a submission of any length and layout but the one in which      *)
(* split_message mistakes the body for the header (NothingElseInClear).      *)
THEOREM OnlyAllowedFieldsInClear == Spec => []OnlyFieldsInClear
<1>1. ASSUME IInv,
             ~(Len(case.lines) >= 2 /\ case.lines[1] = "empty" /\ case.lines[2] \in Folds),
             NEW i \in ToSet(outer)
      PROVE  i \in InHeader(case.lines, "allowed")
  <2>1. case.lines \in Seq(Lines)
    BY <1>1, CaseProperties DEF IInv
  <2>2. outer # <<>>
    BY <1>1, EmptyList
  <2>3. pc = "prepared" /\ outer = OuterHeader(case.lines) /\ ~IsMalformed(case.lines)
    BY <1>1, <2>2 DEF IInv, Composed
  <2>4. i \in FieldLines(case.lines, "allowed")
    BY <1>1, <2>1, <2>3, PlaintextLines
  <2>. QED  BY <1>1, <2>1, <2>3, <2>4, AllowedFieldsAreInHeader
<1>2. IInv => OnlyFieldsInClear
  BY <1>1 DEF OnlyFieldsInClear
<1>. QED  BY <1>2, Invariance, PTL

(* What plaintext_for_encryption has encrypted is the submission, or its     *)
(* content fields and its body, for a submission of any length.              *)
THEOREM SubmissionIsEncrypted == Spec => []DecryptsToTheSubmission
<1>. DEFINE lines  == case.lines
            fields == InHeader(lines, "content")
            break  == SelectInSeq(plaintext, LAMBDA p : p = 0)
<1>1. ASSUME IInv, pc = "prepared", BeginsWithField(lines)
      PROVE  CASE case.mode = "full_message" -> plaintext = [i \in DOMAIN lines |-> i]
               [] case.mode = "pgp_mime_body" /\ fields = {} -> plaintext = BodyOf(lines)
               [] OTHER -> /\ ToSet(SubSeq(plaintext, 1, break - 1)) = fields
                           /\ SubSeq(plaintext, break + 1, Len(plaintext)) = BodyOf(lines)
  <2>1. /\ lines \in Seq(Lines) /\ case.mode \in Modes
        /\ plaintext = plaintext_for_encryption(lines, case.mode)
    BY <1>1, CaseProperties DEF IInv, Composed
  <2>2. CASE case.mode = "full_message"
    <3>1. plaintext = InOrder(DOMAIN lines)
      BY <2>1, <2>2 DEF plaintext_for_encryption
    <3>2. plaintext = [i \in DOMAIN lines |-> i]
      BY <1>1, <2>1, <3>1, DecryptsBody
    <3>. HIDE DEF break, fields
    <3>. QED  BY <2>2, <3>2
  <2>3. CASE case.mode # "full_message"
    <3>1. plaintext = PgpMimeBody(lines) /\ case.mode = "pgp_mime_body"
      BY <2>1, <2>3 DEF plaintext_for_encryption, Modes
    <3>2. CASE fields = {}
      <4>1. FieldLines(lines, "content") = {}
        BY <1>1, <2>1, <3>2, FieldLinesAreInHeader, FieldBeginsPlainly
      <4>2. InOrder({}) = <<>> /\ InOrder(BodyLines(lines)) = BodyOf(lines)
        BY <1>1, <2>1, DecryptsBody
      <4>3. plaintext = <<>> \o <<>> \o BodyOf(lines)
        BY <3>1, <4>1, <4>2 DEF PgpMimeBody
      <4>4. BodyOf(lines) \in Seq(BodyLines(lines))
        BY <2>1, <4>2, PartsProperties, InOrderProperties
      <4>5. plaintext = BodyOf(lines)
        BY <4>3, <4>4, ConcatEmptySeq
      <4>. HIDE DEF break, fields
      <4>. QED  BY <3>1, <3>2, <4>5
    <3>3. CASE fields # {}
      <4>1. /\ ToSet(SubSeq(plaintext, 1, break - 1)) = fields
            /\ SubSeq(plaintext, break + 1, Len(plaintext)) = BodyOf(lines)
        BY <1>1, <2>1, <3>1, <3>3, DecryptsParts
      <4>. HIDE DEF break, fields
      <4>. QED  BY <3>1, <3>3, <4>1
    <3>. QED  BY <3>2, <3>3
  <2>. QED  BY <2>2, <2>3
<1>2. IInv => DecryptsToTheSubmission
  BY <1>1 DEF DecryptsToTheSubmission, BodyOf
<1>. QED  BY <1>2, Invariance, PTL
=============================================================================

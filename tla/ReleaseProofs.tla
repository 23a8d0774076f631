----------------------------- MODULE ReleaseProofs -----------------------------
(***************************************************************************)
(* Proofs about Release: what the tags of the registry hold however many   *)
(* runs overlap, fail and are run again, for any releases and any          *)
(* architectures.                                                          *)
(***************************************************************************)
EXTENDS Release, ListTheorems

Labels ==
  {release[run].version : run \in Run} \cup {release[run].major : run \in Run}
    \cup ToSet(Arch) \cup {"latest", "release", "alpine-musl"}

Tags == Labels \X Labels

Archs == ToSet(Arch)

(* The tags a stable release moves from an older one. *)
AliasTags(run) ==
  {<<release[run].major, arch>> : arch \in Archs}
    \cup {<<"latest", "release">>, <<"latest", "alpine-musl">>, <<release[run].major, "alpine-musl">>}

-----------------------------------------------------------------------------
(***************************************************************************)
(* The inductive invariant.  Sound says what a tag holds, whoever pushed   *)
(* it; MadeFor what a manifest has, also before it is pushed.              *)
(***************************************************************************)
SoundImage(tag) ==
  /\ tag \in Tags /\ image[tag] \in Images
  /\ image[tag].arch = tag[2]
  /\ IsAllowed(image[tag].run)
  /\ \/ tag[1] = release[image[tag].run].version
     \/ IsStable(image[tag].run) /\ tag[1] = release[image[tag].run].major

MadeFor(images, run) ==
  /\ images \subseteq Images
  /\ \A arch \in Archs : \E i \in images : i.arch = arch
  /\ \A i, j \in images : i.arch = j.arch => i = j
  /\ \A i \in images : release[i.run] = release[run] /\ IsAllowed(i.run)

SoundManifest(tag) ==
  \E run \in Run : tag \in ToSet(ManifestTags(run)) /\ MadeFor(manifest[tag], run)

ArchsFirst(list) ==
  \A i, j \in DOMAIN list : i < j /\ IsArchTag(list[j]) => IsArchTag(list[i])

(* A run that pushes: the images come before the manifests, and what it has  *)
(* no longer to push is there.                                               *)
Pending(run) ==
  /\ tags[run] \in Seq(Tags)
  /\ ToSet(tags[run]) \subseteq ToSet(PushOrder(run))
  /\ ArchsFirst(tags[run])
  /\ \A tag \in ToSet(PushOrder(run)) :
       IsArchTag(tag) /\ tag \notin ToSet(tags[run]) => tag \in DOMAIN image

SoundRun(run) ==
  /\ pc[run] \in {"pushing", "failed"} => IsAllowed(run)
  /\ pc[run] = "pushing" => Pending(run)
  /\ created[run] # {} => MadeFor(created[run], run)

(* A tag is at the release of a run. *)
AtRelease(tag, run) ==
  IF IsArchTag(tag)
  THEN tag \in DOMAIN image /\ release[image[tag].run] = release[run]
  ELSE tag \in DOMAIN manifest /\ \A i \in manifest[tag] : release[i.run] = release[run]

(* As long as nothing is disturbed at most one stable release is published   *)
(* at a time.  The tags that move are at the one that is published, those it *)
(* has pushed, or, when there is none, at the last one.                      *)
Publishes(run) == IsStable(run) /\ pc[run] = "pushing"

Orderly ==
  ~disturbed =>
    /\ \A run \in Run : IsStable(run) => pc[run] # "failed"
    /\ \A run, other \in Run : Publishes(run) /\ Publishes(other) => run = other
    /\ \A run \in Run : Publishes(run) =>
         \A tag \in AliasTags(run) : tag \notin ToSet(tags[run]) => AtRelease(tag, run)
    /\ last # NoRun /\ (\A run \in Run : ~Publishes(run)) =>
         \A tag \in AliasTags(last) : AtRelease(tag, last)

IInv ==
  /\ TypeOK
  /\ trigger \in Triggers
  /\ tags \in [Run -> Seq(Tags)]
  /\ created \in [Run -> SUBSET Images]
  /\ \A tag \in DOMAIN image : SoundImage(tag)
  /\ \A tag \in DOMAIN manifest : SoundManifest(tag)
  /\ \A run \in Run : SoundRun(run)
  /\ last # NoRun => IsStable(last)
  /\ Orderly

-----------------------------------------------------------------------------
LEMMA NoTags == <<>> \in Seq(Tags) /\ ToSet(<<>>) = {}
BY EmptySeq DEF ToSet

LEMMA PairIsTag ==
  ASSUME NEW a \in Labels, NEW b \in Labels
  PROVE  <<a, b>> \in Tags
BY DEF Tags

(* The names of releases and architectures. *)
LEMMA Names ==
  /\ Archs \subseteq Labels /\ Archs # {} /\ "release" \notin Archs /\ "alpine-musl" \notin Archs
  /\ Len(Arch) \in Nat /\ DOMAIN Arch = 1 .. Len(Arch) /\ \A i \in DOMAIN Arch : Arch[i] \in Archs
  /\ \A arch \in Archs : \E i \in DOMAIN Arch : arch = Arch[i]
  /\ \A run \in Run : release[run].version \in Labels /\ release[run].major \in Labels
  /\ "release" \in Labels /\ "alpine-musl" \in Labels /\ "latest" \in Labels
  /\ \A tag : IsArchTag(tag) <=> tag[2] \in Archs
<1>1. /\ Len(Arch) \in Nat /\ DOMAIN Arch = 1 .. Len(Arch)
      /\ \A i \in DOMAIN Arch : Arch[i] \in STRING
  BY ReleaseAssumption, LenProperties, ElementOfSeq
<1>2. Archs \subseteq Labels /\ Archs # {}
  <2>1. Len(Arch) # 0
    BY ReleaseAssumption, <1>1, EmptySeq
  <2>2. 1 \in DOMAIN Arch
    BY <1>1, <2>1
  <2>3. Archs # {}
    BY <2>2 DEF Archs, ToSet
  <2>. QED  BY <2>3 DEF Archs, Labels
<1>3. \A i \in DOMAIN Arch : Arch[i] \in Archs
  BY DEF Archs, ToSet
<1>4. \A arch \in Archs : \E i \in DOMAIN Arch : arch = Arch[i]
  BY DEF Archs, ToSet
<1>5. \A run \in Run : release[run].version \in Labels /\ release[run].major \in Labels
  BY DEF Labels
<1>7. "release" \in Labels /\ "alpine-musl" \in Labels /\ "latest" \in Labels
  BY DEF Labels
<1>6. "release" \notin Archs /\ "alpine-musl" \notin Archs
  BY ReleaseAssumption DEF Archs
<1>. QED  BY <1>1, <1>2, <1>3, <1>4, <1>5, <1>6, <1>7 DEF IsArchTag, Archs

(* The tags of an architecture. *)
LEMMA ArchTagsProperties ==
  ASSUME NEW run \in Run, NEW arch \in Archs
  PROVE  /\ ArchTags(run, arch) \in Seq(Tags)
         /\ ToSet(ArchTags(run, arch)) =
              {<<release[run].version, arch>>}
                \cup (IF IsStable(run) THEN {<<release[run].major, arch>>} ELSE {})
         /\ SourceTag(run, arch) = <<release[run].version, arch>>
<1>. DEFINE v == <<release[run].version, arch>>
            m == <<release[run].major, arch>>
            first == <<v>>
            rest  == IF IsStable(run) THEN <<m>> ELSE <<>>
<1>1. v \in Tags /\ m \in Tags
  BY Names, PairIsTag
<1>2. ArchTags(run, arch) = first \o rest
  BY DEF ArchTags
<1>. HIDE DEF v, m
<1>3. first \in Seq(Tags) /\ Len(first) = 1 /\ first[1] = v /\ ToSet(first) = {v}
  BY <1>1, OneElement
<1>4. rest \in Seq(Tags) /\ ToSet(rest) = IF IsStable(run) THEN {m} ELSE {}
  BY <1>1, OneElement, NoTags
<1>. HIDE DEF first, rest
<1>5. first \o rest \in Seq(Tags) /\ ToSet(first \o rest) = ToSet(first) \cup ToSet(rest)
  BY <1>3, <1>4, ToSetOfConcat
<1>6. Head(first \o rest) = v
  <2>1. Len(rest) \in Nat /\ 1 \in 1 .. Len(first) + Len(rest)
    BY <1>3, <1>4, LenProperties
  <2>2. (first \o rest)[1] = v
    BY <1>3, <1>4, <2>1, ConcatProperties
  <2>3. first \o rest # <<>>
    BY <1>3, <1>5, NoTags
  <2>. QED  BY <1>5, <2>2, <2>3, HeadAndTail
<1>. QED  BY <1>2, <1>3, <1>4, <1>5, <1>6 DEF SourceTag, v, m

(* The tags of the manifests. *)
LEMMA ManifestTagsProperties ==
  ASSUME NEW run \in Run
  PROVE  /\ ManifestTags(run) \in Seq(Tags)
         /\ ToSet(ManifestTags(run)) =
              {<<release[run].version, "release">>, <<release[run].version, "alpine-musl">>}
                \cup (IF IsStable(run)
                      THEN {<<"latest", "release">>, <<"latest", "alpine-musl">>,
                            <<release[run].major, "alpine-musl">>}
                      ELSE {})
         /\ \A tag \in ToSet(ManifestTags(run)) : tag \in Tags /\ ~IsArchTag(tag)
<1>. DEFINE v == <<release[run].version, "release">>
            w == <<release[run].version, "alpine-musl">>
            k == <<"latest", "release">>
            l == <<"latest", "alpine-musl">>
            m == <<release[run].major, "alpine-musl">>
<1>1. v \in Tags /\ w \in Tags /\ k \in Tags /\ l \in Tags /\ m \in Tags
  BY Names, PairIsTag
<1>2. ManifestTags(run) = IF IsStable(run) THEN <<v, k, w, m, l>> ELSE <<v, w>>
  BY DEF ManifestTags
<1>. HIDE DEF v, w, k, l, m
<1>3. /\ ManifestTags(run) \in Seq(Tags)
      /\ ToSet(ManifestTags(run)) = {v, w} \cup (IF IsStable(run) THEN {k, l, m} ELSE {})
  <2>1. CASE IsStable(run)
    <3>1. <<v, k, w, m, l>> \in Seq(Tags) /\ ToSet(<<v, k, w, m, l>>) = {v, k, w, m, l}
      BY <1>1, FiveElements
    <3>. QED  BY <1>2, <2>1, <3>1
  <2>2. CASE ~IsStable(run)
    BY <1>1, <1>2, <2>2, TwoElements
  <2>. QED  BY <2>1, <2>2
<1>4. \A tag \in {v, w, k, l, m} : ~IsArchTag(tag)
  BY Names DEF v, w, k, l, m
<1>5. \A tag \in ToSet(ManifestTags(run)) : tag \in Tags /\ ~IsArchTag(tag)
  BY <1>1, <1>3, <1>4
<1>. QED  BY <1>3, <1>5 DEF v, w, k, l, m

(* The tags of both manifests come after those of all the images.            *)
LEMMA PushOrderProperties ==
  ASSUME NEW run \in Run
  PROVE  /\ PushOrder(run) \in Seq(Tags)
         /\ ArchsFirst(PushOrder(run))
         /\ \A tag \in ToSet(PushOrder(run)) :
              IF IsArchTag(tag)
              THEN tag[1] = release[run].version \/ (IsStable(run) /\ tag[1] = release[run].major)
              ELSE tag \in ToSet(ManifestTags(run))
         /\ \A arch \in Archs : <<release[run].version, arch>> \in ToSet(PushOrder(run))
         /\ IsStable(run) => AliasTags(run) \subseteq ToSet(PushOrder(run))
<1>. DEFINE lists     == [i \in DOMAIN Arch |-> ArchTags(run, Arch[i])]
            images    == FlattenSeq(lists)
            manifests == ManifestTags(run)
<1>1. lists \in Seq(Seq(Tags)) /\ DOMAIN lists = DOMAIN Arch
  <2>1. \A i \in 1 .. Len(Arch) : ArchTags(run, Arch[i]) \in Seq(Tags)
    BY Names, ArchTagsProperties
  <2>2. lists \in [1 .. Len(Arch) -> Seq(Tags)]
    BY <2>1, Names
  <2>. QED  BY <2>2, Names, SeqDef
<1>2. /\ images \in Seq(Tags)
      /\ \A x : x \in ToSet(images) <=> \E i \in DOMAIN Arch : x \in ToSet(ArchTags(run, Arch[i]))
  <2>1. \A i \in DOMAIN Arch : lists[i] = ArchTags(run, Arch[i])
    OBVIOUS
  <2>. HIDE DEF lists
  <2>2. /\ images \in Seq(Tags)
        /\ \A x : x \in ToSet(images) <=> \E i \in DOMAIN lists : x \in ToSet(lists[i])
    BY <1>1, FlattenProperties
  <2>. QED  BY <1>1, <2>1, <2>2
<1>3. PushOrder(run) = images \o manifests
  BY DEF PushOrder
<1>. HIDE DEF lists, images, manifests
<1>4. /\ manifests \in Seq(Tags)
      /\ \A tag \in ToSet(manifests) : ~IsArchTag(tag)
  BY ManifestTagsProperties DEF manifests
<1>5. /\ PushOrder(run) \in Seq(Tags)
      /\ ToSet(PushOrder(run)) = ToSet(images) \cup ToSet(manifests)
  BY <1>2, <1>3, <1>4, ToSetOfConcat
<1>6. ASSUME NEW tag \in ToSet(images)
      PROVE  /\ IsArchTag(tag)
             /\ tag[1] = release[run].version \/ (IsStable(run) /\ tag[1] = release[run].major)
  <2>1. PICK arch \in Archs : tag \in ToSet(ArchTags(run, arch))
    BY <1>2, Names
  <2>2. \/ tag = <<release[run].version, arch>>
        \/ IsStable(run) /\ tag = <<release[run].major, arch>>
    BY <2>1, ArchTagsProperties
  <2>. QED  BY <2>2, Names
<1>7. \A arch \in Archs :
        /\ <<release[run].version, arch>> \in ToSet(images)
        /\ IsStable(run) => <<release[run].major, arch>> \in ToSet(images)
  <2>1. SUFFICES ASSUME NEW arch \in Archs
                 PROVE  /\ <<release[run].version, arch>> \in ToSet(images)
                        /\ IsStable(run) => <<release[run].major, arch>> \in ToSet(images)
    OBVIOUS
  <2>2. PICK i \in DOMAIN Arch : arch = Arch[i]
    BY Names
  <2>3. /\ <<release[run].version, arch>> \in ToSet(ArchTags(run, arch))
        /\ IsStable(run) => <<release[run].major, arch>> \in ToSet(ArchTags(run, arch))
    BY ArchTagsProperties
  <2>. QED  BY <1>2, <2>2, <2>3
<1>8. ArchsFirst(PushOrder(run))
  <2>1. SUFFICES ASSUME NEW i \in DOMAIN PushOrder(run), NEW j \in DOMAIN PushOrder(run),
                        i < j, IsArchTag(PushOrder(run)[j])
                 PROVE  IsArchTag(PushOrder(run)[i])
    BY DEF ArchsFirst
  <2>2. /\ Len(images) \in Nat /\ DOMAIN images = 1 .. Len(images)
        /\ Len(manifests) \in Nat /\ DOMAIN manifests = 1 .. Len(manifests)
        /\ DOMAIN PushOrder(run) = 1 .. Len(images) + Len(manifests)
    BY <1>2, <1>3, <1>4, <1>5, LenProperties, ConcatProperties
  <2>3. \A k \in DOMAIN PushOrder(run) :
          PushOrder(run)[k] = IF k <= Len(images) THEN images[k] ELSE manifests[k - Len(images)]
    BY <1>2, <1>3, <1>4, <2>2, ConcatProperties
  <2>4. j <= Len(images)
    <3>1. SUFFICES ASSUME j > Len(images) PROVE FALSE
      BY <2>2
    <3>2. j - Len(images) \in DOMAIN manifests /\ PushOrder(run)[j] = manifests[j - Len(images)]
      BY <2>2, <2>3, <3>1
    <3>3. PushOrder(run)[j] \in ToSet(manifests)
      BY <3>2 DEF ToSet
    <3>. QED  BY <1>4, <2>1, <3>3
  <2>5. i \in DOMAIN images /\ PushOrder(run)[i] = images[i]
    BY <2>1, <2>2, <2>3, <2>4
  <2>6. PushOrder(run)[i] \in ToSet(images)
    BY <2>5 DEF ToSet
  <2>. QED  BY <1>6, <2>6
<1>9. \A tag \in ToSet(PushOrder(run)) :
        IF IsArchTag(tag)
        THEN tag[1] = release[run].version \/ (IsStable(run) /\ tag[1] = release[run].major)
        ELSE tag \in ToSet(ManifestTags(run))
  BY <1>4, <1>5, <1>6 DEF manifests
<1>10. \A arch \in Archs : <<release[run].version, arch>> \in ToSet(PushOrder(run))
  BY <1>5, <1>7
<1>11. ASSUME IsStable(run) PROVE AliasTags(run) \subseteq ToSet(PushOrder(run))
  <2>1. \A arch \in Archs : <<release[run].major, arch>> \in ToSet(PushOrder(run))
    BY <1>5, <1>7, <1>11
  <2>2. {<<"latest", "release">>, <<"latest", "alpine-musl">>, <<release[run].major, "alpine-musl">>}
          \subseteq ToSet(manifests)
    BY <1>11, ManifestTagsProperties DEF manifests
  <2>. QED  BY <1>5, <2>1, <2>2 DEF AliasTags
<1>. QED  BY <1>5, <1>8, <1>9, <1>10, <1>11

-----------------------------------------------------------------------------
(* What a run that pushes does next.                                         *)
LEMMA NextTagProperties ==
  ASSUME NEW run \in Run, Pending(run), tags[run] # <<>>
  PROVE  /\ NextTag(run) \in Tags /\ NextTag(run) \in ToSet(PushOrder(run))
         /\ Tail(tags[run]) \in Seq(Tags)
         /\ ToSet(tags[run]) = {NextTag(run)} \cup ToSet(Tail(tags[run]))
         /\ ArchsFirst(Tail(tags[run]))
         /\ ~IsArchTag(NextTag(run)) => \A tag \in ToSet(tags[run]) : ~IsArchTag(tag)
<1>. DEFINE list == tags[run]
<1>1. list \in Seq(Tags) /\ ToSet(list) \subseteq ToSet(PushOrder(run)) /\ ArchsFirst(list)
  BY DEF Pending
<1>2. list # <<>> /\ NextTag(run) = Head(list)
  BY DEF NextTag
<1>. HIDE DEF list
<1>3. /\ Len(list) \in Nat \ {0} /\ Head(list) = list[1] /\ Head(list) \in Tags
      /\ Tail(list) \in Seq(Tags) /\ Len(Tail(list)) = Len(list) - 1
      /\ \A i \in DOMAIN Tail(list) : i + 1 \in DOMAIN list /\ Tail(list)[i] = list[i + 1]
      /\ ToSet(list) = {Head(list)} \cup ToSet(Tail(list))
  BY <1>1, <1>2, HeadAndTail
<1>4. /\ DOMAIN list = 1 .. Len(list) /\ DOMAIN Tail(list) = 1 .. Len(list) - 1
  BY <1>1, <1>3, LenProperties
<1>5. ArchsFirst(Tail(list))
  <2>1. SUFFICES ASSUME NEW i \in DOMAIN Tail(list), NEW j \in DOMAIN Tail(list),
                        i < j, IsArchTag(Tail(list)[j])
                 PROVE  IsArchTag(Tail(list)[i])
    BY DEF ArchsFirst
  <2>2. i + 1 \in DOMAIN list /\ j + 1 \in DOMAIN list /\ i + 1 < j + 1
    BY <1>3, <1>4, <2>1
  <2>. QED  BY <1>1, <1>3, <2>1, <2>2 DEF ArchsFirst
<1>6. ASSUME ~IsArchTag(Head(list)), NEW tag \in ToSet(list)
      PROVE  ~IsArchTag(tag)
  <2>1. PICK j \in DOMAIN list : tag = list[j]
    BY <1>6 DEF ToSet
  <2>2. CASE j = 1
    BY <1>3, <1>6, <2>1, <2>2
  <2>3. CASE j # 1
    <3>1. 1 \in DOMAIN list /\ 1 < j
      BY <1>3, <1>4, <2>3
    <3>. QED  BY <1>1, <1>3, <1>6, <2>1, <3>1 DEF ArchsFirst
  <2>. QED  BY <2>2, <2>3
<1>. QED  BY <1>1, <1>2, <1>3, <1>5, <1>6 DEF list

(* Once only manifests are left, the images of the run's version are in the  *)
(* registry: whichever run put them there is for the same release, for no    *)
(* major version is called as a version is.                                  *)
LEMMA SourcesSound ==
  ASSUME IInv, NEW run \in Run, pc[run] = "pushing", tags[run] # <<>>, ~IsArchTag(NextTag(run))
  PROVE  MadeFor({image[SourceTag(run, arch)] : arch \in ToSet(Arch)}, run)
<1>. DEFINE source(arch) == image[SourceTag(run, arch)]
<1>1. /\ Pending(run)
      /\ \A tag \in DOMAIN image : SoundImage(tag)
  BY DEF IInv, SoundRun
<1>2. ASSUME NEW arch \in Archs
      PROVE  /\ source(arch) \in Images /\ source(arch).arch = arch
             /\ release[source(arch).run] = release[run] /\ IsAllowed(source(arch).run)
  <2>. DEFINE tag == SourceTag(run, arch)
  <2>1. tag = <<release[run].version, arch>> /\ tag[1] = release[run].version /\ tag[2] = arch
    BY ArchTagsProperties
  <2>2. IsArchTag(tag) /\ tag \in ToSet(PushOrder(run))
    BY <2>1, Names, PushOrderProperties
  <2>3. tag \notin ToSet(tags[run])
    BY <1>1, <2>2, NextTagProperties
  <2>4. SoundImage(tag)
    BY <1>1, <2>2, <2>3 DEF Pending
  <2>. HIDE DEF tag
  <2>5. image[tag].run \in Run
    BY <2>4 DEF SoundImage, Images
  <2>6. release[image[tag].run] = release[run]
    BY <2>1, <2>4, <2>5, ReleaseAssumption DEF SoundImage
  <2>7. image[tag] \in Images /\ image[tag].arch = arch /\ IsAllowed(image[tag].run)
    BY <2>1, <2>4 DEF SoundImage
  <2>. QED  BY <2>6, <2>7 DEF tag
<1>. HIDE DEF source
<1>. DEFINE images == {source(arch) : arch \in Archs}
<1>3. \A i \in images : \E arch \in Archs : i = source(arch)
  OBVIOUS
<1>4. \A arch \in Archs : source(arch) \in images
  OBVIOUS
<1>5. images = {image[SourceTag(run, arch)] : arch \in ToSet(Arch)}
  BY DEF source, Archs
<1>. HIDE DEF images
<1>6. images \subseteq Images /\ \A arch \in Archs : \E i \in images : i.arch = arch
  BY <1>2, <1>3, <1>4
<1>7. \A i, j \in images : i.arch = j.arch => i = j
  BY <1>2, <1>3
<1>8. \A i \in images : release[i.run] = release[run] /\ IsAllowed(i.run)
  BY <1>2, <1>3
<1>. QED  BY <1>5, <1>6, <1>7, <1>8 DEF MadeFor

(* Only stable releases push tags that move: no such tag is called as a      *)
(* version.                                                                  *)
LEMMA OnlyVersions ==
  ASSUME NEW run \in Run, ~IsStable(run), NEW tag \in ToSet(PushOrder(run)), NEW other \in Run
  PROVE  tag \notin AliasTags(other)
<1>1. tag[1] = release[run].version
  <2>1. CASE IsArchTag(tag)
    BY <2>1, PushOrderProperties
  <2>2. CASE ~IsArchTag(tag)
    <3>1. tag \in ToSet(ManifestTags(run))
      BY <2>2, PushOrderProperties
    <3>. QED  BY <3>1, ManifestTagsProperties
  <2>. QED  BY <2>1, <2>2
<1>2. \A alias \in AliasTags(other) : alias[1] \in {release[other].major, "latest"}
  BY DEF AliasTags
<1>. QED  BY <1>1, <1>2, ReleaseAssumption

-----------------------------------------------------------------------------
(***************************************************************************)
(* What a step leaves alone.                                               *)
(***************************************************************************)
LEMMA SoundImagesKept ==
  ASSUME IInv, trigger' = trigger, image' = image
  PROVE  \A tag \in DOMAIN image' : SoundImage(tag)'
<1>1. \A tag \in DOMAIN image : SoundImage(tag)
  BY DEF IInv
<1>. QED  BY <1>1 DEF SoundImage, IsAllowed

LEMMA SoundManifestsKept ==
  ASSUME IInv, trigger' = trigger, manifest' = manifest
  PROVE  \A tag \in DOMAIN manifest' : SoundManifest(tag)'
<1>1. \A tag \in DOMAIN manifest : SoundManifest(tag)
  BY DEF IInv
<1>. QED  BY <1>1 DEF SoundManifest, MadeFor, IsAllowed

(* A run stays sound as long as no tag is taken out of the registry.         *)
LEMMA SoundRunKept ==
  ASSUME IInv, NEW run \in Run, trigger' = trigger, pc'[run] = pc[run], tags'[run] = tags[run],
         created'[run] = created[run], DOMAIN image \subseteq DOMAIN image'
  PROVE  SoundRun(run)'
<1>1. SoundRun(run)
  BY DEF IInv
<1>2. Pending(run) => Pending(run)'
  BY DEF Pending
<1>3. MadeFor(created[run], run) => MadeFor(created[run], run)'
  BY DEF MadeFor, IsAllowed
<1>4. IsAllowed(run) => IsAllowed(run)'
  BY DEF IsAllowed
<1>. QED  BY <1>1, <1>2, <1>3, <1>4 DEF SoundRun

(* The tags that move stay in order when a step is of no stable release.     *)
LEMMA OrderlyKept ==
  ASSUME IInv, disturbed' = disturbed, last' = last,
         \A run \in Run : IsStable(run) => pc'[run] = pc[run] /\ tags'[run] = tags[run],
         \A run \in Run : \A tag \in AliasTags(run) : AtRelease(tag, run) => AtRelease(tag, run)'
  PROVE  Orderly'
<1>1. Orderly /\ last \in Run \cup {NoRun}
  BY DEF IInv, TypeOK
<1>2. \A run \in Run : Publishes(run)' <=> Publishes(run)
  BY DEF Publishes
<1>3. SUFFICES ASSUME ~disturbed' PROVE Orderly'
  BY DEF Orderly
<1>4. \A run \in Run : IsStable(run) => pc'[run] # "failed"
  BY <1>1, <1>3 DEF Orderly
<1>5. \A run, other \in Run : Publishes(run)' /\ Publishes(other)' => run = other
  BY <1>1, <1>2, <1>3 DEF Orderly
<1>6. ASSUME NEW run \in Run, Publishes(run)', NEW tag \in AliasTags(run), tag \notin ToSet(tags'[run])
      PROVE  AtRelease(tag, run)'
  <2>1. Publishes(run) /\ tag \notin ToSet(tags[run])
    BY <1>2, <1>6 DEF Publishes
  <2>. QED  BY <1>1, <1>3, <2>1 DEF Orderly
<1>7. ASSUME last' # NoRun, \A run \in Run : ~Publishes(run)', NEW tag \in AliasTags(last)
      PROVE  AtRelease(tag, last)'
  <2>1. last \in Run /\ AtRelease(tag, last)
    BY <1>1, <1>2, <1>3, <1>7 DEF Orderly
  <2>. QED  BY <2>1
<1>. QED  BY <1>3, <1>4, <1>5, <1>6, <1>7 DEF Orderly

-----------------------------------------------------------------------------
(* The invariant holds at first, and every step keeps it.                    *)
LEMMA Initially == Init => IInv
<1>. SUFFICES ASSUME Init PROVE IInv
  OBVIOUS
<1>1. \A run \in Run : pc[run] = "waiting" /\ tags[run] = <<>> /\ created[run] = {}
  BY DEF Init
<1>2. DOMAIN image = {} /\ DOMAIN manifest = {}
  BY DEF Init
<1>3. TypeOK
  BY <1>1, <1>2 DEF Init, TypeOK
<1>4. tags \in [Run -> Seq(Tags)] /\ created \in [Run -> SUBSET Images]
  BY NoTags DEF Init
<1>5. \A run \in Run : SoundRun(run)
  BY <1>1 DEF SoundRun
<1>6. Orderly
  BY <1>1 DEF Init, Orderly, Publishes
<1>. QED  BY <1>2, <1>3, <1>4, <1>5, <1>6 DEF Init, IInv

LEMMA StartKeeps ==
  ASSUME IInv, NEW run \in Run, Start(run)
  PROVE  IInv'
<1>. USE DEF Start
<1>1. /\ pc \in [Run -> {"waiting", "refused", "pushing", "failed", "done"}]
      /\ tags \in [Run -> Seq(Tags)] /\ created \in [Run -> SUBSET Images]
      /\ disturbed \in BOOLEAN /\ pc[run] = "waiting" /\ tags[run] = <<>> /\ created[run] = {}
  BY DEF IInv, TypeOK
<1>2. PushOrder(run) \in Seq(Tags)
  BY PushOrderProperties
<1>3. /\ pc' = [pc EXCEPT ![run] = IF IsAllowed(run) THEN "pushing" ELSE "refused"]
      /\ tags' = [tags EXCEPT ![run] = IF IsAllowed(run) THEN PushOrder(run) ELSE <<>>]
  BY <1>1
<1>4. \A other \in Run : other # run => pc'[other] = pc[other] /\ tags'[other] = tags[other]
  BY <1>1, <1>3
<1>5. /\ pc'[run] = IF IsAllowed(run) THEN "pushing" ELSE "refused"
      /\ tags'[run] = IF IsAllowed(run) THEN PushOrder(run) ELSE <<>>
  BY <1>1, <1>3
<1>6. TypeOK'
  <2>1. pc' \in [Run -> {"waiting", "refused", "pushing", "failed", "done"}]
    BY <1>1, <1>3
  <2>2. \A other \in Run :
          /\ pc'[other] # "pushing" => tags'[other] = <<>> /\ created'[other] = {}
          /\ created'[other] \subseteq Images
          /\ created'[other] # {} => tags'[other] # <<>> /\ ~IsArchTag(NextTag(other))'
    BY <1>1, <1>4, <1>5 DEF IInv, TypeOK, NextTag, IsArchTag
  <2>3. disturbed' \in BOOLEAN
    BY <1>1
  <2>4. /\ \A tag \in DOMAIN image' : image'[tag] \in Images /\ IsArchTag(tag)
        /\ \A tag \in DOMAIN manifest' : manifest'[tag] \subseteq Images /\ ~IsArchTag(tag)
        /\ last' \in Run \cup {NoRun}
    BY DEF IInv, TypeOK
  <2>. QED  BY <2>1, <2>2, <2>3, <2>4 DEF TypeOK
<1>7. tags' \in [Run -> Seq(Tags)] /\ created' \in [Run -> SUBSET Images]
  BY <1>1, <1>2, <1>3, NoTags
<1>8. /\ \A tag \in DOMAIN image' : SoundImage(tag)'
      /\ \A tag \in DOMAIN manifest' : SoundManifest(tag)'
  BY SoundImagesKept, SoundManifestsKept
<1>9. ASSUME NEW other \in Run PROVE SoundRun(other)'
  <2>1. CASE other # run
    BY <1>4, <2>1, SoundRunKept
  <2>2. CASE other = run
    <3>1. IsAllowed(run)' <=> IsAllowed(run)
      BY DEF IsAllowed
    <3>2. ASSUME IsAllowed(run) PROVE Pending(run)'
      BY <1>5, <3>2, PushOrderProperties DEF Pending
    <3>. QED  BY <1>1, <1>5, <2>2, <3>1, <3>2 DEF SoundRun
  <2>. QED  BY <2>1, <2>2
<1>10. Orderly'
  <2>1. SUFFICES ASSUME ~disturbed' PROVE Orderly'
    BY DEF Orderly
  <2>2. ~disturbed /\ Orderly
    BY <2>1 DEF IInv
  <2>3. \A other \in Run : IsStable(other) => pc'[other] # "failed"
    BY <1>4, <1>5, <2>2 DEF Orderly
  <2>4. ASSUME NEW one \in Run, NEW other \in Run, Publishes(one)', Publishes(other)', one # other
        PROVE  FALSE
    <3>1. CASE one # run /\ other # run
      BY <1>4, <2>2, <2>4, <3>1 DEF Orderly, Publishes
    <3>2. CASE one = run \/ other = run
      <4>1. IsAllowed(run) /\ IsStable(run)
        BY <1>5, <2>4, <3>2 DEF Publishes
      <4>2. \A r \in Run \ {run} : ~(pc[r] = "pushing" /\ IsStable(r))
        BY <2>1, <4>1
      <4>. QED  BY <1>4, <2>4, <3>2, <4>2 DEF Publishes
    <3>. QED  BY <3>1, <3>2
  <2>5. ASSUME NEW other \in Run, Publishes(other)', NEW tag \in AliasTags(other),
               tag \notin ToSet(tags'[other])
        PROVE  AtRelease(tag, other)'
    <3>1. CASE other = run
      <4>1. tags'[run] = PushOrder(run) /\ IsStable(run)
        BY <1>5, <2>5, <3>1 DEF Publishes
      <4>. QED  BY <2>5, <3>1, <4>1, PushOrderProperties
    <3>2. CASE other # run
      <4>1. Publishes(other) /\ tag \notin ToSet(tags[other])
        BY <1>4, <2>5, <3>2 DEF Publishes
      <4>2. AtRelease(tag, other)
        BY <2>2, <2>5, <4>1 DEF Orderly
      <4>. QED  BY <4>2 DEF AtRelease
    <3>. QED  BY <3>1, <3>2
  <2>6. ASSUME last' # NoRun, \A other \in Run : ~Publishes(other)', NEW tag \in AliasTags(last)
        PROVE  AtRelease(tag, last)'
    <3>1. \A other \in Run : ~Publishes(other)
      BY <1>1, <1>4, <2>6 DEF Publishes
    <3>2. AtRelease(tag, last)
      BY <2>2, <2>6, <3>1 DEF Orderly
    <3>. QED  BY <3>2 DEF AtRelease
  <2>7. \A tag \in AliasTags(last') : last' # NoRun /\ (\A other \in Run : ~Publishes(other)') => AtRelease(tag, last)'
    BY <2>6
  <2>. QED  BY <2>3, <2>4, <2>5, <2>7 DEF Orderly
<1>. QED  BY <1>6, <1>7, <1>8, <1>9, <1>10 DEF IInv

LEMMA PushImageKeeps ==
  ASSUME IInv, NEW run \in Run, PushImage(run)
  PROVE  IInv'
<1>. DEFINE next == NextTag(run)
            content == [run |-> run, arch |-> next[2]]
<1>1. /\ tags \in [Run -> Seq(Tags)] /\ created \in [Run -> SUBSET Images]
      /\ pc \in [Run -> {"waiting", "refused", "pushing", "failed", "done"}]
      /\ pc[run] = "pushing" /\ tags[run] # <<>> /\ IsArchTag(next)
      /\ pc' = pc /\ created' = created /\ trigger' = trigger /\ manifest' = manifest
      /\ last' = last /\ disturbed' = disturbed
      /\ IsAllowed(run) /\ Pending(run)
  BY DEF IInv, TypeOK, SoundRun, PushImage
<1>2. created[run] = {}
  BY <1>1 DEF IInv, TypeOK
<1>3. /\ next \in Tags /\ next \in ToSet(PushOrder(run)) /\ Tail(tags[run]) \in Seq(Tags)
      /\ ToSet(tags[run]) = {next} \cup ToSet(Tail(tags[run]))
      /\ ArchsFirst(Tail(tags[run]))
  BY <1>1, NextTagProperties
<1>4. /\ tags' = [tags EXCEPT ![run] = Tail(tags[run])]
      /\ tags'[run] = Tail(tags[run])
      /\ \A other \in Run : other # run => tags'[other] = tags[other]
  BY <1>1 DEF PushImage
<1>5. /\ DOMAIN image' = DOMAIN image \cup {next} /\ image'[next] = content
      /\ \A tag \in DOMAIN image : tag # next => image'[tag] = image[tag]
  BY DEF PushImage, Pushed
<1>6. content \in Images /\ content.run = run /\ content.arch = next[2]
  BY <1>1 DEF IsArchTag, Images
<1>7. next[1] = release[run].version \/ (IsStable(run) /\ next[1] = release[run].major)
  BY <1>1, <1>3, PushOrderProperties
<1>. HIDE DEF next, content
<1>8. TypeOK'
  <2>1. \A tag \in DOMAIN image' : image'[tag] \in Images /\ IsArchTag(tag)
    BY <1>1, <1>5, <1>6 DEF IInv, TypeOK
  <2>2. \A other \in Run :
          /\ pc'[other] # "pushing" => tags'[other] = <<>> /\ created'[other] = {}
          /\ created'[other] \subseteq Images
          /\ created'[other] # {} => tags'[other] # <<>> /\ ~IsArchTag(NextTag(other))'
    BY <1>1, <1>2, <1>4 DEF IInv, TypeOK, NextTag, IsArchTag
  <2>3. /\ pc' \in [Run -> {"waiting", "refused", "pushing", "failed", "done"}]
        /\ \A tag \in DOMAIN manifest' : manifest'[tag] \subseteq Images /\ ~IsArchTag(tag)
        /\ last' \in Run \cup {NoRun} /\ disturbed' \in BOOLEAN
    BY <1>1 DEF IInv, TypeOK
  <2>. QED  BY <2>1, <2>2, <2>3 DEF TypeOK
<1>9. tags' \in [Run -> Seq(Tags)]
  BY <1>1, <1>3, <1>4
<1>10. ASSUME NEW tag \in DOMAIN image' PROVE SoundImage(tag)'
  <2>1. CASE tag = next
    <3>1. /\ tag \in Tags /\ image'[tag] \in Images
          /\ image'[tag].arch = tag[2] /\ image'[tag].run = run
      BY <1>3, <1>5, <1>6, <2>1
    <3>2. IsAllowed(run)'
      BY <1>1 DEF IsAllowed
    <3>. QED  BY <1>7, <2>1, <3>1, <3>2 DEF SoundImage, IsAllowed
  <2>2. CASE tag # next
    <3>1. SoundImage(tag) /\ image'[tag] = image[tag]
      BY <1>5, <2>2 DEF IInv
    <3>. QED  BY <1>1, <3>1 DEF SoundImage, IsAllowed
  <2>. QED  BY <2>1, <2>2
<1>11. ASSUME NEW other \in Run PROVE SoundRun(other)'
  <2>1. CASE other # run
    BY <1>1, <1>4, <1>5, <2>1, SoundRunKept
  <2>2. CASE other = run
    <3>1. IsAllowed(run)'
      BY <1>1 DEF IsAllowed
    <3>2. Pending(run)'
      BY <1>1, <1>3, <1>4, <1>5 DEF Pending
    <3>. QED  BY <1>1, <1>2, <2>2, <3>1, <3>2 DEF SoundRun
  <2>. QED  BY <2>1, <2>2
<1>12. Orderly'
  <2>1. \A tag, other : (AtRelease(tag, other) /\ tag # next) => AtRelease(tag, other)'
    BY <1>1, <1>5 DEF AtRelease
  <2>2. CASE ~IsStable(run)
    <3>1. \A other \in Run : \A tag \in AliasTags(other) : tag # next
      BY <1>3, <2>2, OnlyVersions
    <3>2. \A other \in Run : IsStable(other) => pc'[other] = pc[other] /\ tags'[other] = tags[other]
      BY <1>1, <1>4, <2>2
    <3>. QED  BY <1>1, <2>1, <3>1, <3>2, OrderlyKept
  <2>3. CASE IsStable(run)
    <3>1. SUFFICES ASSUME ~disturbed' PROVE Orderly'
      BY DEF Orderly
    <3>2. ~disturbed /\ Orderly
      BY <1>1, <3>1 DEF IInv
    <3>3. Publishes(run) /\ \A other \in Run : Publishes(other)' <=> Publishes(other)
      BY <1>1, <2>3 DEF Publishes
    <3>4. \A other \in Run : Publishes(other)' => other = run
      BY <3>2, <3>3 DEF Orderly
    <3>5. \A other \in Run : IsStable(other) => pc'[other] # "failed"
      BY <1>1, <3>2 DEF Orderly
    <3>6. ASSUME NEW tag \in AliasTags(run), tag \notin ToSet(tags'[run])
          PROVE  AtRelease(tag, run)'
      <4>1. CASE tag = next
        BY <1>1, <1>5, <1>6, <4>1 DEF AtRelease
      <4>2. CASE tag # next
        <5>1. AtRelease(tag, run)
          BY <1>3, <1>4, <3>2, <3>3, <3>6, <4>2 DEF Orderly
        <5>. QED  BY <2>1, <4>2, <5>1
      <4>. QED  BY <4>1, <4>2
    <3>. QED  BY <3>3, <3>4, <3>5, <3>6 DEF Orderly
  <2>. QED  BY <2>2, <2>3
<1>13. \A tag \in DOMAIN manifest' : SoundManifest(tag)'
  BY <1>1, SoundManifestsKept
<1>. QED  BY <1>1, <1>8, <1>9, <1>10, <1>11, <1>12, <1>13 DEF IInv

LEMMA CreateManifestKeeps ==
  ASSUME IInv, NEW run \in Run, CreateManifest(run)
  PROVE  IInv'
<1>. DEFINE images == {image[SourceTag(run, arch)] : arch \in ToSet(Arch)}
<1>1. /\ created \in [Run -> SUBSET Images]
      /\ pc[run] = "pushing" /\ tags[run] # <<>> /\ ~IsArchTag(NextTag(run))
      /\ pc' = pc /\ tags' = tags /\ trigger' = trigger /\ image' = image /\ manifest' = manifest
      /\ last' = last /\ disturbed' = disturbed
      /\ created' = [created EXCEPT ![run] = images]
  BY DEF IInv, CreateManifest
<1>2. MadeFor(images, run)
  BY <1>1, SourcesSound
<1>. HIDE DEF images
<1>3. /\ created'[run] = images /\ images \subseteq Images
      /\ \A other \in Run : other # run => created'[other] = created[other]
  BY <1>1, <1>2 DEF MadeFor
<1>4. TypeOK'
  <2>1. \A other \in Run :
          /\ pc'[other] # "pushing" => tags'[other] = <<>> /\ created'[other] = {}
          /\ created'[other] \subseteq Images
          /\ created'[other] # {} => tags'[other] # <<>> /\ ~IsArchTag(NextTag(other))'
    BY <1>1, <1>3 DEF IInv, TypeOK, NextTag, IsArchTag
  <2>. QED  BY <1>1, <2>1 DEF IInv, TypeOK
<1>5. tags' \in [Run -> Seq(Tags)] /\ created' \in [Run -> SUBSET Images]
  BY <1>1, <1>3 DEF IInv
<1>6. ASSUME NEW other \in Run PROVE SoundRun(other)'
  <2>1. CASE other # run
    BY <1>1, <1>3, <2>1, SoundRunKept
  <2>2. CASE other = run
    <3>1. IsAllowed(run)' /\ Pending(run)'
      BY <1>1 DEF IInv, SoundRun, IsAllowed, Pending
    <3>2. MadeFor(created[run], run)'
      BY <1>1, <1>2, <1>3 DEF MadeFor, IsAllowed
    <3>. QED  BY <2>2, <3>1, <3>2 DEF SoundRun
  <2>. QED  BY <2>1, <2>2
<1>7. \A other \in Run : \A tag \in AliasTags(other) : AtRelease(tag, other) => AtRelease(tag, other)'
  BY <1>1 DEF AtRelease
<1>8. Orderly'
  BY <1>1, <1>7, OrderlyKept
<1>9. /\ \A tag \in DOMAIN image' : SoundImage(tag)'
      /\ \A tag \in DOMAIN manifest' : SoundManifest(tag)'
  BY <1>1, SoundImagesKept, SoundManifestsKept
<1>. QED  BY <1>1, <1>4, <1>5, <1>6, <1>8, <1>9 DEF IInv

LEMMA PushManifestKeeps ==
  ASSUME IInv, NEW run \in Run, PushManifest(run)
  PROVE  IInv'
<1>. DEFINE next == NextTag(run)
            images == created[run]
<1>1. /\ tags \in [Run -> Seq(Tags)] /\ created \in [Run -> SUBSET Images]
      /\ pc \in [Run -> {"waiting", "refused", "pushing", "failed", "done"}]
      /\ images # {} /\ pc[run] = "pushing" /\ tags[run] # <<>> /\ ~IsArchTag(next)
      /\ pc' = pc /\ trigger' = trigger /\ image' = image
      /\ last' = last /\ disturbed' = disturbed
      /\ created' = [created EXCEPT ![run] = {}]
      /\ IsAllowed(run) /\ Pending(run) /\ MadeFor(images, run)
  BY DEF IInv, TypeOK, SoundRun, PushManifest
<1>2. /\ created'[run] = {}
      /\ \A other \in Run : other # run => created'[other] = created[other]
  BY <1>1
<1>3. /\ next \in Tags /\ next \in ToSet(PushOrder(run)) /\ Tail(tags[run]) \in Seq(Tags)
      /\ ToSet(tags[run]) = {next} \cup ToSet(Tail(tags[run]))
      /\ ArchsFirst(Tail(tags[run]))
  BY <1>1, NextTagProperties
<1>4. /\ tags' = [tags EXCEPT ![run] = Tail(tags[run])]
      /\ tags'[run] = Tail(tags[run])
      /\ \A other \in Run : other # run => tags'[other] = tags[other]
  BY <1>1 DEF PushManifest
<1>5. /\ DOMAIN manifest' = DOMAIN manifest \cup {next} /\ manifest'[next] = images
      /\ \A tag \in DOMAIN manifest : tag # next => manifest'[tag] = manifest[tag]
  BY DEF PushManifest, Pushed
<1>6. next \in ToSet(ManifestTags(run))
  BY <1>1, <1>3, PushOrderProperties
<1>. HIDE DEF next, images
<1>7. TypeOK'
  <2>1. \A tag \in DOMAIN manifest' : manifest'[tag] \subseteq Images /\ ~IsArchTag(tag)
    BY <1>1, <1>5 DEF IInv, TypeOK, MadeFor
  <2>2. \A other \in Run :
          /\ pc'[other] # "pushing" => tags'[other] = <<>> /\ created'[other] = {}
          /\ created'[other] \subseteq Images
          /\ created'[other] # {} => tags'[other] # <<>> /\ ~IsArchTag(NextTag(other))'
    BY <1>1, <1>2, <1>4 DEF IInv, TypeOK, NextTag, IsArchTag
  <2>3. /\ pc' \in [Run -> {"waiting", "refused", "pushing", "failed", "done"}]
        /\ \A tag \in DOMAIN image' : image'[tag] \in Images /\ IsArchTag(tag)
        /\ last' \in Run \cup {NoRun} /\ disturbed' \in BOOLEAN
    BY <1>1 DEF IInv, TypeOK
  <2>. QED  BY <2>1, <2>2, <2>3 DEF TypeOK
<1>8. tags' \in [Run -> Seq(Tags)] /\ created' \in [Run -> SUBSET Images]
  BY <1>1, <1>3, <1>4
<1>9. ASSUME NEW tag \in DOMAIN manifest' PROVE SoundManifest(tag)'
  <2>1. CASE tag = next
    <3>1. MadeFor(manifest[tag], run)'
      BY <1>1, <1>5, <2>1 DEF MadeFor, IsAllowed
    <3>. QED  BY <1>6, <2>1, <3>1 DEF SoundManifest
  <2>2. CASE tag # next
    <3>1. SoundManifest(tag) /\ manifest'[tag] = manifest[tag]
      BY <1>5, <2>2 DEF IInv
    <3>2. PICK other \in Run : tag \in ToSet(ManifestTags(other)) /\ MadeFor(manifest[tag], other)
      BY <3>1 DEF SoundManifest
    <3>3. MadeFor(manifest[tag], other)'
      BY <1>1, <3>1, <3>2 DEF MadeFor, IsAllowed
    <3>. QED  BY <3>2, <3>3 DEF SoundManifest
  <2>. QED  BY <2>1, <2>2
<1>10. ASSUME NEW other \in Run PROVE SoundRun(other)'
  <2>1. CASE other # run
    BY <1>1, <1>2, <1>4, <2>1, SoundRunKept
  <2>2. CASE other = run
    <3>1. IsAllowed(run)'
      BY <1>1 DEF IsAllowed
    <3>2. Pending(run)'
      BY <1>1, <1>3, <1>4 DEF Pending
    <3>. QED  BY <1>2, <2>2, <3>1, <3>2 DEF SoundRun
  <2>. QED  BY <2>1, <2>2
<1>11. Orderly'
  <2>1. \A tag, other : (AtRelease(tag, other) /\ tag # next) => AtRelease(tag, other)'
    BY <1>1, <1>5 DEF AtRelease
  <2>2. CASE ~IsStable(run)
    <3>1. \A other \in Run : \A tag \in AliasTags(other) : tag # next
      BY <1>3, <2>2, OnlyVersions
    <3>2. \A other \in Run : IsStable(other) => pc'[other] = pc[other] /\ tags'[other] = tags[other]
      BY <1>1, <1>4, <2>2
    <3>. QED  BY <1>1, <2>1, <3>1, <3>2, OrderlyKept
  <2>3. CASE IsStable(run)
    <3>1. SUFFICES ASSUME ~disturbed' PROVE Orderly'
      BY DEF Orderly
    <3>2. ~disturbed /\ Orderly
      BY <1>1, <3>1 DEF IInv
    <3>3. Publishes(run) /\ \A other \in Run : Publishes(other)' <=> Publishes(other)
      BY <1>1, <2>3 DEF Publishes
    <3>4. \A other \in Run : Publishes(other)' => other = run
      BY <3>2, <3>3 DEF Orderly
    <3>5. \A other \in Run : IsStable(other) => pc'[other] # "failed"
      BY <1>1, <3>2 DEF Orderly
    <3>6. ASSUME NEW tag \in AliasTags(run), tag \notin ToSet(tags'[run])
          PROVE  AtRelease(tag, run)'
      <4>1. CASE tag = next
        BY <1>1, <1>5, <4>1 DEF AtRelease, MadeFor
      <4>2. CASE tag # next
        <5>1. AtRelease(tag, run)
          BY <1>3, <1>4, <3>2, <3>3, <3>6, <4>2 DEF Orderly
        <5>. QED  BY <2>1, <4>2, <5>1
      <4>. QED  BY <4>1, <4>2
    <3>. QED  BY <3>3, <3>4, <3>5, <3>6 DEF Orderly
  <2>. QED  BY <2>2, <2>3
<1>12. \A tag \in DOMAIN image' : SoundImage(tag)'
  BY <1>1, SoundImagesKept
<1>. QED  BY <1>1, <1>7, <1>8, <1>9, <1>10, <1>11, <1>12 DEF IInv

(* A stable release that ends has moved its tags, and is the last one.       *)
LEMMA FinishKeeps ==
  ASSUME IInv, NEW run \in Run, Finish(run)
  PROVE  IInv'
<1>1. /\ pc \in [Run -> {"waiting", "refused", "pushing", "failed", "done"}]
      /\ pc[run] = "pushing" /\ tags[run] = <<>> /\ created[run] = {}
      /\ pc' = [pc EXCEPT ![run] = "done"] /\ tags' = tags /\ created' = created
      /\ trigger' = trigger /\ image' = image /\ manifest' = manifest /\ disturbed' = disturbed
      /\ last' = IF IsStable(run) THEN run ELSE last
  BY DEF IInv, TypeOK, Finish
<1>2. /\ pc'[run] = "done"
      /\ \A other \in Run : other # run => pc'[other] = pc[other]
  BY <1>1
<1>3. TypeOK'
  <2>1. \A other \in Run :
          /\ pc'[other] # "pushing" => tags'[other] = <<>> /\ created'[other] = {}
          /\ created'[other] \subseteq Images
          /\ created'[other] # {} => tags'[other] # <<>> /\ ~IsArchTag(NextTag(other))'
    BY <1>1, <1>2 DEF IInv, TypeOK, NextTag, IsArchTag
  <2>2. pc' \in [Run -> {"waiting", "refused", "pushing", "failed", "done"}]
        /\ last' \in Run \cup {NoRun}
    BY <1>1 DEF IInv, TypeOK
  <2>. QED  BY <1>1, <2>1, <2>2 DEF IInv, TypeOK
<1>4. ASSUME NEW other \in Run PROVE SoundRun(other)'
  <2>1. CASE other # run
    BY <1>1, <1>2, <2>1, SoundRunKept
  <2>2. CASE other = run
    BY <1>1, <1>2, <2>2 DEF SoundRun
  <2>. QED  BY <2>1, <2>2
<1>5. \A tag, other : AtRelease(tag, other)' <=> AtRelease(tag, other)
  BY <1>1 DEF AtRelease
<1>6. Orderly'
  <2>1. CASE ~IsStable(run)
    <3>1. \A other \in Run : IsStable(other) => pc'[other] = pc[other] /\ tags'[other] = tags[other]
      BY <1>1, <1>2, <2>1
    <3>2. \A other \in Run : \A tag \in AliasTags(other) : AtRelease(tag, other) => AtRelease(tag, other)'
      BY <1>5
    <3>. QED  BY <1>1, <2>1, <3>1, <3>2, OrderlyKept
  <2>2. CASE IsStable(run)
    <3>1. SUFFICES ASSUME ~disturbed' PROVE Orderly'
      BY DEF Orderly
    <3>2. ~disturbed /\ Orderly /\ Publishes(run)
      BY <1>1, <2>2, <3>1 DEF IInv, Publishes
    <3>3. \A other \in Run : ~Publishes(other)'
      BY <1>2, <3>2 DEF Orderly, Publishes
    <3>4. \A other \in Run : IsStable(other) => pc'[other] # "failed"
      BY <1>2, <3>2 DEF Orderly
    <3>5. \A tag \in AliasTags(run) : AtRelease(tag, run)
      BY <1>1, <3>2, NoTags DEF Orderly
    <3>6. last' = run /\ \A tag \in AliasTags(run) : AtRelease(tag, run)'
      BY <1>1, <1>5, <2>2, <3>5
    <3>7. \A tag \in AliasTags(last') : AtRelease(tag, last)'
      BY <3>6
    <3>. QED  BY <3>3, <3>4, <3>7 DEF Orderly
  <2>. QED  BY <2>1, <2>2
<1>7. /\ \A tag \in DOMAIN image' : SoundImage(tag)'
      /\ \A tag \in DOMAIN manifest' : SoundManifest(tag)'
  BY <1>1, SoundImagesKept, SoundManifestsKept
<1>8. last' # NoRun => IsStable(last')
  BY <1>1 DEF IInv
<1>9. trigger' \in Triggers /\ tags' \in [Run -> Seq(Tags)] /\ created' \in [Run -> SUBSET Images]
  BY <1>1 DEF IInv
<1>. QED  BY <1>3, <1>4, <1>6, <1>7, <1>8, <1>9 DEF IInv

LEMMA FailKeeps ==
  ASSUME IInv, NEW run \in Run, Fail(run)
  PROVE  IInv'
<1>1. /\ pc \in [Run -> {"waiting", "refused", "pushing", "failed", "done"}]
      /\ tags \in [Run -> Seq(Tags)] /\ created \in [Run -> SUBSET Images] /\ disturbed \in BOOLEAN
      /\ pc[run] = "pushing" /\ IsAllowed(run)
      /\ pc' = [pc EXCEPT ![run] = "failed"]
      /\ created' = [created EXCEPT ![run] = {}] /\ tags' = [tags EXCEPT ![run] = <<>>]
      /\ disturbed' = (disturbed \/ IsStable(run))
      /\ trigger' = trigger /\ image' = image /\ manifest' = manifest /\ last' = last
  BY DEF IInv, TypeOK, SoundRun, Fail
<1>2. /\ pc'[run] = "failed" /\ tags'[run] = <<>> /\ created'[run] = {}
      /\ \A other \in Run : other # run =>
           pc'[other] = pc[other] /\ tags'[other] = tags[other] /\ created'[other] = created[other]
  BY <1>1
<1>3. TypeOK'
  <2>1. \A other \in Run :
          /\ pc'[other] # "pushing" => tags'[other] = <<>> /\ created'[other] = {}
          /\ created'[other] \subseteq Images
          /\ created'[other] # {} => tags'[other] # <<>> /\ ~IsArchTag(NextTag(other))'
    BY <1>2 DEF IInv, TypeOK, NextTag, IsArchTag
  <2>2. pc' \in [Run -> {"waiting", "refused", "pushing", "failed", "done"}] /\ disturbed' \in BOOLEAN
    BY <1>1
  <2>. QED  BY <1>1, <2>1, <2>2 DEF IInv, TypeOK
<1>4. ASSUME NEW other \in Run PROVE SoundRun(other)'
  <2>1. CASE other # run
    BY <1>1, <1>2, <2>1, SoundRunKept
  <2>2. CASE other = run
    <3>1. IsAllowed(run)'
      BY <1>1 DEF IsAllowed
    <3>. QED  BY <1>2, <2>2, <3>1 DEF SoundRun
  <2>. QED  BY <2>1, <2>2
<1>5. Orderly'
  <2>1. CASE IsStable(run)
    BY <1>1, <2>1 DEF Orderly
  <2>2. CASE ~IsStable(run)
    <3>1. \A other \in Run : IsStable(other) => pc'[other] = pc[other] /\ tags'[other] = tags[other]
      BY <1>2, <2>2
    <3>2. \A other \in Run : \A tag \in AliasTags(other) : AtRelease(tag, other) => AtRelease(tag, other)'
      BY <1>1 DEF AtRelease
    <3>3. disturbed' = disturbed
      BY <1>1, <2>2
    <3>. QED  BY <1>1, <3>1, <3>2, <3>3, OrderlyKept
  <2>. QED  BY <2>1, <2>2
<1>6. /\ \A tag \in DOMAIN image' : SoundImage(tag)'
      /\ \A tag \in DOMAIN manifest' : SoundManifest(tag)'
  BY <1>1, SoundImagesKept, SoundManifestsKept
<1>7. tags' \in [Run -> Seq(Tags)] /\ created' \in [Run -> SUBSET Images]
  BY <1>1, NoTags
<1>. QED  BY <1>1, <1>3, <1>4, <1>5, <1>6, <1>7 DEF IInv

(* A run that failed comes back: nothing is taken from the registry, and a   *)
(* stable release that failed has disturbed the order for good.              *)
LEMMA RerunKeeps ==
  ASSUME IInv, NEW run \in Run, Rerun(run)
  PROVE  IInv'
<1>1. /\ pc \in [Run -> {"waiting", "refused", "pushing", "failed", "done"}]
      /\ tags \in [Run -> Seq(Tags)] /\ pc[run] = "failed" /\ created[run] = {} /\ IsAllowed(run)
      /\ pc' = [pc EXCEPT ![run] = "pushing"] /\ tags' = [tags EXCEPT ![run] = PushOrder(run)]
      /\ created' = created /\ disturbed' = disturbed
      /\ trigger' = trigger /\ image' = image /\ manifest' = manifest /\ last' = last
  BY DEF IInv, TypeOK, SoundRun, Rerun
<1>2. /\ pc'[run] = "pushing" /\ tags'[run] = PushOrder(run)
      /\ \A other \in Run : other # run => pc'[other] = pc[other] /\ tags'[other] = tags[other]
  BY <1>1
<1>3. TypeOK'
  <2>1. \A other \in Run :
          /\ pc'[other] # "pushing" => tags'[other] = <<>> /\ created'[other] = {}
          /\ created'[other] \subseteq Images
          /\ created'[other] # {} => tags'[other] # <<>> /\ ~IsArchTag(NextTag(other))'
    BY <1>1, <1>2 DEF IInv, TypeOK, NextTag, IsArchTag
  <2>2. pc' \in [Run -> {"waiting", "refused", "pushing", "failed", "done"}]
    BY <1>1
  <2>. QED  BY <1>1, <2>1, <2>2 DEF IInv, TypeOK
<1>4. ASSUME NEW other \in Run PROVE SoundRun(other)'
  <2>1. CASE other # run
    BY <1>1, <1>2, <2>1, SoundRunKept
  <2>2. CASE other = run
    <3>1. IsAllowed(run)'
      BY <1>1 DEF IsAllowed
    <3>2. Pending(run)'
      BY <1>2, PushOrderProperties DEF Pending
    <3>. QED  BY <1>1, <2>2, <3>1, <3>2 DEF SoundRun
  <2>. QED  BY <2>1, <2>2
<1>5. Orderly'
  <2>1. CASE IsStable(run)
    <3>1. disturbed
      BY <1>1, <2>1 DEF IInv, Orderly
    <3>. QED  BY <1>1, <3>1 DEF Orderly
  <2>2. CASE ~IsStable(run)
    <3>1. \A other \in Run : IsStable(other) => pc'[other] = pc[other] /\ tags'[other] = tags[other]
      BY <1>2, <2>2
    <3>2. \A other \in Run : \A tag \in AliasTags(other) : AtRelease(tag, other) => AtRelease(tag, other)'
      BY <1>1 DEF AtRelease
    <3>. QED  BY <1>1, <3>1, <3>2, OrderlyKept
  <2>. QED  BY <2>1, <2>2
<1>6. /\ \A tag \in DOMAIN image' : SoundImage(tag)'
      /\ \A tag \in DOMAIN manifest' : SoundManifest(tag)'
  BY <1>1, SoundImagesKept, SoundManifestsKept
<1>7. tags' \in [Run -> Seq(Tags)]
  BY <1>1, PushOrderProperties
<1>. QED  BY <1>1, <1>3, <1>4, <1>5, <1>6, <1>7 DEF IInv

LEMMA Inductive == IInv /\ [Next]_vars => IInv'
<1>. SUFFICES ASSUME IInv, [Next]_vars PROVE IInv'
  OBVIOUS
<1>1. CASE Next
  <2>1. PICK run \in Run :
          \/ Start(run) \/ PushImage(run) \/ CreateManifest(run) \/ PushManifest(run)
          \/ Finish(run) \/ Fail(run) \/ Rerun(run)
    BY <1>1 DEF Next
  <2>. QED
    BY <2>1, StartKeeps, PushImageKeeps, CreateManifestKeeps, PushManifestKeeps, FinishKeeps,
       FailKeeps, RerunKeeps
<1>2. CASE UNCHANGED vars
  <2>. USE <1>2 DEF vars
  <2>1. TypeOK'
    BY DEF IInv, TypeOK, NextTag, IsArchTag
  <2>2. \A run \in Run : SoundRun(run)'
    BY SoundRunKept
  <2>3. \A run \in Run : \A tag \in AliasTags(run) : AtRelease(tag, run) => AtRelease(tag, run)'
    BY DEF AtRelease
  <2>4. Orderly'
    BY <2>3, OrderlyKept
  <2>5. /\ \A tag \in DOMAIN image' : SoundImage(tag)'
        /\ \A tag \in DOMAIN manifest' : SoundManifest(tag)'
    BY SoundImagesKept, SoundManifestsKept
  <2>. QED  BY <2>1, <2>2, <2>4, <2>5 DEF IInv
<1>. QED  BY <1>1, <1>2

-----------------------------------------------------------------------------
(* The inductive invariant holds in every state of the workflow              *)
(* (release-docker.yml, ghcr-publish), for any runs and architectures.       *)
THEOREM Invariance == Spec => []IInv
BY Initially, Inductive, PTL DEF Spec

(* Only a run that pushes has something left to push, and the registry has   *)
(* images under the tags of architectures, sets of images under the others.  *)
THEOREM TypeCorrect == Spec => []TypeOK
<1>1. IInv => TypeOK
  BY DEF IInv
<1>. QED  BY <1>1, Invariance, PTL

(* A published manifest has one image for each architecture, all of one      *)
(* release, and a tag with a version has images of that version, however     *)
(* runs of the workflow overlap, fail and are run again.                     *)
THEOREM VersionsApart == Spec => []VersionsNeverMix
<1>1. ASSUME IInv PROVE VersionsNeverMix
  <2>1. SUFFICES ASSUME NEW tag \in DOMAIN manifest
                 PROVE  LET versions == {release[i.run].version : i \in manifest[tag]} IN
                        /\ \A arch \in ToSet(Arch) : \E i \in manifest[tag] : i.arch = arch
                        /\ \A i, j \in manifest[tag] : i.arch = j.arch => i = j
                        /\ \E v \in versions : versions = {v}
                        /\ (\E run \in Run : release[run].version = tag[1]) => versions = {tag[1]}
    BY DEF VersionsNeverMix
  <2>. DEFINE versions == {release[i.run].version : i \in manifest[tag]}
  <2>2. PICK run \in Run : tag \in ToSet(ManifestTags(run)) /\ MadeFor(manifest[tag], run)
    BY <1>1 DEF IInv, SoundManifest
  <2>3. PICK i \in manifest[tag] : TRUE
    BY <2>2, Names DEF MadeFor
  <2>4. versions = {release[run].version}
    BY <2>2, <2>3 DEF MadeFor
  <2>5. tag[1] \in {release[run].version, release[run].major, "latest"}
    BY <2>2, ManifestTagsProperties
  <2>6. (\E other \in Run : release[other].version = tag[1]) => versions = {tag[1]}
    <3>. SUFFICES ASSUME NEW other \in Run, release[other].version = tag[1]
                  PROVE  versions = {tag[1]}
      OBVIOUS
    <3>1. tag[1] \notin {release[run].major, "latest"}
      BY ReleaseAssumption
    <3>2. tag[1] = release[run].version
      BY <2>5, <3>1
    <3>. QED  BY <2>4, <3>2
  <2>7. /\ \A arch \in ToSet(Arch) : \E found \in manifest[tag] : found.arch = arch
        /\ \A one, other \in manifest[tag] : one.arch = other.arch => one = other
    BY <2>2 DEF MadeFor, Archs
  <2>. QED  BY <2>4, <2>6, <2>7
<1>. QED  BY <1>1, Invariance, PTL

(* Every image a moving tag leads to is of a stable release, and of none     *)
(* that GitHub marks as a prerelease unless the run was started by hand:     *)
(* AssertReleaseEventAllowed lets no other run push such a tag.              *)
THEOREM OnlyReleasesMoveTags == Spec => []AliasesAreStable
<1>1. ASSUME IInv PROVE AliasesAreStable
  <2>1. SUFFICES ASSUME NEW tag \in DOMAIN image \cup DOMAIN manifest,
                        \A run \in Run : release[run].version # tag[1],
                        NEW i \in IF IsArchTag(tag) THEN {image[tag]} ELSE manifest[tag]
                 PROVE  /\ IsStable(i.run)
                        /\ trigger[i.run].event # "push"
                        /\ trigger[i.run].prerelease =>
                             trigger[i.run].event = "workflow_dispatch"
    BY DEF AliasesAreStable
  <2>2. i.run \in Run /\ IsStable(i.run) /\ IsAllowed(i.run)
    <3>1. CASE IsArchTag(tag)
      <4>1. tag \in DOMAIN image /\ i = image[tag]
        BY <1>1, <2>1, <3>1 DEF IInv, TypeOK
      <4>2. SoundImage(tag) /\ i.run \in Run
        BY <1>1, <4>1 DEF IInv, SoundImage, Images
      <4>. QED  BY <2>1, <4>1, <4>2 DEF SoundImage
    <3>2. CASE ~IsArchTag(tag)
      <4>1. tag \in DOMAIN manifest /\ i \in manifest[tag]
        BY <1>1, <2>1, <3>2 DEF IInv, TypeOK
      <4>2. PICK run \in Run : tag \in ToSet(ManifestTags(run)) /\ MadeFor(manifest[tag], run)
        BY <1>1, <4>1 DEF IInv, SoundManifest
      <4>3. IsStable(run)
        <5>1. SUFFICES ASSUME ~IsStable(run) PROVE FALSE
          OBVIOUS
        <5>2. tag[1] = release[run].version
          BY <4>2, <5>1, ManifestTagsProperties
        <5>. QED  BY <2>1, <5>2
      <4>4. release[i.run] = release[run] /\ IsAllowed(i.run)
        BY <4>1, <4>2 DEF MadeFor
      <4>5. i.run \in Run
        BY <1>1, <4>1 DEF IInv, TypeOK, Images
      <4>. QED  BY <4>3, <4>4, <4>5 DEF IsStable
    <3>. QED  BY <3>1, <3>2
  <2>3. trigger[i.run].event \in {"push", "release", "workflow_dispatch"}
    BY <1>1, <2>2, ReleaseAssumption DEF IInv
  <2>. QED  BY <2>2, <2>3 DEF IsAllowed, IsStable
<1>. QED  BY <1>1, Invariance, PTL

(* When stable releases were published whole and one after the other, the    *)
(* tags that move are all at the last one.                                   *)
THEOREM AliasesInStep == Spec => []AliasesFollowLastRelease
<1>1. ASSUME IInv PROVE AliasesFollowLastRelease
  <2>1. SUFFICES ASSUME ~disturbed, last # NoRun,
                        \A run \in Run : pc[run] = "pushing" => ~IsStable(run)
                 PROVE  /\ \A arch \in ToSet(Arch) :
                             release[image[<<release[last].major, arch>>].run] = release[last]
                        /\ \A tag \in {<<"latest", "release">>, <<"latest", "alpine-musl">>,
                                       <<release[last].major, "alpine-musl">>} :
                             tag \in DOMAIN manifest
                               /\ \A i \in manifest[tag] : release[i.run] = release[last]
    BY DEF AliasesFollowLastRelease
  <2>2. \A tag \in AliasTags(last) : AtRelease(tag, last)
    BY <1>1, <2>1 DEF IInv, Orderly, Publishes
  <2>3. ASSUME NEW arch \in Archs
        PROVE  release[image[<<release[last].major, arch>>].run] = release[last]
    <3>. DEFINE tag == <<release[last].major, arch>>
    <3>1. tag \in AliasTags(last) /\ IsArchTag(tag)
      BY Names DEF AliasTags
    <3>. HIDE DEF tag
    <3>2. release[image[tag].run] = release[last]
      BY <2>2, <3>1 DEF AtRelease
    <3>. QED  BY <3>2 DEF tag
  <2>4. ASSUME NEW tag \in {<<"latest", "release">>, <<"latest", "alpine-musl">>,
                            <<release[last].major, "alpine-musl">>}
        PROVE  tag \in DOMAIN manifest /\ \A i \in manifest[tag] : release[i.run] = release[last]
    <3>1. tag \in AliasTags(last)
      BY DEF AliasTags
    <3>2. ~IsArchTag(tag)
      BY Names
    <3>. QED  BY <2>2, <3>1, <3>2 DEF AtRelease
  <2>. QED  BY <2>3, <2>4 DEF Archs
<1>. QED  BY <1>1, Invariance, PTL
=============================================================================

-------------------------------- MODULE Release --------------------------------
(***************************************************************************)
(* The publication of container images: the plan a release tag gets        *)
(* (docker_image_release.ts) and the job that pushes it to the registry,   *)
(* one tag after the other (release-docker.yml, ghcr-publish).  Nothing    *)
(* keeps two runs of the workflow apart, and a run may fail at any step.   *)
(*                                                                         *)
(* A tag is a pair: what it is for, a version or something that moves, and *)
(* an architecture or the kind of a manifest.  An image is known by the    *)
(* run that built it and its architecture.                                 *)
(***************************************************************************)
EXTENDS Naturals, Sequences, SequencesExt

CONSTANTS
  Run,      \* runs of the workflow
  release,  \* Run -> the release it is for: its version, its major version, its kind
  Triggers, \* what may start the runs: for each an event, and GitHub's mark on the
            \* release of its tag, whether the job sees it or not
  Arch,     \* artifactArchs, in their order
  NoRun

ASSUME ReleaseAssumption ==
  /\ release \in [Run -> [version : STRING, major : STRING, kind : {"stable", "beta", "build"}]]
  /\ Triggers \subseteq [Run -> [event : {"push", "release", "workflow_dispatch"}, prerelease : BOOLEAN]]
  /\ Arch \in Seq(STRING) /\ Arch # <<>>
  /\ ToSet(Arch) \cap {"release", "alpine-musl"} = {}
  /\ NoRun \notin Run
  \* ParseReleaseTag: a version has dots, which a major version does not have,
  \* and says what release it is.
  /\ \A r, s \in Run :
       /\ release[r].version \notin {release[s].major, "latest"}
       /\ release[r].version = release[s].version => release[r] = release[s]

VARIABLES
  trigger,    \* what started each run
  pc,         \* "waiting", "pushing", "done"; "refused" and "failed" end a run, too
  tags,       \* tags a run has still to push, in order
  created,    \* the images of the manifest it has created and not yet pushed
  image,      \* the registry: the image of each tag of an architecture
  manifest,   \* and the images of each tag of a manifest
  last,       \* the run that published as the last one, alone and completely
  disturbed   \* two runs of stable releases met, or one of them failed

vars == <<trigger, pc, tags, created, image, manifest, last, disturbed>>

-----------------------------------------------------------------------------
IsStable(run) == release[run].kind = "stable"

ArchTags(run, arch) ==
  <<<<release[run].version, arch>>>> \o
    (IF IsStable(run) THEN <<<<release[run].major, arch>>>> ELSE <<>>)

\* mutant: alpine-musl is forgotten
ManifestTagsWithoutPlain(run) ==
  IF IsStable(run)
  THEN <<<<release[run].version, "release">>, <<"latest", "release">>,
         <<release[run].version, "alpine-musl">>, <<release[run].major, "alpine-musl">>>>
  ELSE <<<<release[run].version, "release">>, <<release[run].version, "alpine-musl">>>>

(* The tags of both manifests, <<"latest", "alpine-musl">> being the one     *)
(* that is only called alpine-musl.                                          *)
ManifestTags(run) ==
  IF IsStable(run)
  THEN <<<<release[run].version, "release">>, <<"latest", "release">>,
         <<release[run].version, "alpine-musl">>,
         <<release[run].major, "alpine-musl">>, <<"latest", "alpine-musl">>>>
  ELSE <<<<release[run].version, "release">>, <<release[run].version, "alpine-musl">>>>

(* BuildImageReleasePlan, in the order in which its tags are pushed. *)
PushOrder(run) ==
  FlattenSeq([i \in DOMAIN Arch |-> ArchTags(run, Arch[i])]) \o ManifestTags(run)

\* mutant: the prerelease flag is not looked at
IsAllowedByKind(run) == release[run].kind = "build" \/ trigger[run].event # "push"

(* AssertReleaseEventAllowed. *)
IsAllowed(run) ==
  /\ release[run].kind = "build" \/ trigger[run].event # "push"
  /\ trigger[run].event = "release" =>
       /\ IsStable(run) => ~trigger[run].prerelease
       /\ release[run].kind = "beta" => trigger[run].prerelease

(* The job starts when the plan is made and the images are built and scanned. *)
Start(run) ==
  /\ pc[run] = "waiting"
  /\ IF IsAllowed(run)
     THEN /\ pc' = [pc EXCEPT ![run] = "pushing"]
          /\ tags' = [tags EXCEPT ![run] = PushOrder(run)]
          /\ disturbed' = (disturbed \/ \E other \in Run \ {run} :
               pc[other] = "pushing" /\ IsStable(other) /\ IsStable(run))
     ELSE pc' = [pc EXCEPT ![run] = "refused"] /\ UNCHANGED <<tags, disturbed>>
  /\ UNCHANGED <<trigger, created, image, manifest, last>>

NextTag(run) == Head(tags[run])

IsArchTag(tag) == tag[2] \in ToSet(Arch)

(* What a registry holds after a push: a tag that is there already moves. *)
Pushed(registry, tag, content) ==
  [t \in DOMAIN registry \cup {tag} |-> IF t = tag THEN content ELSE registry[t]]

(* docker tag and docker push of one image. *)
PushImage(run) ==
  /\ pc[run] = "pushing" /\ tags[run] # <<>> /\ IsArchTag(NextTag(run))
  /\ image' = Pushed(image, NextTag(run), [run |-> run, arch |-> NextTag(run)[2]])
  /\ tags' = [tags EXCEPT ![run] = Tail(@)]
  /\ UNCHANGED <<trigger, pc, created, manifest, last, disturbed>>

\* mutant: the source of a manifest is the last tag of its images
LastArchTag(run, arch) == Last(ArchTags(run, arch))

(* .ghcrTags[0]. *)
SourceTag(run, arch) == Head(ArchTags(run, arch))

(* docker manifest create: the images are those the source tags have now. *)
CreateManifest(run) ==
  /\ pc[run] = "pushing" /\ tags[run] # <<>> /\ ~IsArchTag(NextTag(run))
  /\ created[run] = {}
  /\ created' = [created EXCEPT ![run] =
       {image[SourceTag(run, arch)] : arch \in ToSet(Arch)}]
  /\ UNCHANGED <<trigger, pc, tags, image, manifest, last, disturbed>>

\* mutant: docker manifest rm is missing
PushManifestKept(run) ==
  /\ created[run] # {}
  /\ manifest' = Pushed(manifest, NextTag(run), created[run])
  /\ tags' = [tags EXCEPT ![run] = Tail(@)]
  /\ UNCHANGED <<trigger, pc, created, image, last, disturbed>>

PushManifest(run) ==
  /\ created[run] # {}
  /\ manifest' = Pushed(manifest, NextTag(run), created[run])
  /\ created' = [created EXCEPT ![run] = {}]
  /\ tags' = [tags EXCEPT ![run] = Tail(@)]
  /\ UNCHANGED <<trigger, pc, image, last, disturbed>>

Finish(run) ==
  /\ pc[run] = "pushing"
  /\ tags[run] = <<>>
  /\ pc' = [pc EXCEPT ![run] = "done"]
  /\ last' = IF IsStable(run) THEN run ELSE last
  /\ UNCHANGED <<trigger, tags, created, image, manifest, disturbed>>

(* set -e, or the runner is lost: what was pushed remains. *)
Fail(run) ==
  /\ pc[run] = "pushing"
  /\ pc' = [pc EXCEPT ![run] = "failed"]
  /\ created' = [created EXCEPT ![run] = {}]
  /\ tags' = [tags EXCEPT ![run] = <<>>]
  /\ disturbed' = (disturbed \/ IsStable(run))
  /\ UNCHANGED <<trigger, image, manifest, last>>

(* The job of a failed run is run again, from its start. *)
Rerun(run) ==
  /\ pc[run] = "failed"
  /\ pc' = [pc EXCEPT ![run] = "pushing"]
  /\ tags' = [tags EXCEPT ![run] = PushOrder(run)]
  /\ UNCHANGED <<trigger, created, image, manifest, last, disturbed>>

-----------------------------------------------------------------------------
Init ==
  /\ trigger \in Triggers
  /\ pc = [run \in Run |-> "waiting"]
  /\ tags = [run \in Run |-> <<>>]
  /\ created = [run \in Run |-> {}]
  /\ image = <<>>
  /\ manifest = <<>>
  /\ last = NoRun
  /\ disturbed = FALSE

Next ==
  \E run \in Run :
    \/ Start(run) \/ PushImage(run) \/ CreateManifest(run) \/ PushManifest(run)
    \/ Finish(run) \/ Fail(run) \/ Rerun(run)

Spec == Init /\ [][Next]_vars

-----------------------------------------------------------------------------
Images == [run : Run, arch : ToSet(Arch)]

(* Types, and that only a run that pushes has something left to push. *)
TypeOK ==
  /\ pc \in [Run -> {"waiting", "refused", "pushing", "failed", "done"}]
  /\ \A run \in Run :
       /\ pc[run] # "pushing" => tags[run] = <<>> /\ created[run] = {}
       /\ created[run] \subseteq Images
       /\ created[run] # {} => tags[run] # <<>> /\ ~IsArchTag(NextTag(run))
  /\ \A tag \in DOMAIN image : image[tag] \in Images /\ IsArchTag(tag)
  /\ \A tag \in DOMAIN manifest : manifest[tag] \subseteq Images /\ ~IsArchTag(tag)
  /\ last \in Run \cup {NoRun}
  /\ disturbed \in BOOLEAN

(* However runs overlap, fail and are run again, a published manifest has    *)
(* one image for each architecture, all of one release, and a tag with a     *)
(* version has images of that version (README, Release images).              *)
VersionsNeverMix ==
  \A tag \in DOMAIN manifest :
    LET versions == {release[i.run].version : i \in manifest[tag]} IN
    /\ \A arch \in ToSet(Arch) : \E i \in manifest[tag] : i.arch = arch
    /\ \A i, j \in manifest[tag] : i.arch = j.arch => i = j
    /\ \E v \in versions : versions = {v}
    /\ (\E run \in Run : release[run].version = tag[1]) => versions = {tag[1]}

(* A tag that names no version, however runs overlap and fail, has images    *)
(* of stable releases only (README, Release Automation).  None of them was   *)
(* published by pushing a tag, and none is of a release that GitHub marks as *)
(* a prerelease, unless somebody started that run by hand: the mark is       *)
(* looked at for the event of the release alone, so that a prerelease under  *)
(* a stable name moves latest when it is published by workflow_dispatch.     *)
AliasesAreStable ==
  \A tag \in DOMAIN image \cup DOMAIN manifest :
    (\A run \in Run : release[run].version # tag[1]) =>
      \A i \in IF IsArchTag(tag) THEN {image[tag]} ELSE manifest[tag] :
        /\ IsStable(i.run)
        /\ trigger[i.run].event # "push"
        /\ trigger[i.run].prerelease => trigger[i.run].event = "workflow_dispatch"

(* While no stable release is being published, and as long as stable         *)
(* releases were published whole and one after the other, all the tags that  *)
(* move are at the last one: latest, alpine-musl, and those of its major     *)
(* version.  Runs that met, or one that failed, may leave them apart.        *)
AliasesFollowLastRelease ==
  /\ ~disturbed
  /\ last # NoRun
  /\ \A run \in Run : pc[run] = "pushing" => ~IsStable(run)
  =>
  LET major == release[last].major IN
  /\ \A arch \in ToSet(Arch) : release[image[<<major, arch>>].run] = release[last]
  /\ \A tag \in {<<"latest", "release">>, <<"latest", "alpine-musl">>, <<major, "alpine-musl">>} :
       tag \in DOMAIN manifest /\ \A i \in manifest[tag] : release[i.run] = release[last]
=============================================================================

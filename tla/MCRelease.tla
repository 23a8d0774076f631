------------------------------- MODULE MCRelease -------------------------------
(* A small instance of Release for TLC. *)
EXTENDS Release

CONSTANTS patch, minor, build

(* Two stable releases of one major version, and a build of the next. *)
MCRelease ==
  patch :> [version |-> "1.0.1", major |-> "1", kind |-> "stable"]
    @@ minor :> [version |-> "1.1.0", major |-> "1", kind |-> "stable"]
    @@ build :> [version |-> "1.2.0-build.4f43abcd", major |-> "1", kind |-> "build"]

(* The first one by its release on GitHub, a prerelease or not; the second   *)
(* one by its tag, or by hand though it is a prerelease; the build by its tag. *)
MCTriggers ==
  LET On(event, prerelease) == [event |-> event, prerelease |-> prerelease] IN
  {patch :> one @@ minor :> other @@ build :> On("push", FALSE) :
     one   \in {On("release", TRUE), On("release", FALSE)},
     other \in {On("push", FALSE), On("workflow_dispatch", TRUE)}}

MCArch == <<"amd64", "riscv64">>
=============================================================================

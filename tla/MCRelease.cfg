\* Two runs for stable releases and one for a build, started by any event.
CONSTANTS
  patch = patch
  minor = minor
  build = build
  NoRun = NoRun
  Run = {patch, minor, build}
  release <- MCRelease
  Triggers <- MCTriggers
  Arch <- MCArch
SPECIFICATION Spec
INVARIANTS
  TypeOK
  VersionsNeverMix
  AliasesAreStable
  AliasesFollowLastRelease
CHECK_DEADLOCK FALSE

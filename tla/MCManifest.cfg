\* One deploy, one upload; two versions, two operating systems; groups in every order.
SPECIFICATION MCSpec
CONSTANTS
  noble = noble
  jammy = jammy
  disk = disk
  NoDisk = NoDisk
  NoSection = NoSection
  Deployers = {d1}
  Uploaders = {u1}
  OSes = {noble, jammy}
  DefaultOS = noble
  MaxVersion = 2
  Docs <- MCDocs
  Releases <- MCReleases
  MaxGroups = 3
INVARIANTS
  NothingMissing
  Deployable
  VersionsTrue
  EveryJobRuns
  AliasesReachJobs
CHECK_DEADLOCK FALSE

\* Two tags, two images of the registry, one built locally, either backend.
SPECIFICATION Spec
CONSTANTS
  Tags = {latest, dev}
  DefaultTag = latest
  Digests = {d1, d2}
  Built = {built}
  NoDigest = NoDigest
  NoImage = NoImage
  Files = {"old", "new"}
  NoFile = NoFile
  d1 = d1
  d2 = d2
  Layers <- MCLayers
INVARIANTS
  PromptMeansChange
  PromptShowsTarget
  UpgradeNotStranded
PROPERTIES
  CreatedIsResolved
  NoUpgradeMissed
CHECK_DEADLOCK FALSE

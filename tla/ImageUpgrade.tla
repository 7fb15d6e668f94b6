---------------------------- MODULE ImageUpgrade ----------------------------
(***************************************************************************)
(* How `ibosh docker start` and `ibosh incus start` choose the image the   *)
(* director runs, and when they replace a running one.                     *)
(*                                                                         *)
(* A start resolves the wanted reference to a digest and pins it, compares *)
(* it with what the running container was made from, asks the user,        *)
(* removes the container, pulls and creates.  Meanwhile tags are pushed to *)
(* the registry, the network comes and goes, the container may stop, and   *)
(* between commands the user builds, tags and prunes local images.         *)
(*                                                                         *)
(* The module stands for the step CheckUpgrade of DockerLifecycle and what *)
(* PullImage and ContainerCreate do with the image.  One start at a time.  *)
(***************************************************************************)
EXTENDS ImageLayers

CONSTANTS
  Tags,         \* references by tag
  DefaultTag,   \* the image ibosh uses unless --image is given
  Digests,      \* the images of the registry, each known by its digest
  Files,        \* the BOSH manifests that an image may have
  Layers,       \* of every image of the registry: its layers
  Built,        \* images built locally, which have no digest
  NoDigest,     \* the empty digest
  NoImage       \* no image under a tag; no container

ASSUME ImageAssumption ==
  /\ DefaultTag \in Tags
  /\ Tags \cap Digests = {}
  /\ Digests \cap Built = {}
  /\ NoDigest \notin Digests
  /\ NoImage \notin Digests \cup Built

ASSUME LayersAssumption ==
  /\ NoFile \notin Files
  /\ Layers \in [Digests -> Seq(Files \cup {NoFile})]

Images == Digests \cup Built
Refs == Tags \cup Digests

VARIABLES
  backend,      \* "docker" or "incus"
  remote,       \* the digest each tag has in the registry
  online,       \* can the registry be reached?
  images,       \* the images of the local daemon
  tagged,       \* what each tag denotes there
  container,    \* the image of the running container, or NoImage
  madeFrom,     \* the reference it was created with
  pc,           \* what start does next, or how it ended
  wanted,       \* --image, or the default
  custom,       \* was --image given?
  skip,         \* was --skip-update given?
  imageName,    \* the reference the client creates containers with
  target,       \* the digest wanted was resolved to
  current,      \* the digest of the running container, as far as start knows
  currentRef,   \* the reference it was created with, as start read it
  upgraded,     \* did this start remove a running container?
  diff          \* the manifests that it compared, and those of which it missed layers

worldVars == <<backend, remote, online, images, tagged>>
containerVars == <<container, madeFrom>>
optionVars == <<wanted, custom, skip>>
choiceVars == <<imageName, target, current, currentRef, upgraded, diff>>
vars == <<worldVars, containerVars, pc, optionVars, choiceVars>>

Steps == {"resolve", "isRunning", "currentInfo", "fetchCurrent", "targetExists",
          "pullTarget", "diffCurrent", "diffNew", "confirm", "remove", "imageExists",
          "pullMissing", "checkUpdate", "pullUpdate", "create"}
Ends == {"idle", "started", "kept", "failed"}

\* The digest a reference has in the registry: a pinned one has its own.
Lookup(r) == IF r \in Tags THEN remote[r] ELSE r

\* The local image a reference denotes.
Local(r) == IF r \in Tags THEN tagged[r] ELSE IF r \in images THEN r ELSE NoImage

\* The manifest of an image, and the comparison of a start that compared none.
Manifest(d) == ExtractFileFromImage(Layers[d], {})
NoDiff == [old |-> NoFile, new |-> NoFile, missed |-> {}]

\* RepoDigests of an image: empty when it was built here.
RepoDigest(i) == IF i \in Digests THEN i ELSE NoDigest

Goto(label) == pc' = label
Quiet == UNCHANGED <<worldVars, containerVars, optionVars, choiceVars>>

-----------------------------------------------------------------------------

\* The flags: --skip-update and --image exclude each other, incus has no --skip-update.
Begin(r, isCustom, isSkip) ==
  /\ pc \in Ends
  /\ isCustom \/ r = DefaultTag
  /\ isSkip => ~isCustom /\ backend = "docker"
  /\ wanted' = r
  /\ custom' = isCustom
  /\ skip' = isSkip
  /\ imageName' = r
  /\ target' = NoDigest
  /\ current' = NoDigest
  /\ currentRef' = r
  /\ upgraded' = FALSE
  /\ diff' = NoDiff
  /\ Goto("resolve")
  /\ UNCHANGED <<worldVars, containerVars>>

SetResolvedImage(r) == imageName' = r

\* Mutant: the digest is compared later, but the client keeps the tag.
ResolveUnpinned ==
  /\ pc = "resolve"
  /\ target' = IF wanted \in Digests \/ online THEN Lookup(wanted) ELSE NoDigest
  /\ Goto("isRunning")
  /\ UNCHANGED <<worldVars, containerVars, optionVars, imageName, current, currentRef, upgraded, diff>>

\* A digest needs no registry; a tag that cannot be resolved is used as it is.
Resolve ==
  /\ pc = "resolve"
  /\ IF wanted \in Digests \/ online
     THEN target' = Lookup(wanted) /\ SetResolvedImage(Lookup(wanted))
     ELSE UNCHANGED <<target, imageName>>
  /\ Goto("isRunning")
  /\ UNCHANGED <<worldVars, containerVars, optionVars, current, currentRef, upgraded, diff>>

\* Incus keeps no images for ibosh to pull: the server pulls on creation.
FirstImageStep == IF backend = "docker" THEN "imageExists" ELSE "create"

IsRunning ==
  /\ pc = "isRunning"
  /\ Goto(IF container = NoImage THEN FirstImageStep
          ELSE IF skip THEN "kept" ELSE "currentInfo")
  /\ Quiet

\* Mutant: no digest is read from an Incus instance.
DigestUnread == IF backend = "docker" THEN RepoDigest(container) ELSE NoDigest

\* The digest in a reference, if it has one.
DigestInRef(r) == IF r \in Digests THEN r ELSE NoDigest

\* Docker has the digest from the image, Incus from the reference the instance was
\* created with.
DigestOfContainer ==
  IF backend = "docker" THEN RepoDigest(container) ELSE DigestInRef(madeFrom)

\* Mutant: && turned into || in the comparison.
CurrentInfoEither ==
  /\ pc = "currentInfo"
  /\ container # NoImage
  /\ current' = DigestOfContainer
  /\ currentRef' = madeFrom
  /\ Goto(IF target # NoDigest \/ DigestOfContainer = target THEN "kept"
          ELSE IF DigestOfContainer = NoDigest THEN "fetchCurrent" ELSE "targetExists")
  /\ UNCHANGED <<worldVars, containerVars, optionVars, imageName, target, upgraded, diff>>

\* A container that is gone cannot be inspected: no upgrade.
CurrentInfo ==
  /\ pc = "currentInfo"
  /\ \/ /\ container # NoImage
        /\ current' = DigestOfContainer
        /\ currentRef' = madeFrom
        /\ Goto(IF target # NoDigest /\ DigestOfContainer = target THEN "kept"
                ELSE IF DigestOfContainer = NoDigest THEN "fetchCurrent"
                ELSE "targetExists")
     \/ /\ container = NoImage
        /\ Goto("kept")
        /\ UNCHANGED <<current, currentRef>>
  /\ UNCHANGED <<worldVars, containerVars, optionVars, imageName, target, upgraded, diff>>

\* The reference that was resolved, or else the one that the client was given.
GetTargetImageRef == imageName

\* Ask the registry for what the container has no digest of.
FetchCurrent ==
  LET targetImage == IF custom THEN wanted ELSE GetTargetImageRef IN
  /\ pc = "fetchCurrent"
  /\ IF online
     THEN /\ current' = Lookup(currentRef)
          /\ Goto(IF Lookup(currentRef) = target THEN "kept" ELSE "targetExists")
     ELSE /\ Goto(IF currentRef = targetImage THEN "kept" ELSE "targetExists")
          /\ UNCHANGED current
  /\ UNCHANGED <<worldVars, containerVars, optionVars, imageName, target, currentRef, upgraded,
                 diff>>

\* Mutant: the new image is pulled once the old container is gone.
TargetExistsLater ==
  /\ pc = "targetExists"
  /\ Goto("diffCurrent")
  /\ Quiet

TargetExists ==
  /\ pc = "targetExists"
  /\ Goto(IF backend = "docker" /\ Local(imageName) = NoImage THEN "pullTarget"
          ELSE "diffCurrent")
  /\ Quiet

\* Pulling imageName, which may move its local tag.
Pull(done) ==
  \/ /\ online
     /\ images' = images \cup {Lookup(imageName)}
     /\ tagged' = [t \in Tags |-> IF t = imageName THEN remote[t] ELSE tagged[t]]
     /\ Goto(done)
     /\ UNCHANGED <<backend, remote, online, containerVars, optionVars, choiceVars>>
  \/ /\ ~online
     /\ Goto("failed")
     /\ Quiet

PullTarget == pc = "pullTarget" /\ Pull("diffCurrent")

\* The manifest of a reference as the registry has it now.
Extract(r, part, next) ==
  \E skipped \in SUBSET DOMAIN Layers[Lookup(r)] :
    LET file == ExtractFileFromImage(Layers[Lookup(r)], skipped) IN
    /\ online
    /\ diff' = [diff EXCEPT ![part] = file,
                            !.missed = IF skipped = {} THEN @ ELSE @ \cup {part}]
    /\ Goto(IF file = NoFile THEN "confirm" ELSE next)
    /\ UNCHANGED <<worldVars, containerVars, optionVars, imageName, target, current,
                   currentRef, upgraded>>

\* GetManifestDiff.  When a manifest cannot be read the user is asked all the same.
DiffCurrent == pc = "diffCurrent" /\ Extract(currentRef, "old", "diffNew")

\* Mutant: the new manifest is that of the reference by tag.
NewRefByTag == wanted

NewRef == IF target # NoDigest THEN target ELSE GetTargetImageRef

DiffNew == pc = "diffNew" /\ Extract(NewRef, "new", "confirm")

DiffFails ==
  /\ pc \in {"diffCurrent", "diffNew"}
  /\ Goto("confirm")
  /\ Quiet

Confirm ==
  /\ pc = "confirm"
  /\ Goto("kept") \/ Goto("remove")
  /\ Quiet

Remove ==
  /\ pc = "remove"
  /\ container' = NoImage
  /\ upgraded' = TRUE
  /\ Goto(FirstImageStep)
  /\ UNCHANGED <<worldVars, madeFrom, optionVars, imageName, target, current, currentRef, diff>>

-----------------------------------------------------------------------------
\* handleDockerImagePull, and the creation.

ImageExists ==
  /\ pc = "imageExists"
  /\ Goto(IF Local(imageName) = NoImage THEN "pullMissing"
          ELSE IF skip \/ custom THEN "create" ELSE "checkUpdate")
  /\ Quiet

PullMissing == pc = "pullMissing" /\ Pull("create")

\* CheckForImageUpdate.  When the registry cannot be asked the local image is used.
CheckUpdate ==
  LET digest == RepoDigest(Local(imageName)) IN
  /\ pc = "checkUpdate"
  /\ Goto(IF digest = NoDigest THEN "pullUpdate"
          ELSE IF online /\ digest # Lookup(imageName) THEN "pullUpdate" ELSE "create")
  /\ Quiet

PullUpdate == pc = "pullUpdate" /\ Pull("create")

\* Docker creates from the local image, Incus from the registry.
Create ==
  LET source == IF backend = "docker" THEN Local(imageName)
                ELSE IF online THEN Lookup(imageName) ELSE NoImage IN
  /\ pc = "create"
  /\ IF source = NoImage
     THEN Goto("failed") /\ UNCHANGED containerVars
     ELSE Goto("started") /\ container' = source /\ madeFrom' = imageName
  /\ UNCHANGED <<worldVars, optionVars, choiceVars>>

-----------------------------------------------------------------------------
\* The world.

Push(t, d) ==
  /\ remote[t] # d
  /\ remote' = [remote EXCEPT ![t] = d]
  /\ UNCHANGED <<backend, online, images, tagged, containerVars, pc, optionVars, choiceVars>>

Network ==
  /\ online' = ~online
  /\ UNCHANGED <<backend, remote, images, tagged, containerVars, pc, optionVars, choiceVars>>

ContainerStops ==
  /\ container # NoImage
  /\ container' = NoImage
  /\ UNCHANGED <<worldVars, madeFrom, pc, optionVars, choiceVars>>

\* docker build -t, between commands.
Build(t, i) ==
  /\ pc \in Ends
  /\ backend = "docker"
  /\ images' = images \cup {i}
  /\ tagged' = [tagged EXCEPT ![t] = i]
  /\ UNCHANGED <<backend, remote, online, containerVars, pc, optionVars, choiceVars>>

\* docker rmi, between commands; an image in use stays.
Prune(i) ==
  /\ pc \in Ends
  /\ i \in images \ {container}
  /\ images' = images \ {i}
  /\ tagged' = [t \in Tags |-> IF tagged[t] = i THEN NoImage ELSE tagged[t]]
  /\ UNCHANGED <<backend, remote, online, containerVars, pc, optionVars, choiceVars>>

Init ==
  /\ backend \in {"docker", "incus"}
  /\ remote \in [Tags -> Digests]
  /\ online = TRUE
  /\ images = {}
  /\ tagged = [t \in Tags |-> NoImage]
  /\ container = NoImage
  /\ madeFrom = DefaultTag
  /\ pc = "idle"
  /\ wanted = DefaultTag
  /\ custom = FALSE
  /\ skip = FALSE
  /\ imageName = DefaultTag
  /\ target = NoDigest
  /\ current = NoDigest
  /\ currentRef = DefaultTag
  /\ upgraded = FALSE
  /\ diff = NoDiff

Start ==
  \/ Resolve \/ IsRunning \/ CurrentInfo \/ FetchCurrent \/ TargetExists \/ PullTarget
  \/ DiffCurrent \/ DiffNew \/ DiffFails \/ Confirm \/ Remove
  \/ ImageExists \/ PullMissing \/ CheckUpdate \/ PullUpdate \/ Create

World ==
  \/ \E t \in Tags, d \in Digests : Push(t, d)
  \/ Network
  \/ ContainerStops
  \/ \E t \in Tags, i \in Built : Build(t, i)
  \/ \E i \in images : Prune(i)

Next ==
  \/ \E r \in Refs, isCustom, isSkip \in BOOLEAN : Begin(r, isCustom, isSkip)
  \/ Start
  \/ World

Spec == Init /\ [][Next]_vars

-----------------------------------------------------------------------------

TypeOK ==
  /\ backend \in {"docker", "incus"}
  /\ remote \in [Tags -> Digests]
  /\ online \in BOOLEAN
  /\ images \subseteq Images
  /\ tagged \in [Tags -> images \cup {NoImage}]
  /\ container \in Images \cup {NoImage}
  /\ madeFrom \in Refs
  /\ pc \in Steps \cup Ends
  /\ wanted \in Refs
  /\ custom \in BOOLEAN
  /\ skip \in BOOLEAN
  /\ imageName \in Refs
  /\ target \in Digests \cup {NoDigest}
  /\ current \in Digests \cup {NoDigest}
  /\ currentRef \in Refs
  /\ upgraded \in BOOLEAN
  /\ diff \in [old : Files \cup {NoFile}, new : Files \cup {NoFile}, missed : SUBSET {"old", "new"}]

\* What runs is what was resolved: whatever is pushed between the resolution, the
\* pulls and the creation, the container is made from the digest the user was shown.
CreatedIsResolved ==
  [][pc = "create" /\ pc' = "started" /\ target # NoDigest => container' = target]_vars

\* Is it known which image runs?  Docker inspects it; an Incus instance made by tag,
\* when the registry could not be asked, no longer tells.
Known ==
  /\ container \in Digests
  /\ backend = "docker" \/ madeFrom \in Digests

\* The user is never asked to replace a director by the image it already runs, when
\* that image is known: whatever is pushed meanwhile, and after an unpinned start.
PromptMeansChange ==
  pc = "confirm" /\ target # NoDigest /\ Known => container # target

\* The manifests that the user decides on are those of the container and of the image that
\* will be created, though tags move between the resolution and the prompt: if every layer
\* could be read, and as far as the container was made by digest.
PromptShowsTarget ==
  pc = "confirm" =>
    /\ target # NoDigest /\ diff.new # NoFile /\ "new" \notin diff.missed
         => diff.new = Manifest(target)
    /\ container \in Digests /\ madeFrom \in Digests
         /\ diff.old # NoFile /\ "old" \notin diff.missed
         => diff.old = Manifest(container)

\* A director that runs another image than the one resolved is not taken to be up to
\* date: handleRunningContainerUpgrade does not return before the prompt.
NoUpgradeMissed ==
  [][/\ pc \in {"currentInfo", "fetchCurrent"} /\ pc' = "kept"
     /\ target # NoDigest /\ Known
     => container = target]_vars

\* With Docker a running director is only removed when its replacement is there: a
\* start that resolved its image and removed the running container does not then
\* fail for the image, though the network goes away at any moment.
UpgradeNotStranded ==
  backend = "docker" /\ upgraded /\ pc = "failed" => target = NoDigest
=============================================================================

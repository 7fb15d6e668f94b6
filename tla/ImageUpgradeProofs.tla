------------------------ MODULE ImageUpgradeProofs ------------------------
(***************************************************************************)
(* The safety of ImageUpgrade, for every set of tags and images and both   *)
(* backends.                                                               *)
(***************************************************************************)
EXTENDS ImageUpgrade, TLAPS

USE DEF Goto, Quiet, worldVars, containerVars, optionVars, choiceVars

\* A resolved image is pinned: the client creates from it.
Pinned == target # NoDigest => imageName = target

\* An instance made by digest runs that digest.
MadeAsPinned == container # NoImage /\ madeFrom \in Digests => container = madeFrom

\* Past the comparison, the container is known not to be the target.
Differs ==
  pc \in {"fetchCurrent", "targetExists", "pullTarget", "diffCurrent", "diffNew", "confirm"}
    /\ target # NoDigest /\ Known
    => container # target

\* Only an image without a digest has to be looked up.
FetchesUnknown == pc = "fetchCurrent" => ~Known

\* Only confirm leads to remove, and only remove sets upgraded.
BeforeRemoval ==
  pc \in {"resolve", "isRunning", "currentInfo", "fetchCurrent", "targetExists",
          "pullTarget", "diffCurrent", "diffNew", "confirm", "remove"} => ~upgraded

\* With Docker the replacement is there from the prompt on, and no pull follows.
ReplacementReady ==
  backend = "docker" /\ target # NoDigest =>
    /\ pc \in {"diffCurrent", "diffNew", "confirm", "remove"} => target \in images
    /\ upgraded /\ pc \in Steps => target \in images
    /\ upgraded => pc \notin {"pullMissing", "pullUpdate", "failed"}

\* While a director runs, the reference that start read is still the one it was made with.
ReferenceRead ==
  pc \in {"fetchCurrent", "targetExists", "pullTarget", "diffCurrent"} /\ container # NoImage
    => currentRef = madeFrom

\* Nothing has been compared before the comparison.
NotYetCompared ==
  /\ pc \in {"resolve", "isRunning", "currentInfo", "fetchCurrent", "targetExists",
             "pullTarget", "diffCurrent"} => diff.old = NoFile
  /\ pc \in {"resolve", "isRunning", "currentInfo", "fetchCurrent", "targetExists",
             "pullTarget", "diffCurrent", "diffNew"} => diff.new = NoFile

\* A manifest read from every layer is that of the image it is shown for.
ComparedOld ==
  pc \in {"diffNew", "confirm"} /\ "old" \notin diff.missed /\ diff.old # NoFile
    /\ container \in Digests /\ madeFrom \in Digests
    => diff.old = Manifest(container)

ComparedNew ==
  pc = "confirm" /\ "new" \notin diff.missed /\ diff.new # NoFile /\ target # NoDigest
    => diff.new = Manifest(target)

IInv ==
  /\ TypeOK
  /\ Pinned
  /\ MadeAsPinned
  /\ Differs
  /\ FetchesUnknown
  /\ BeforeRemoval
  /\ ReplacementReady
  /\ ReferenceRead
  /\ NotYetCompared
  /\ ComparedOld
  /\ ComparedNew

-----------------------------------------------------------------------------

\* Init gives every part of the invariant.
LEMMA InitIInv == Init => IInv
<1> SUFFICES ASSUME Init PROVE IInv
  OBVIOUS
<1>1. TypeOK
  BY ImageAssumption DEF Init, TypeOK, NoDiff, Steps, Ends, Refs, Images
<1> QED
  BY <1>1, ImageAssumption
   DEF Init, IInv, Pinned, MadeAsPinned, Differs, FetchesUnknown, BeforeRemoval,
       ReplacementReady, ReferenceRead, NotYetCompared, ComparedOld, ComparedNew, NoDiff,
       Steps, Ends, Refs, Images, Known

\* What is read from an image is one of the manifests, or nothing.
LEMMA ExtractType ==
  \A d \in Digests : \A skipped :
    ExtractFileFromImage(Layers[d], skipped) \in Files \cup {NoFile}
<1> TAKE d \in Digests
<1> TAKE skipped
<1> DEFINE layers == Layers[d]
           found == {i \in DOMAIN layers \ skipped : layers[i] # NoFile}
           topmost == {i \in found : \A j \in found : j <= i}
<1>1. layers \in Seq(Files \cup {NoFile})
  BY LayersAssumption
<1>2. \A i \in topmost : layers[i] \in Files \cup {NoFile}
  BY <1>1
<1>3. topmost # {} => (CHOOSE i \in topmost : TRUE) \in topmost
  OBVIOUS
<1> QED
  BY <1>2, <1>3 DEF ExtractFileFromImage

\* A reference always has a digest in the registry, and a digest denotes itself.
LEMMA LookupDigest ==
  TypeOK => /\ \A r \in Refs : Lookup(r) \in Digests
            /\ \A d \in Digests : Lookup(d) = d
BY ImageAssumption DEF TypeOK, Lookup, Refs

\* Every step keeps the types.
LEMMA TypeStep == TypeOK /\ [Next]_vars => TypeOK'
<1> SUFFICES ASSUME TypeOK, [Next]_vars PROVE TypeOK'
  OBVIOUS
<1> USE ImageAssumption DEF TypeOK, Steps, Ends, Refs, Images
<1>1. ASSUME NEW r \in Refs, NEW isCustom \in BOOLEAN, NEW isSkip \in BOOLEAN,
             Begin(r, isCustom, isSkip)
      PROVE  TypeOK'
  BY <1>1 DEF Begin, NoDiff
<1>2. CASE Resolve
  BY <1>2 DEF Resolve, SetResolvedImage, Lookup
<1>3. CASE IsRunning
  BY <1>3 DEF IsRunning, FirstImageStep
<1>4. CASE CurrentInfo
  BY <1>4 DEF CurrentInfo, DigestOfContainer, DigestInRef, RepoDigest
<1>5. CASE FetchCurrent
  BY <1>5 DEF FetchCurrent, GetTargetImageRef, Lookup
<1>6. CASE TargetExists
  BY <1>6 DEF TargetExists, Local
<1>7. CASE PullTarget
  BY <1>7 DEF PullTarget, Pull, Lookup
<1>8. CASE DiffCurrent
  <2>1. PICK skipped \in SUBSET DOMAIN Layers[Lookup(currentRef)] :
          diff' = [diff EXCEPT
                     !.old = ExtractFileFromImage(Layers[Lookup(currentRef)], skipped),
                     !.missed = IF skipped = {} THEN @ ELSE @ \cup {"old"}]
    BY <1>8 DEF DiffCurrent, Extract
  <2>2. diff' \in [old : Files \cup {NoFile}, new : Files \cup {NoFile},
                   missed : SUBSET {"old", "new"}]
    BY <2>1, LookupDigest, ExtractType
  <2>3. UNCHANGED <<worldVars, containerVars, optionVars, imageName, target, current,
                    currentRef, upgraded>>
    BY <1>8 DEF DiffCurrent, Extract
  <2>4. pc' \in {"diffNew", "confirm"}
    BY <1>8 DEF DiffCurrent, Extract, Goto
  <2> QED
    BY <2>2, <2>3, <2>4 DEF worldVars, containerVars, optionVars
<1>9. CASE DiffNew
  <2>0. NewRef \in Refs
    BY DEF NewRef, GetTargetImageRef
  <2>1. PICK skipped \in SUBSET DOMAIN Layers[Lookup(NewRef)] :
          diff' = [diff EXCEPT
                     !.new = ExtractFileFromImage(Layers[Lookup(NewRef)], skipped),
                     !.missed = IF skipped = {} THEN @ ELSE @ \cup {"new"}]
    BY <1>9 DEF DiffNew, Extract
  <2>2. diff' \in [old : Files \cup {NoFile}, new : Files \cup {NoFile},
                   missed : SUBSET {"old", "new"}]
    BY <2>0, <2>1, LookupDigest, ExtractType
  <2>3. UNCHANGED <<worldVars, containerVars, optionVars, imageName, target, current,
                    currentRef, upgraded>>
    BY <1>9 DEF DiffNew, Extract
  <2>4. pc' \in {"diffNew", "confirm"}
    BY <1>9 DEF DiffNew, Extract, Goto
  <2> QED
    BY <2>2, <2>3, <2>4 DEF worldVars, containerVars, optionVars
<1>10. CASE DiffFails
  BY <1>10 DEF DiffFails
<1>11. CASE Confirm
  BY <1>11 DEF Confirm
<1>12. CASE Remove
  BY <1>12 DEF Remove, FirstImageStep
<1>13. CASE ImageExists
  BY <1>13 DEF ImageExists, Local
<1>14. CASE PullMissing
  BY <1>14 DEF PullMissing, Pull, Lookup
<1>15. CASE CheckUpdate
  BY <1>15 DEF CheckUpdate, RepoDigest, Local, Lookup
<1>16. CASE PullUpdate
  BY <1>16 DEF PullUpdate, Pull, Lookup
<1>17. CASE Create
  BY <1>17 DEF Create, Local, Lookup
<1>18. CASE Network
  BY <1>18 DEF Network
<1>19. CASE ContainerStops
  BY <1>19 DEF ContainerStops
<1>20. CASE UNCHANGED vars
  BY <1>20 DEF vars
<1>21. ASSUME NEW t \in Tags, NEW d \in Digests, Push(t, d) PROVE TypeOK'
  BY <1>21 DEF Push
<1>22. ASSUME NEW t \in Tags, NEW i \in Built, Build(t, i) PROVE TypeOK'
  BY <1>22 DEF Build
<1>23. ASSUME NEW i \in images, Prune(i) PROVE TypeOK'
  BY <1>23 DEF Prune
<1> QED
  BY <1>1, <1>2, <1>3, <1>4, <1>5, <1>6, <1>7, <1>8, <1>9, <1>10, <1>11, <1>12, <1>13,
     <1>14, <1>15, <1>16, <1>17, <1>18, <1>19, <1>20, <1>21, <1>22, <1>23 DEF Next,
     Start, World

\* Every step keeps the manifests compared those of the images they are shown for.
LEMMA ComparedStep ==
  IInv /\ [Next]_vars => (ReferenceRead /\ NotYetCompared /\ ComparedOld /\ ComparedNew)'
<1> SUFFICES ASSUME IInv, [Next]_vars
             PROVE  (ReferenceRead /\ NotYetCompared /\ ComparedOld /\ ComparedNew)'
  OBVIOUS
<1> DEFINE Compared == ReferenceRead /\ NotYetCompared /\ ComparedOld /\ ComparedNew
<1> SUFFICES Compared'
  OBVIOUS
<1> USE ImageAssumption
        DEF IInv, TypeOK, Steps, Ends, Refs, Images, MadeAsPinned, ReferenceRead,
            NotYetCompared, ComparedOld, ComparedNew
<1>1. ASSUME NEW r \in Refs, NEW isCustom \in BOOLEAN, NEW isSkip \in BOOLEAN,
             Begin(r, isCustom, isSkip)
      PROVE  Compared'
  BY <1>1 DEF Begin, NoDiff
<1>2. CASE Resolve
  BY <1>2 DEF Resolve, SetResolvedImage, Lookup
<1>3. CASE IsRunning
  BY <1>3 DEF IsRunning, FirstImageStep
<1>4. CASE CurrentInfo
  BY <1>4 DEF CurrentInfo, DigestOfContainer, DigestInRef, RepoDigest
<1>5. CASE FetchCurrent
  BY <1>5 DEF FetchCurrent, GetTargetImageRef, Lookup
<1>6. CASE TargetExists
  BY <1>6 DEF TargetExists, Local
<1>7. CASE PullTarget
  BY <1>7 DEF PullTarget, Pull, Lookup
<1>8. CASE DiffCurrent
  <2>1. PICK skipped \in SUBSET DOMAIN Layers[Lookup(currentRef)] :
          diff' = [diff EXCEPT
                     !.old = ExtractFileFromImage(Layers[Lookup(currentRef)], skipped),
                     !.missed = IF skipped = {} THEN @ ELSE @ \cup {"old"}]
    BY <1>8 DEF DiffCurrent, Extract
  <2>2. container \in Digests /\ madeFrom \in Digests => Lookup(currentRef) = container
    BY <1>8, LookupDigest DEF DiffCurrent
  <2>3. pc' \in {"confirm", "diffNew"} /\ pc = "diffCurrent"
    BY <1>8 DEF DiffCurrent, Extract
  <2>4. UNCHANGED <<container, madeFrom, target, currentRef>>
    BY <1>8 DEF DiffCurrent, Extract
  <2>5. /\ diff'.new = NoFile
        /\ "old" \notin diff'.missed => diff'.old = Manifest(Lookup(currentRef))
    BY <2>1, <2>3 DEF Manifest
  <2> QED
    BY <2>2, <2>3, <2>4, <2>5 DEF Manifest
<1>9. CASE DiffNew
  <2>1. PICK skipped \in SUBSET DOMAIN Layers[Lookup(NewRef)] :
          diff' = [diff EXCEPT
                     !.new = ExtractFileFromImage(Layers[Lookup(NewRef)], skipped),
                     !.missed = IF skipped = {} THEN @ ELSE @ \cup {"new"}]
    BY <1>9 DEF DiffNew, Extract
  <2>2. target # NoDigest => Lookup(NewRef) = target
    BY LookupDigest DEF NewRef, GetTargetImageRef
  <2>3. pc' = "confirm" /\ pc = "diffNew"
    BY <1>9 DEF DiffNew, Extract
  <2>4. UNCHANGED <<container, madeFrom, target, currentRef>>
    BY <1>9 DEF DiffNew, Extract
  <2>5. /\ diff'.old = diff.old
        /\ "old" \notin diff'.missed => "old" \notin diff.missed
        /\ "new" \notin diff'.missed => diff'.new = Manifest(Lookup(NewRef))
    BY <2>1 DEF Manifest
  <2> QED
    BY <2>2, <2>3, <2>4, <2>5 DEF Manifest
<1>10. CASE DiffFails
  BY <1>10 DEF DiffFails
<1>11. CASE Confirm
  BY <1>11 DEF Confirm
<1>12. CASE Remove
  BY <1>12 DEF Remove, FirstImageStep
<1>13. CASE ImageExists
  BY <1>13 DEF ImageExists, Local
<1>14. CASE PullMissing
  BY <1>14 DEF PullMissing, Pull, Lookup
<1>15. CASE CheckUpdate
  BY <1>15 DEF CheckUpdate, RepoDigest, Local, Lookup
<1>16. CASE PullUpdate
  BY <1>16 DEF PullUpdate, Pull, Lookup
<1>17. CASE Create
  BY <1>17 DEF Create, Local, Lookup
<1>18. CASE Network
  BY <1>18 DEF Network
<1>19. CASE ContainerStops
  BY <1>19 DEF ContainerStops
<1>20. CASE UNCHANGED vars
  BY <1>20 DEF vars
<1>21. ASSUME NEW t \in Tags, NEW d \in Digests, Push(t, d) PROVE Compared'
  BY <1>21 DEF Push
<1>22. ASSUME NEW t \in Tags, NEW i \in Built, Build(t, i) PROVE Compared'
  BY <1>22 DEF Build
<1>23. ASSUME NEW i \in images, Prune(i) PROVE Compared'
  BY <1>23 DEF Prune
<1> HIDE DEF Compared
<1> QED
  BY <1>1, <1>2, <1>3, <1>4, <1>5, <1>6, <1>7, <1>8, <1>9, <1>10, <1>11, <1>12, <1>13,
     <1>14, <1>15, <1>16, <1>17, <1>18, <1>19, <1>20, <1>21, <1>22, <1>23 DEF Next,
     Start, World

\* Every step keeps the invariant.  A resolved target is never a tag, so a pull of it
\* brings it and nothing else, and the pulls after the removal are not reached.
LEMMA StepIInv == IInv /\ [Next]_vars => IInv'
<1> SUFFICES ASSUME IInv, [Next]_vars PROVE IInv'
  OBVIOUS
<1>0. TypeOK' /\ (ReferenceRead /\ NotYetCompared /\ ComparedOld /\ ComparedNew)'
  BY TypeStep, ComparedStep DEF IInv
<1> DEFINE Rest == Pinned /\ MadeAsPinned /\ Differs /\ FetchesUnknown /\ BeforeRemoval
                     /\ ReplacementReady
<1> SUFFICES Rest'
  BY <1>0 DEF IInv
<1> USE ImageAssumption
        DEF IInv, TypeOK, Steps, Ends, Refs, Images, Pinned, MadeAsPinned, Differs,
            FetchesUnknown, BeforeRemoval, ReplacementReady, Known
<1>1. ASSUME NEW r \in Refs, NEW isCustom \in BOOLEAN, NEW isSkip \in BOOLEAN,
             Begin(r, isCustom, isSkip)
      PROVE  Rest'
  BY <1>1 DEF Begin, NoDiff
<1>2. CASE Resolve
  BY <1>2 DEF Resolve, SetResolvedImage, Lookup
<1>3. CASE IsRunning
  BY <1>3 DEF IsRunning, FirstImageStep
<1>4. CASE CurrentInfo
  BY <1>4 DEF CurrentInfo, DigestOfContainer, DigestInRef, RepoDigest
<1>5. CASE FetchCurrent
  BY <1>5 DEF FetchCurrent, GetTargetImageRef, Lookup
<1>6. CASE TargetExists
  BY <1>6 DEF TargetExists, Local
<1>7. CASE PullTarget
  BY <1>7 DEF PullTarget, Pull, Lookup
<1>8. CASE DiffCurrent
  <2>1. /\ pc \in {"diffCurrent", "diffNew"} /\ pc' \in {"diffNew", "confirm"}
        /\ UNCHANGED <<worldVars, containerVars, imageName, target, upgraded>>
    BY <1>8 DEF DiffCurrent, Extract
  <2> QED
    BY <2>1
<1>9. CASE DiffNew
  <2>1. /\ pc \in {"diffCurrent", "diffNew"} /\ pc' \in {"diffNew", "confirm"}
        /\ UNCHANGED <<worldVars, containerVars, imageName, target, upgraded>>
    BY <1>9 DEF DiffNew, Extract
  <2> QED
    BY <2>1
<1>10. CASE DiffFails
  BY <1>10 DEF DiffFails
<1>11. CASE Confirm
  BY <1>11 DEF Confirm
<1>12. CASE Remove
  BY <1>12 DEF Remove, FirstImageStep
<1>13. CASE ImageExists
  BY <1>13 DEF ImageExists, Local
<1>14. CASE PullMissing
  BY <1>14 DEF PullMissing, Pull, Lookup
<1>15. CASE CheckUpdate
  BY <1>15 DEF CheckUpdate, RepoDigest, Local, Lookup
<1>16. CASE PullUpdate
  BY <1>16 DEF PullUpdate, Pull, Lookup
<1>17. CASE Create
  BY <1>17 DEF Create, Local, Lookup
<1>18. CASE Network
  BY <1>18 DEF Network
<1>19. CASE ContainerStops
  BY <1>19 DEF ContainerStops
<1>20. CASE UNCHANGED vars
  BY <1>20 DEF vars
<1>21. ASSUME NEW t \in Tags, NEW d \in Digests, Push(t, d) PROVE Rest'
  BY <1>21 DEF Push
<1>22. ASSUME NEW t \in Tags, NEW i \in Built, Build(t, i) PROVE Rest'
  BY <1>22 DEF Build
<1>23. ASSUME NEW i \in images, Prune(i) PROVE Rest'
  BY <1>23 DEF Prune
<1> HIDE DEF Rest
<1> QED
  BY <1>1, <1>2, <1>3, <1>4, <1>5, <1>6, <1>7, <1>8, <1>9, <1>10, <1>11, <1>12, <1>13,
     <1>14, <1>15, <1>16, <1>17, <1>18, <1>19, <1>20, <1>21, <1>22, <1>23 DEF Next,
     Start, World

\* Every step of a start, and of the world around it, keeps the invariant.
THEOREM Invariance == Spec => []IInv
<1> QED
  BY InitIInv, StepIInv, PTL DEF Spec

\* Every variable keeps its type, whatever the images and the tags.
THEOREM TypeCorrect == Spec => []TypeOK
<1>1. IInv => TypeOK
  BY DEF IInv
<1> QED
  BY <1>1, Invariance, PTL

\* The user is never asked to replace a director by the image it runs.
THEOREM PromptsMeanChange == Spec => []PromptMeansChange
<1>1. IInv => PromptMeansChange
  BY DEF IInv, Differs, PromptMeansChange
<1> QED
  BY <1>1, Invariance, PTL

\* The manifests the user decides on are those of the images they are shown for.
THEOREM PromptsShowTarget == Spec => []PromptShowsTarget
<1>1. IInv => PromptShowsTarget
  BY DEF IInv, ComparedOld, ComparedNew, PromptShowsTarget
<1> QED
  BY <1>1, Invariance, PTL

\* A start that resolved its image and removed the running director does not fail for
\* the image, whatever the network does.
THEOREM UpgradesNotStranded == Spec => []UpgradeNotStranded
<1>1. IInv => UpgradeNotStranded
  BY DEF IInv, ReplacementReady, UpgradeNotStranded
<1> QED
  BY <1>1, Invariance, PTL

\* What runs is what was resolved, however the tags move meanwhile.
THEOREM CreatesResolved == Spec => CreatedIsResolved
<1>1. IInv /\ [Next]_vars
        => [pc = "create" /\ pc' = "started" /\ target # NoDigest => container' = target]_vars
  <2> SUFFICES ASSUME IInv, [Next]_vars, pc = "create", pc' = "started", target # NoDigest
               PROVE  container' = target
    OBVIOUS
  <2>1. imageName = target /\ target \in Digests /\ target \notin Tags
    BY ImageAssumption DEF IInv, Pinned, TypeOK
  <2>2. Create
    BY DEF Next, Start, World, Begin, Resolve, SetResolvedImage, IsRunning, CurrentInfo, FetchCurrent,
           TargetExists, PullTarget, DiffCurrent, DiffNew, DiffFails, Extract, Confirm,
           Remove, ImageExists, PullMissing,
           CheckUpdate, PullUpdate, Push, Network, ContainerStops, Build, Prune, vars, Ends
  <2> QED
    BY <2>1, <2>2 DEF Create, Local, Lookup
<1> QED
  BY <1>1, Invariance, PTL DEF Spec, CreatedIsResolved

\* A director that is known to run another image than the one resolved is not taken to
\* be up to date.
THEOREM NoUpgradesMissed == Spec => NoUpgradeMissed
<1>1. IInv /\ [Next]_vars
        => [/\ pc \in {"currentInfo", "fetchCurrent"} /\ pc' = "kept"
            /\ target # NoDigest /\ Known
            => container = target]_vars
  <2> SUFFICES ASSUME IInv, [Next]_vars, pc \in {"currentInfo", "fetchCurrent"},
                      pc' = "kept", target # NoDigest, Known
               PROVE  container = target
    OBVIOUS
  <2>1. pc = "currentInfo" /\ pc # pc'
    BY DEF IInv, FetchesUnknown
  <2>2. CurrentInfo
    BY <2>1 DEF Next, Start, World, Begin, Resolve, SetResolvedImage, IsRunning, FetchCurrent,
           TargetExists, PullTarget, DiffCurrent, DiffNew, DiffFails, Extract, Confirm,
           Remove, ImageExists, PullMissing,
           CheckUpdate, PullUpdate, Create, Push, Network, ContainerStops, Build, Prune,
           vars, Ends
  <2>3. DigestOfContainer = container
    BY ImageAssumption
       DEF DigestOfContainer, DigestInRef, RepoDigest, Known, IInv, MadeAsPinned, TypeOK
  <2> QED
    BY <2>1, <2>2, <2>3, ImageAssumption DEF CurrentInfo, Known
<1> QED
  BY <1>1, Invariance, PTL DEF Spec, NoUpgradeMissed
=============================================================================

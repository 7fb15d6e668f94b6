------------------------------ MODULE Stemcells ------------------------------
(***************************************************************************)
(* How a director gets its stemcells: a deploy ensures those that its      *)
(* manifest requires (EnsureStemcells), `start` uploads the default one    *)
(* and `upload-stemcell` one that the user names.  They may run at the     *)
(* same time, and the registry publishes versions while they do.           *)
(*                                                                         *)
(* With Docker a stemcell is made of an image of the registry.  A tag is a *)
(* number, and so is an image: the tag of a version names its image for    *)
(* ever, and the tag latest (0) names one image after the other, before or *)
(* after that image has the tag of its version.  With Incus a stemcell is  *)
(* downloaded from bosh.io.  Registry, bosh.io, Docker daemon and director *)
(* are not in the repository, and any call may fail.                       *)
(***************************************************************************)
EXTENDS Naturals, Sequences

CONSTANTS
  Deployers,     \* processes that deploy
  Uploaders,     \* processes that only upload a stemcell
  OSes,          \* operating systems of stemcells
  DefaultOS,     \* that of defaultStemcellImages
  MaxVersion     \* versions that are ever published (bound)

Versions == 1 .. MaxVersion
Latest == 0
None == 0                          \* no image
Tags == Versions \cup {Latest}
Requirement == [os : OSes, version : Tags]
Procs == Deployers \cup Uploaders

ASSUME StemcellsAssumption ==
  /\ MaxVersion \in Nat \ {0} /\ DefaultOS \in OSes
  /\ Deployers \cap Uploaders = {}

VARIABLES
  kind,       \* the CPI of the director
  tagged,     \* of every OS: the versions 1 .. tagged[os] are published
  latest,     \* of every OS: the image that the tag latest names
  local,      \* of every OS: the image that the Docker daemon has, and its version tag or none
  suffixed,   \* the OSes whose stemcells on bosh.io are named with -go_agent
  stemcells,  \* of the director: OS, version and the image it is made of
  pc,         \* of every process: its next step
  work        \* of every process: its local state

sourceVars == <<kind, tagged, latest, local, suffixed>>
stemcellVars == <<sourceVars, stemcells, pc, work>>

Stemcell == [os : OSes, version : Tags, image : Versions]

\* What the listing of the director had, what is still to be ensured, the reference that
\* is being resolved and what is known of it.  First is the way of `start`: the listing
\* comes before the image is resolved, with upload-stemcell after it.
Work ==
  [required : Seq(Requirement), todo : Seq(Requirement), listed : SUBSET (OSes \X Tags),
   os : OSes, tag : Tags, image : Versions \cup {None}, version : Tags, first : BOOLEAN]

NoWork ==
  [required |-> <<>>, todo |-> <<>>, listed |-> {}, os |-> DefaultOS, tag |-> Latest,
   image |-> None, version |-> Latest, first |-> FALSE]

Resolving == {"manifest", "tags", "local", "plain", "agent"}
StemcellSteps == Resolving \cup {"begin", "list", "next", "check", "upload", "ensured", "done", "failed"}

Key(s) == <<s.os, s.version>>
Held(found) == {Key(s) : s \in found}

\* The director may have been used before, and the processes that take part have yet to
\* begin.  With Incus there is no Docker daemon to have images.
StemcellsInit ==
  /\ kind \in {"docker", "incus"}
  /\ tagged = [os \in OSes |-> 1] /\ latest = tagged
  /\ local \in [OSes -> {[image |-> None, tag |-> Latest]} \cup
                        IF kind = "docker" THEN [image : {1}, tag : {1, Latest}] ELSE {}]
  /\ suffixed \in IF kind = "docker" THEN {{}} ELSE SUBSET OSes
  /\ stemcells \in SUBSET [os : OSes, version : {1}, image : {1}]
  /\ pc \in [Procs -> {"begin", "done"}]
  /\ work = [p \in Procs |-> NoWork]

-----------------------------------------------------------------------------
Goto(p, next) == pc' = [pc EXCEPT ![p] = next]

\* A step that is local to a process; what it knows is gone when it ends.
Step(p, from, next, mine) ==
  /\ pc[p] = from
  /\ Goto(p, next)
  /\ work' = [work EXCEPT ![p] = IF next \in {"done", "failed"} THEN NoWork ELSE mine]
  /\ UNCHANGED <<sourceVars, stemcells>>

\* A failure ends a deploy; start warns of it and goes on, upload-stemcell ends.
Failed(p) == IF p \in Deployers THEN "failed" ELSE "done"

\* How the resolution of a reference begins.
Resolve(p, os, tag) == [work[p] EXCEPT !.os = os, !.tag = tag, !.image = None, !.version = Latest]
FirstCall == IF kind = "docker" THEN "manifest" ELSE "plain"

\* A version of a stemcell is known: it is uploaded, or compared with a listing first.
Resolved(p) ==
  IF p \in Deployers \/ kind = "incus" THEN "upload"
  ELSE IF work[p].first THEN "check" ELSE "list"

\* The registry and bosh.io publish: the tag of the next version, then latest, or in the
\* other order.
PublishVersion(os) ==
  /\ tagged[os] < MaxVersion /\ (kind = "docker" => tagged[os] <= latest[os])
  /\ tagged' = [tagged EXCEPT ![os] = @ + 1]
  /\ UNCHANGED <<kind, latest, local, suffixed, stemcells, pc, work>>

MoveLatest(os) ==
  /\ kind = "docker"
  /\ latest[os] < MaxVersion /\ latest[os] <= tagged[os]
  /\ latest' = [latest EXCEPT ![os] = @ + 1]
  /\ UNCHANGED <<kind, tagged, local, suffixed, stemcells, pc, work>>

-----------------------------------------------------------------------------
\* GetImageMetadata: the image of the reference, for latest a version tag of that image,
\* then, if there is none, what the Docker daemon says of the reference.

TagExists(os, tag) == tag = Latest \/ tag <= tagged[os]
ImageOf(os, tag) == IF tag = Latest THEN latest[os] ELSE tag

ManifestGet(p) ==
  LET w == work[p] IN
  /\ TagExists(w.os, w.tag)
  /\ Step(p, "manifest", IF w.tag = Latest THEN "tags" ELSE Resolved(p),
          [w EXCEPT !.image = ImageOf(w.os, w.tag), !.version = w.tag])

ManifestGetFails(p) == Step(p, "manifest", "local", work[p])

FindVersionTagForDigest(p) ==
  /\ work[p].image <= tagged[work[p].os]
  /\ Step(p, "tags", Resolved(p), [work[p] EXCEPT !.version = work[p].image])

\* No tag of a version names the image, or tags could not be read.
NoVersionTag(p) == Step(p, "tags", "local", work[p])

\* How the tags of the image that the daemon has name its version; Latest if they do not.
findVersionTagInRepoTags(os) == local[os].tag

\* What the daemon has under a reference.
HasLocal(os, tag) ==
  /\ local[os].image # None
  /\ tag = Latest \/ tag = findVersionTagInRepoTags(os)

\* Mutant: the version of the local image, the digest of the one in the registry.
AskLocalForTag(p) ==
  LET w == work[p]
      found == HasLocal(w.os, w.tag)
      version == IF found THEN local[w.os].tag ELSE Latest
  IN  IF w.image = None /\ ~found
      THEN Step(p, "local", Failed(p), w)
      ELSE Step(p, "local", Resolved(p),
                [w EXCEPT !.version = version,
                          !.image = IF @ = None THEN local[w.os].image ELSE @])

\* The local image counts if the registry could not be asked, or if it has a version and
\* the registry's has none.
AskLocal(p) ==
  LET w == work[p]
      version == findVersionTagInRepoTags(w.os)
      found == HasLocal(w.os, w.tag) /\ (w.image = None \/ version # Latest)
  IN  IF w.image = None /\ ~found
      THEN Step(p, "local", Failed(p), w)
      ELSE Step(p, "local", Resolved(p),
                IF found THEN [w EXCEPT !.image = local[w.os].image, !.version = version]
                ELSE w)

\* ResolveStemcellByInfra: the name without the suffix, then, after any error, with it.
\* The first entry of bosh.io is the newest.
OnBoshIO(os, tag) == IF tag = Latest THEN tagged[os] ELSE tag

Answer(p, from, found, otherwise) ==
  LET version == OnBoshIO(work[p].os, work[p].tag) IN
  \/ /\ found /\ version <= tagged[work[p].os]
     /\ Step(p, from, "upload", [work[p] EXCEPT !.version = version, !.image = version])
  \/ Step(p, from, otherwise, work[p])

ResolvePlain(p) == Answer(p, "plain", work[p].os \notin suffixed, "agent")
ResolveAgent(p) == Answer(p, "agent", work[p].os \in suffixed, Failed(p))

-----------------------------------------------------------------------------
\* What a process wants: EnsureStemcells, start (with Docker), upload-stemcell.

BeginEnsure(p, required) ==
  Step(p, "begin", "list", [NoWork EXCEPT !.required = required, !.todo = required])

BeginStart(p) ==
  /\ p \in Uploaders /\ kind = "docker"
  /\ Step(p, "begin", "list", [NoWork EXCEPT !.first = TRUE])

\* What upload-stemcell is given: an OS, and a version or nothing, which is latest.
Arguments == OSes \X Tags

\* `docker upload-stemcell` names an image, `incus upload-stemcell` an entry of bosh.io.
BeginUpload(p) ==
  \E argument \in Arguments :
    /\ p \in Uploaders
    /\ Step(p, "begin", FirstCall, Resolve(p, argument[1], argument[2]))

List(p) ==
  Step(p, "list", IF p \in Deployers THEN "next" ELSE IF work[p].first THEN FirstCall ELSE "check",
       [work[p] EXCEPT !.listed = Held(stemcells)])

ListFails(p) == Step(p, "list", Failed(p), work[p])

Satisfied(r, held) ==
  IF r.version = Latest THEN \E key \in held : key[1] = r.os ELSE <<r.os, r.version>> \in held

\* The listing is not brought up to date: of two equal requirements both are uploaded.
NextRequirement(p) ==
  LET w == work[p] IN
  IF w.todo = <<>> THEN Step(p, "next", "ensured", w)
  ELSE IF Satisfied(Head(w.todo), w.listed)
  THEN Step(p, "next", "next", [w EXCEPT !.todo = Tail(@)])
  ELSE Step(p, "next", FirstCall,
            [Resolve(p, Head(w.todo).os, Head(w.todo).version) EXCEPT !.todo = Tail(@)])

Check(p) ==
  Step(p, "check", IF <<work[p].os, work[p].version>> \in work[p].listed THEN "done" ELSE "upload",
       work[p])

\* A director that has the version keeps it as it is.
Upload(p) ==
  LET w == work[p] IN
  /\ pc[p] = "upload"
  /\ Goto(p, IF p \in Deployers THEN "next" ELSE "done")
  /\ work' = IF p \in Deployers THEN work ELSE [work EXCEPT ![p] = NoWork]
  /\ stemcells' =
       IF <<w.os, w.version>> \in Held(stemcells) THEN stemcells
       ELSE stemcells \cup {[os |-> w.os, version |-> w.version, image |-> w.image]}
  /\ UNCHANGED sourceVars

\* Mutant: a deploy goes on to the next stemcell, as start does.
UploadFailsOnward(p) ==
  Step(p, "upload", IF p \in Deployers THEN "next" ELSE "done", work[p])

UploadFails(p) == Step(p, "upload", Failed(p), work[p])

StemcellStep(p) ==
  \/ BeginStart(p) \/ BeginUpload(p)
  \/ List(p) \/ ListFails(p) \/ NextRequirement(p) \/ Check(p)
  \/ ManifestGet(p) \/ ManifestGetFails(p)
  \/ FindVersionTagForDigest(p) \/ NoVersionTag(p) \/ AskLocal(p)
  \/ ResolvePlain(p) \/ ResolveAgent(p)
  \/ Upload(p) \/ UploadFails(p)

Publishing == \E os \in OSes : PublishVersion(os) \/ MoveLatest(os)

-----------------------------------------------------------------------------
StemcellsTypeOK ==
  /\ kind \in {"docker", "incus"}
  /\ tagged \in [OSes -> Tags] /\ latest \in [OSes -> Tags]
  /\ local \in [OSes -> [image : Tags, tag : Tags]]
  /\ suffixed \subseteq OSes /\ stemcells \subseteq Stemcell
  /\ work \in [Procs -> Work]

\* A stemcell with a version is made of the image that the tag of the version names,
\* though the tag latest moves, and versions are published, while it is resolved.
VersionsTrue == \A s \in stemcells : s.version # Latest => s.image = s.version
=============================================================================

------------------------------- MODULE OpsFiles -------------------------------
(***************************************************************************)
(* The ops files that ibosh embeds or generates, and the order in which    *)
(* `bosh interpolate` applies them to the manifests of CF and of a BOSH    *)
(* director.                                                               *)
(*                                                                         *)
(* An operation appends to a manifest, replaces, edits or removes a part   *)
(* of it.  One that names a part that is not there is an error, unless its *)
(* path is optional; the manifests that the operations can make of one     *)
(* are a set, which is empty after an error.  Of a manifest there is what  *)
(* Consolidate tells apart, its stemcells, and the sections that only      *)
(* `bosh create-env` knows; of a release its name and version, whether it  *)
(* has a URL, and the version that its stemcell section names, if it has   *)
(* one.  What the tarball at the URL is compiled for is not told apart:    *)
(* ibosh does not look at it.  Operations on single properties are left    *)
(* out.                                                                    *)
(***************************************************************************)
EXTENDS Consolidate

CONSTANT NoSection   \* the stemcell version of a release without a stemcell section

Release == [name : STRING, version : Nat, url : BOOLEAN, stemcell : Nat \cup {NoSection}]

\* Those that a director can fetch, and of these the ones without a stemcell section.
Fetchable == {r \in Release : r.url}
Unlabelled == {r \in Fetchable : r.stemcell = NoSection}

Appending(part, value)  == [do |-> "append", part |-> part, value |-> value]
Replacing(release)      == [do |-> "replace", value |-> release, optional |-> FALSE]
Putting(release)        == [do |-> "replace", value |-> release, optional |-> TRUE]
Pinning(name, version)  == [do |-> "pin", name |-> name, version |-> version]
Adding(job)             == [do |-> "job", value |-> job]
EditingJob(name)        == [do |-> "editJob", name |-> name]
Editing(section)        == [do |-> "edit", section |-> section]
Removing(section)       == [do |-> "remove", section |-> section]
RemovingVariable(name)  == [do |-> "removeVariable", name |-> name]

PlainRelease(name, version) ==
  [name |-> name, version |-> version, url |-> TRUE, stemcell |-> NoSection]
NoRoutes(name) == [name |-> name, routes |-> <<>>]

Indices(m, name) == {i \in DOMAIN m.releases : m.releases[i].name = name}

\* Of the group of a BOSH director, which is the only one.
Jobs(m) == m.groups[1].jobs

ReplaceRelease(m, release, optional) ==
  LET found == Indices(m, release.name) IN
  IF found = {} /\ optional THEN {[m EXCEPT !.releases = Append(@, release)]}
  ELSE {[m EXCEPT !.releases[i] = release] : i \in {i \in found : found = {i}}}

\* The path of a pin is in the release's stemcell section, which must be there. What the
\* section says is all that changes.
PinRelease(m, name, version) ==
  LET found == Indices(m, name) IN
  {[m EXCEPT !.releases[i].stemcell = version] :
     i \in {i \in found : found = {i} /\ m.releases[i].stemcell # NoSection}}

ApplyOp(m, op) ==
  CASE op.do = "append"  -> {[m EXCEPT ![op.part] = Append(@, op.value)]}
    [] op.do = "replace" -> ReplaceRelease(m, op.value, op.optional)
    [] op.do = "pin"     -> PinRelease(m, op.name, op.version)
    [] op.do = "job"     -> {[m EXCEPT !.groups[1].jobs = Append(@, op.value)]}
    [] op.do = "editJob" -> IF \E i \in DOMAIN Jobs(m) : Jobs(m)[i].name = op.name THEN {m} ELSE {}
    [] op.do = "edit"    -> IF op.section \in m.sections THEN {m} ELSE {}
    [] op.do = "remove"  -> IF op.section \in m.sections
                            THEN {[m EXCEPT !.sections = @ \ {op.section}]} ELSE {}
    [] op.do = "removeVariable" ->
         IF op.name \in ToSet(m.variables)
         THEN {[m EXCEPT !.variables = Without(@, {op.name})]} ELSE {}

\* bosh interpolate.
Interpolated(m, ops) ==
  FoldLeft(LAMBDA ms, op : UNION {ApplyOp(n, op) : n \in ms}, {m}, ops)

-----------------------------------------------------------------------------
\* cf deploy.  A document is what is embedded: the manifest cf, the releases of
\* use-compiled-releases.yml, and the runtime config of bosh-dns.  The groups of cf are as
\* the ops files that scale and unclutter them leave them: those touch nothing else.

\* The releases and the variables of the runtime config; its addons run on every group.
DNSOpsFile(doc) ==
  [i \in DOMAIN doc.dns.releases |-> Appending("releases", doc.dns.releases[i])]
  \o [i \in DOMAIN doc.dns.variables |-> Appending("variables", doc.dns.variables[i])]

StandardCFOpsFiles(doc) == [i \in DOMAIN doc.compiled |-> Replacing(doc.compiled[i])]

\* The stemcell section of every compiled release is made to name the first stemcell of the
\* manifest, whose version must be there; it is an error if no release has a section.
CompiledReleasesStemcellOpsFile(doc) ==
  LET pinned == Without(doc.compiled, {r \in ToSet(doc.compiled) : r.stemcell = NoSection}) IN
  IF doc.cf.stemcells = <<>> \/ pinned = <<>> THEN {}
  ELSE {[i \in DOMAIN pinned |-> Pinning(pinned[i].name, doc.cf.stemcells[1].version)]}

\* Mutant: the pins are written to their file, which is not among those that are applied.
PrepareCFManifestFilesUnpinned(doc) ==
  {DNSOpsFile(doc) \o StandardCFOpsFiles(doc) : pins \in CompiledReleasesStemcellOpsFile(doc)}

\* The runtime config comes first, the pins after the releases that they change.
PrepareCFManifestFiles(doc) ==
  {DNSOpsFile(doc) \o StandardCFOpsFiles(doc) \o pins :
     pins \in CompiledReleasesStemcellOpsFile(doc)}

RenderedCF(doc) == UNION {Interpolated(doc.cf, ops) : ops \in PrepareCFManifestFiles(doc)}

-----------------------------------------------------------------------------
\* bosh deploy: bosh.yml is a manifest for `bosh create-env`, the last of the ops files
\* makes it one for a director.

\* The last two are parts of the group.
CreateEnvSections ==
  {"networks", "disk_pools", "resource_pools", "cloud_provider", "persistent_disk_pool",
   "resource_pool"}

\* The releases are tarballs that are compiled for some stemcell, here and in the ops
\* files, but none has a section that says so.
boshManifest ==
  [groups |-> <<[name |-> "bosh", jobs |-> <<NoRoutes("director"), NoRoutes("health_monitor")>>,
                 disk |-> NoDisk, ips |-> {"internal"}, extensions |-> {}]>>,
   aliases |-> <<>>, releases |-> <<PlainRelease("bosh", 1), PlainRelease("bpm", 1)>>,
   variables |-> <<"admin_password", "mbus_bootstrap_password">>,
   stemcells |-> <<>>, sections |-> CreateEnvSections]

BOSHLiteManifest ==
  <<Appending("releases", PlainRelease("garden-runc", 1)),
    Appending("releases", PlainRelease("bosh-warden-cpi", 1)),
    Adding(NoRoutes("garden")), EditingJob("garden"), Adding(NoRoutes("warden_cpi")),
    Putting(PlainRelease("os-conf", 1)), Adding(NoRoutes("disable_agent"))>>
WardenCPIOpsFile ==
  <<Putting(PlainRelease("bosh-warden-cpi", 1)), Editing("resource_pools"), Editing("cloud_provider")>>
JumpboxUserOpsFile ==
  <<Putting(PlainRelease("os-conf", 2)), Adding(NoRoutes("user_add")),
    Appending("variables", "jumpbox_ssh")>>
UAAOpsFile ==
  <<Appending("releases", PlainRelease("uaa", 1)), Adding(NoRoutes("uaa"))>>
CredhubOpsFile ==
  <<Appending("releases", PlainRelease("credhub", 1)), Adding(NoRoutes("credhub")), EditingJob("uaa")>>
\* The types, zones and updates that it puts in the place of the removed parts have
\* optional paths and are left out.
BOSHDevOpsFile(stemcell) ==
  <<Removing("networks"), Removing("disk_pools"), Removing("persistent_disk_pool"),
    Removing("resource_pools"), Removing("resource_pool"), Appending("stemcells", stemcell),
    Removing("cloud_provider"), RemovingVariable("mbus_bootstrap_password")>>

PrepareBOSHManifestFiles(stemcell) ==
  BOSHLiteManifest \o WardenCPIOpsFile \o JumpboxUserOpsFile \o UAAOpsFile
  \o CredhubOpsFile \o BOSHDevOpsFile(stemcell)

RenderedBOSH(stemcell) == Interpolated(boshManifest, PrepareBOSHManifestFiles(stemcell))
=============================================================================

# Verification of instant-bosh

TLA+ models of `ibosh`, the command that runs a BOSH director in one container
(Docker or Incus), with the TLC runs that check them and the TLAPS proofs of the
properties that matter most. Sources are named relative to `src/`.

## The system

`ibosh` keeps no state of its own. Everything it knows is in the Docker daemon or
the Incus server, under fixed names, and in the director that runs there. Every
command is a separate process, a straight sequence of API calls, each decided by
what an earlier one returned. Nothing locks, nothing is undone, and no signal is
handled. The behaviour that is hard to test follows from that: commands in two
terminals interleave at every call, and a command that fails or is interrupted
leaves whatever it had done for the next command to find.

### Components

| component | sources | state | operations | what makes it correct |
|---|---|---|---|---|
| docker lifecycle | `internal/commands/{start,stop,destroy}.go`, `internal/cpi/docker_cpi.go`, `internal/docker/client.go` | the container, its two volumes, the network, the VMs on it | start, stop, destroy | a command nobody disturbs succeeds from whatever was left behind; start delivers a configured director; destroy leaves nothing; the store is never lost but to a destroy |
| incus lifecycle | `internal/cpi/incus_cpi.go`, `internal/incus/client.go` | the instance, volumes in a pool, the network, the project | start, stop, destroy | as above; stopped instances are kept |
| image upgrade | `internal/commands/start.go:226-459`, `internal/registry/client.go` | the local images, the tag in the registry, the pinned digest | resolve, compare, confirm, pull | what runs is the image the user confirmed; nobody is asked to replace a director by itself; a running director is not removed before its replacement is there |
| image layers | `internal/registry/client.go` | none | read a file out of an image | the two manifests that are compared are those of the two images |
| cf deploy | `internal/commands/cf.go` | the deployment, its address, its credentials, the process environment | deploy, delete, manifest, print-env, login | the router stays where it is; credentials go when they should and only then; the CLI runs with the environment of the shell; a dry run changes nothing |
| bosh deploy | `internal/commands/bosh.go` | as above, a second director and its cloud-config | deploy, delete, print-env | as above; the second director is configured |
| config server | `internal/configserver/client.go` | the stored values, the token of a client | get, delete | a token that was brought and is sent in time is still good when it arrives |
| ip selection | `internal/commands/ipselection.go` | none | parse a range, increment, select | the lowest address of the range that is free |
| director access, backends | `internal/director/client.go`, `internal/commands/{print_env,creds}.go`, `internal/cpi/detect.go`, the connections of `internal/{docker,incus}/client.go` | environment variables, the configuration of the docker and incus CLIs | find the daemon or server, connect, target | the director a command reaches is the one that was asked for, through its proxy |
| stemcells | `internal/commands/{upload,ensure}_stemcell*.go`, `internal/stemcell`, `internal/boshio`, `internal/docker/registry.go` | the director's stemcells, tags, local images | resolve, upload, ensure | each is made of the image its version names; those that a deploy ensured are there |
| uploaded releases | `internal/uploadedrelease/filter.go` | the director's releases | filter a manifest | a release that loses its URL is there |
| manifests | `internal/manifests` | a manifest, in memory | render, consolidate | every job runs once; every name reaches it; no part is left that only `create-env` knows, no version of another stemcell |
| log buffer | `internal/logwriter/buffer.go` | the last lines and a partial one, under a mutex | write, read, clear | no line lost, split or duplicated, whatever the chunks; at most `maxLines` |
| startup logs | `internal/commands/start.go:126-177`, `internal/logwriter/writer.go`, `internal/logparser` | what the user has seen, where the goroutine is | follow, show, report | progress is what main says, once and in order; the error report is a true end of the log |
| log following | `internal/commands/logs.go`, `internal/cpi/incus_cpi.go:155-280` | how far the log has been read | follow, tail | each byte once, in order, and in the end |
| wiring | `cmd/ibosh/main.go`, `internal/cpi/{cpi,detect}.go` | none | parse flags, choose the backend | the backend that runs is the one used |

The commands call the CPI (`internal/cpi/cpi.go`), the CPI its client, the client
the daemon. `start` also runs a goroutine that copies the container's log into a
buffer while it waits, talks to the director through the credentials it reads with
`exec` in the container, and returns. The director, once up, calls the same daemon
to create VMs on the same network, and `destroy` races it for them. The commands
that deploy are `bosh` CLI calls with an environment that `ibosh` sets and restores;
between those calls they read and delete credentials in the config server of the
director, and nothing tells them which daemon or server `start` was pointed at.

## Modules

    DirectorPromise        what ibosh promises about the director and its store
      ^ implemented by
    DockerLifecycle        start, stop, destroy against the Docker daemon
      MCDockerLifecycle      for TLC
      DockerLifecycleProofs  the inductive invariant, what follows, the refinement
    IncusLifecycle         start, stop, destroy against the Incus server
      MCIncusLifecycle       for TLC
      IncusLifecycleProofs   the inductive invariant, what follows, the refinement

    ImageLayers            which version of a file an image has
      ^ extended by
    ImageUpgrade           which image start creates the director from
      MCImageUpgrade         for TLC
      ImageUpgradeProofs

    ConfigServer           stored values, tokens, delays
    IPSelection            the address of a deployment, and its reference definition
    Backends               which daemon, server and project a command reaches
      ^ all three composed by
    Deployments            cf, bosh, creds and print-env against the director
      MCDeployments          for TLC
      DeploymentsProofs      what is selected, the inductive invariant, what follows

    Stemcells              resolving and uploading stemcells
    Consolidate            instance groups, aliases, uploaded releases
      ^ extended by
    OpsFiles               the operations on a manifest and their order
      ^ composed, with Stemcells, by
    ManifestPipeline       from the embedded manifest to `bosh deploy`
      MCManifestPipeline     for TLC
      ManifestPipelineProofs what the ops files keep, the inductive invariant

    LogBuffer              the ring buffer of log lines
      ^ extended by
    StartupLogs            the goroutine that follows the log, and the error report
      StartupLogsProofs
    ConsoleLog             `incus logs`, which polls
      ConsoleLogProofs

    FoldLemmas             induction, recursion and folds, for the proofs about
                           Deployments, ManifestPipeline and ConsoleLog

The two lifecycles implement the same abstract specification. `ImageUpgrade` is the
detail of one of their steps: what `CheckUpgrade` decides, and the image that the
pull and the creation use. `StartupLogs` runs beside the readiness loop, and shares
nothing with the lifecycle but the moment that loop ends. `Deployments` begins where a
lifecycle ends, with a director that runs; what it calls the manifest is what
`ManifestPipeline` is about, and the two share no variable: the one has addresses,
credentials and environments, the other stemcells, releases and groups.

### DirectorPromise

Three variables, `up`, `kept` and `condemned`, and what may happen to them together:
a director only ever adds to its store; the store is emptied while a confirmed
destroy is under way, and never under a director that is up.

### DockerLifecycle

*State.* `director` is the container named `instant-bosh` (absent, created,
running, exited); `owner` is the process whose `ContainerCreate` made it, which
stands for the container's ID. `volumes`, `network` and `vms` are the other objects
of the daemon. `content` is what the store volume holds, and `ready` whether
`GET /info` answers 200. `pc[p]` is the API call process `p` makes next, or how its
last command ended. `missing`, `targets` and `authentic` are what a command
remembers between calls: the volumes it found missing, the VMs it listed, the
credentials it read. `overlapped` and `faulted` are history: whose last command ran
at the same time as another, and whose met something external.

*Actions.* One per API call, in the order of the code (`PROJECT.json` "map" names
the lines). Two calls are folded into one only where nothing in between could be
told apart: listing the VMs is `NetworkInspect` and `ContainerList`; the looks of
`destroy` after the container has been found decide nothing and are left out.
Around the commands: the daemon removes an exited container a little later
(`AutoRemove`), the director boots, crashes, creates and deletes VMs, any call may
fail (`Fault`, and where its error sends the command is `OnError`), a removal may
meet the daemon's own (`RemovalInProgress`), and the user may interrupt a command.
A call that took effect and whose reply is lost is the call followed by an
interruption or by the failure of the next one.

*What is external.* The Docker daemon and the director are not under `src/`. Their
side of each call is the one the code in `src/` relies on: names are unique, a
volume in use and a network with endpoints are not removed, `VolumeCreate` of an
existing volume succeeds, a bind mount of a named volume creates it, a container is
addressed by its ID after its creation.

*Properties.*

- `UndisturbedSucceeds`: a command that overlapped no other and met no failure
  does not fail, whatever earlier commands left behind.
- `StartDelivers`: a start that runs alone and ends well leaves credentials and
  cloud-config in the store, both volumes, the network, and, if nothing external
  failed, a director that answers.
- `DestroyDelivers`: a destroy that runs alone and reports completion has left
  nothing, even when VM removals failed and were passed over; one that reports
  nothing to do, and met no failure, is right. After a failed look it may be wrong, which
  is what the code means to do (below).
- `PromiseKept`: the module implements `DirectorPromise`, with any number of
  commands at once.
- `SomeStartWins`: racing starts never all lose, when nothing fails.
- `CommandsEnd`: every command ends.

*Finding.* `StartConfigures`, below.

### IncusLifecycle

*State.* As above, and: `instance` (absent, stopped, running; a stopped one stays),
`home`, the storage pool its volumes are attached from, and `provisioned`, whether it
holds the vars file its entrypoint reads. `volumes` are pairs of a pool and a name,
`content` is per pool. A process remembers the `pool` and `net` its start was given,
`after`, where the two shared helpers return to (`EnsureVolumes` is called twice in a
start, `RemoveContainer` by an upgrade, by the removal of a stopped instance and by
destroy), and `authentic`, the pool in whose store the credentials it has read are.

*Actions.* One per API call: removing an instance is a look, a stop and a deletion,
creating one is a creation, the push of the vars file, and a start. All address the
instance by its name, so another command may have replaced it in between. The
operations of the server that the client waits for are one call with the wait.

*External.* The Incus server (names unique in a project, a volume in use is not
removed, a running instance not deleted) and the director.

*Properties.* `UndisturbedSucceeds`, `StartDelivers`, `DestroyDelivers`, `CommandsEnd`
and `SomeStartWins` as for Docker, with pools and networks: a start must leave its
director on the pool it was given though an instance of another pool was there.
`SomeStartWins` has an exception that is true of the code: of two starts on different
pools, one that finds the other's instance, stopped, in the way of its own creation can
lose to it, and an instance that nobody started is what is left.
`PromiseKept` is stated for the store of `Watched`, any one pool.

*Finding.* `DestroyRemovesAllData`, below.

### ImageUpgrade and ImageLayers

*State.* What each tag denotes in the registry (`remote`) and locally (`tagged`), the
local `images`, whether the registry can be reached (`online`), the image that runs
(`container`) and the reference it was created with (`madeFrom`); of start, the flags,
the `target` it resolved, the reference the client now creates from (`imageName`), and
what it read of the running container and of the manifests in the two images.
`backend` is chosen at first and never changes. An image is a sequence of layers, and
the manifest the file of the topmost one that has it and can be read.

*Actions.* The steps of one start, one per call of the registry, the daemon or the
user: resolve, is it running, compare, fetch, is the target there, pull, confirm,
remove, and the pull of a missing or newer image. Between any two of them somebody
pushes a tag, the network goes or comes, or the container stops; between commands
images are built under a tag, and pruned. A pull is one call; a digest has one image,
and an image of the registry its digest, while one built locally has none. Calls of
the daemon do not fail here but for want of the network; `DockerLifecycle` has that.

*Properties.* `PromptMeansChange`, `NoUpgradeMissed`, `CreatedIsResolved`,
`UpgradeNotStranded`, and `PromptShowsTarget`: when the user is asked, what was shown
as current and as new are the manifests of the image that runs and of the target. The
first two and the last are about directors whose image is `Known`: one that Incus made
by tag, while the registry was away, does not tell what it runs. `UpgradeNotStranded`
is about Docker: with Incus nothing is pulled before the removal.

### Deployments, with ConfigServer, IPSelection and Backends

*State.* Of the outer director its `kind`, the static `range` of its cloud-config,
where a command without flags looks for it (`reach`: home, elsewhere, nowhere), and what
is `deployed`: the address and the credentials CF was deployed with, the address of the
inner director, whether that one has its cloud-config. `stored` are the values in the
config server, `tampered` whether those of a running CF may differ. `manifest` is the
one file that every `bosh deploy` writes. Of every shell: the director its environment
names (`target`), the `token` of its process, its step and what the command remembers.

*Actions.* One per call of the bosh CLI, of the config server, and of the CPI that a
deploy makes for itself; the environment a call runs in is set by the step before it.
`ConfigServer` gives each request a token that lives for a while, longer in the eyes of
the client than in truth, by the time the reply took, and in which the request is on its way;
time is in units of thirty seconds, which is the buffer by which the client renews a token
early, and as well the time that its HTTP client gives to every exchange. A reply and a
request that take longer together than the buffer are possible, and `timely` says that
there were none. `IPSelection` is the loop of `parseIPRange` over addresses of `Width` bytes; `Backends` computes `reach`
from the flags of the start and what the CLIs are configured to, with the order of
precedence of the code. Every call may fail, each with the error path of the code:
an address that cannot be learnt is none, a credential that cannot be deleted is
passed over. A failed CLI call may have had its effect, or a part of it.

*External.* The bosh CLI, the director and what it does with a manifest: it generates
the credentials that are not stored, and refuses an address that is taken.

*Properties.*

- `RouterStays`: alone, a redeploy that picks the address itself keeps it.
- `UndisturbedDeploys`: alone, a deploy does not fail while an address is free and the
  director is where it is looked for; a second director has its cloud-config in the end.
- `CredsForced`: with `--delete-creds`, none of the old credentials is stored when the
  deployment begins, unless a deletion failed, or the reply with a token and the request
  that carried it took longer together than the buffer. The tokens matter here: a deletion
  with an expired one is passed over.
- `LoginPassword`: the password that is printed is the one CF was deployed with, unless its
  credentials were changed since, or a message came too late in the same sense.
- `DeploysAsShell`: the CLI deploys with the variables and the proxy of the shell, not
  with those ibosh set for its own connection.
- `DryRunHarmless`: a dry run leaves deployments, credentials and files alone.
- `SelectsLowestFree`: the address that is selected is the lowest free one by the
  numerical reference definition, across carries.

*Finding.* `RedeployKeepsRouter`, below.

### Stemcells, Consolidate, OpsFiles and ManifestPipeline

*State.* `Stemcells` has the versions that are published, what `latest` names, the image
the Docker daemon has and its tags, which names bosh.io knows, and the `stemcells` of
the director with the image each is made of. `ManifestPipeline` adds what is `embedded`,
the `releases` of the director, and the manifest of each command. A manifest has the
groups (name, jobs, disk, static addresses, extensions), DNS aliases, releases (version,
URL, the version that their stemcell section names, if they have one), variables,
stemcells, and the sections that only `bosh create-env` takes. What a release's tarball is
compiled for is not in the model: nothing in `src/` reads it.

*Actions.* One per call to the registry, bosh.io, daemon and director; rendering,
consolidating and filtering are one step each, and what they compute is in `OpsFiles`
and `Consolidate`: an operation makes of a manifest a set of manifests, empty when
its path is not there, in the order in which the CLI applies the files. The registry
publishes meanwhile, `latest` before or after the version.

*External.* The registry, bosh.io, the Docker daemon, the director; `bosh interpolate`.

*Properties.*

- `VersionsTrue`: a stemcell with a version is made of that version's image, however
  `latest` moves between two requests.
- `NothingMissing`: a release that is handed to `bosh deploy` without a URL is at the
  director; and if the command ensured stemcells (`Ensured`), the director holds every one
  that the handed manifest asks for, though the ops files and the consolidation came
  between. `bosh deploy` and `cf deploy --skip-stemcell-upload` ensure none.
- `Deployable`: the ops files of `bosh deploy` apply; what is handed over has stemcells and
  no `create-env` section; no stemcell section of a release names a version that the
  manifest does not ask for. The last is about `cf deploy`, whose pins it needs: the
  releases of `bosh deploy` have no such section.
- `EveryJobRuns`: after the consolidation every job of every group but haproxy runs
  once, in the group it is mapped to, with its routes, on a disk if its source has one, in
  `router` at the addresses of its source, and apart from the jobs it must not meet.
- `AliasesReachJobs`: every DNS alias resolves to a group that runs the job it was for.

### LogBuffer and StartupLogs

*State.* The stream of log bytes is numbered; `ends` are its newlines, and a line is an
interval. `LogBuffer` has `lines`, how much was `written` and `taken` out as lines (the
partial line is what is between), and `mu`. `StartupLogs` adds the stream's producer
(`received`, and the `kind` of each line: of `main`, of another component, or not
recognised by `ParseLogLine`), the filtering Writer (`uiTaken`, `shown`), where the
`follower` and `main` are, and the error report (`header`, `printed`).

*Actions.* The chunks arrive with any cut. The goroutine gives each to the Writer, line
by line, then to the buffer: lock and append, evict, add, until no complete line is
left, unlock. Start ends its wait at any moment, and reads the length, then the lines,
each while it can have the mutex. What it prints between is not locked, and the
goroutine goes on: the cancellation and the sleep of 100 ms make nothing certain.

*External.* The container's log, as one stream. The daemon sends stdout and stderr in
frames that both end up in the same writers; how it cuts them is not in `src/`.

*Properties.* `BufferFaithful`, `ShownIsMain`, `ReportFaithful`, `ReportComplete`,
`ReportPrinted`. `printedAt` is history: how far the buffer was when it was copied.

### ConsoleLog

*State.* The instance (`up`), the number and length of its log, its newlines; of the
command its `--tail`, `lastOffset` and where it began; the Writer's `partial` line and
what was `printed`. A byte is the number of its log and its place in it.

*Actions.* The instance logs a byte, goes, is replaced by one with a new log; the
command reads the whole log first, or once, and polls. That the console log of one
instance only grows is assumed: what Incus does when its buffer is full is not in `src/`.

*Properties.* `FollowsLog`: until the instance is replaced, what is written is the log
from where the command began, no byte missing, twice or out of place, and only whole
lines are printed. `EventuallyWritten`: as long as it follows, all of it. Of an instance
that is replaced between two polls the command skips what is below the old length; the
two properties say nothing of it.

## Runs

| run | instance | states | shows |
|---|---|---|---|
| alone | Docker, 1 shell, 2 VMs, 3 faults | 14 thousand | recovery from every sequence of commands and failures, termination |
| race | Docker, 2 shells, 1 VM, 1 fault | 716 thousand | every race of two commands, and the invariant the proofs use |
| configures | Docker, 1 shell | | finding |
| incus_alone | Incus, 1 shell, 2 pools, 2 networks, 3 faults | 215 thousand | recovery, delivery and termination |
| incus_race | Incus, 2 shells, 2 pools, no fault | 971 thousand | every race of two commands, and the invariant the proofs use |
| incus_data | Incus, 1 shell, 2 pools | | finding |
| image | 2 tags, 2 images and a local build, both backends | 3.19 million | the choice of the image under pushes and outages, and what is shown of it |
| deploys | 2 shells, 3 commands, 1 failed call, either CPI | 949 thousand | address, credentials and environment of every deploy |
| redeploys | 1 shell, 2 commands, 1 failed call | | finding |
| manifest | 1 deploy, 1 upload, 2 OSes, 2 versions, 9 groups, 12 in pairs | 1.09 million | stemcells, releases and the consolidated manifest |
| logs | buffer of 2 lines, 5 bytes in chunks of at most 3 | 412 thousand | progress, buffer and report |
| follow | 2 logs of up to 4 bytes, every kind of `--tail` | 220 thousand | the polling of the console log |

Every property of a passing run has a mutant, an operator next to the one it mutates:
with it in that one's place, the run finds the property violated.

*Bounds.* `MaxFaults` bounds failed calls, crashes and interruptions together.
Three let one command fail, its recovery fail, and the next one fail too. Two
shells are enough for every pairwise race; two VMs let one be removed and the removal
of the other fail. Two pools are enough for a director in the pool that was not asked
for. Two tags and two images let a tag move there and back, and the other be the
default. `MaxLines`, `MaxBytes` and `MaxChunk`: five bytes are up to five lines, so a
buffer of two evicts three times, and chunks of up to three hold a rest, a line and a
beginning. `MaxCommands`: three let a deploy, another deploy and what undoes or asks
about either come in any order, in one shell or two. Addresses of two bits
with a range of two cross a carry, can be exhausted by CF and the inner director, and
`Limit` 1 is the longest range that is still proper. A token that lives for a minute, with
exchanges of up to the 30 seconds that the HTTP client allows, is used, renewed, expires on
its way without the buffer, and also with it when two exchanges are slow. Two
versions let `latest` move once during a resolution. Up to three groups of nine, in
every order, let two sources meet in one target with a third in between; one or two of
twelve, that each pair of jobs meets which must be kept apart; in the initial states of `manifest`, lists of groups and of releases meet no other process,
since none affects them, and lists of stemcells meet all. Two logs of four bytes have
four lines or one that never ends, and one replacement.
Shells are interchangeable, so `race`, `incus_race` and `deploys` use symmetry; the
liveness runs use none. Deadlock is not checked: when the bound is used up and no
shell begins a command, or the log has ended and the command too, the system rests,
as it should.

*Fairness.* `CommandsEnd` assumes that a process that is not suspended makes its
next call, which returns (weak fairness of `Command(p)`), that a prompt is
answered, and that the deadline of the readiness loop passes: the loop returns to
its head again and again, and time goes on (strong fairness of `WaitTimeout(p)`).
Neither faults, nor the user, nor the director are fair. `ReportPrinted` assumes that
the goroutine runs (weak fairness of `Follower`) and that a waiter for the mutex gets
it in the end (strong fairness of `Start`): Go's `sync.Mutex` hands itself to a waiter
that has starved for a millisecond. New log bytes are not fair, and never end.
`EventuallyWritten` assumes that the ticker comes every second and that the read it
starts returns (weak fairness of `Poll`, and of the end of a command whose instance is
gone); that the instance logs or stays is not assumed.

## Findings

Three things the repository says are not what the code does; each is a run that TLC
must find violated.

- `StartConfigures` (`configures`): start "automatically ... Configures cloud-config"
  (README.md:260-263), but one that finds the director running returns before it
  (start.go:93), also when the start that made it never got there.
- `DestroyRemovesAllData` (`incus_data`): "Destroy instant-bosh director and all data"
  (main.go:358) leaves the volumes of a director started with `--storage-pool`.
- `RedeployKeepsRouter` (`redeploys`): "No existing deployment, select a new IP"
  (cf.go:166) is also what happens when `bosh instances` fails, and the router of a
  deployed CF gets another address, and CF with it another system domain.

Divergences that the models contain, or that were met on the way, and no run is spent on.

*Start and destroy.* "Removing stopped container..." (start.go:117) also removes a running
one, which another start has made since the look at start.go:81. The vars file is created
before the instance is started (client.go:436, 465), but of two racing starts one may
start the instance the other has created and not yet prepared. Destroy reports
nothing to destroy when its looks fail (destroy.go:30-37), and, with Incus, when only
volumes are left (incus_cpi.go:133-141); an Incus destroy removes no network
(incus_cpi.go:106), against destroy.go:14-15. `--skip-update` still resolves and pins the
tag (start.go:60-77). A start that could not resolve its tag asks whether to replace the
running director, though it may run the very same image (start.go:256). The manifests that
a start compares are never equal for two digests, since the metadata that is prepended
differs. An image layer that cannot be fetched is skipped, and a whiteout is not noticed.

*Deploying.* Any error of `Get` falls back to `uaa_admin_client_secret`, and a deletion
that fails is passed over, though the flag "forces regeneration" (cf.go:122, main.go:647).
One fails also when its token expired on the way: the buffer is 30 seconds
(client.go:124), but the reply that brings the token and the request that carries it may
take 30 seconds each (client.go:103).
`createCPI` connects to the default remote and project whatever the flags of start were
("the CLI will have set up the connection", cf.go:47). `cf deploy --delete-creds` in a shell
that targets the inner director deletes the credentials of the outer CF, then is refused.
Two concurrent `bosh deploy` share a manifest file. A second `bosh print-env` in a shell that
targets the inner director fails. `bosh.go:119` says that the cloud-config has been applied also
after the warning that it was not. Ranges of more than 1000 addresses skip to their last
one. `print-env` derives the domain from the router though `--system-domain` was given.

*Stemcells and manifests.* A stemcell that is uploaded as `latest`, for want of a version
tag, is never replaced by a later `latest`. A requirement by name is checked by OS
only. Of two equal requirements both are uploaded. A transient error of bosh.io for the
first name makes the second, which does not exist, the answer. The stemcell section of a
compiled release is made to name the version of the first stemcell of the manifest,
whatever its OS, and whatever the tarball is compiled for: "ensures the stemcell version
matches the compiled releases to avoid recompilation" (cf.go:249) is true of the section
only, as the tarballs of this commit's use-compiled-releases.yml are for 1.333 and the
manifest asks for 1.484. Those of bosh.yml, bosh-lite.yml, uaa.yml and credhub.yml are
compiled for 1.484, without a section, while bosh-dev.yml asks for the latest. Two
releases of one name make the patch of the filter fail. Static addresses of groups other
than the router's are dropped, and a domain override applies to a removed group too.
`bosh deploy` requires a stemcell that it does not ensure.

*Logs.* `incus logs --follow --tail N` shows N - 1 lines of a log that ends with a newline,
and a last line without one is never printed. `incus console` is called without the
project (incus_cpi.go:158-163).

## Proofs

Every safety property that a passing run checks is proved, for any number of shells, VMs,
pools, networks, names, versions, manifests, log bytes, commands and failures. Nothing is
assumed but the named assumptions of the modules, which TLC evaluates in their runs. Most
say that constants are of their kind or different from each other. Those with content:

- `LifetimesAssumption`: a token lives longer than the 30 seconds by which the client renews
  it early. Exchanges may take any time; `CredsForced` and `LoginPassword` themselves say
  of which commands they speak.
- `RangesAssumption`: a static range is one address or two.
- `GenerationsAssumption`: the director generates credentials that it had not before.
- `DocsAssumption`: releases of the embedded manifest and of the runtime config have a URL
  and no stemcell section, those of the compiled-releases ops file have a URL, and
  `create-env` sections are bosh.yml's only.
- `GroupsAssumption`: of the groups of the embedded cf-deployment.yml, `ssh_proxy` is a job
  of `scheduler` only, each job that must not meet another is in its own group there
  (`Homes`), and only a `route_registrar` has routes. The code relies on it and checks it
  nowhere; it is so in the cf-deployment.yml of this commit. Groups, jobs and their order
  are otherwise any.
- `StemcellsAssumption`: a process deploys or uploads, and there is a first version.

*DockerLifecycleProofs, IncusLifecycleProofs* prove that `Inv` is inductive. The safety
properties are not: that a start does not fail depends on what was true when it passed
its earlier calls. `Inv` says, for each call, what is then known of the daemon:
`AloneFacts(p)` of a command that overlaps no other, whatever fails, `SmoothFacts(p)` also
that nothing external happened, and for Incus `CallFacts(p)` of any command. `DaemonInv`
relates the daemon's objects (a container holds both volumes, a running one the network,
a ready one has credentials), and `LoneInv` says that two commands in progress overlap,
which is why a step of one cannot disturb what is claimed of another (`Frame`). From `Inv`
follow `TypeCorrect`, `UndisturbedCommandsSucceed`, `StartsDeliver` and `DestroysDeliver`.
That a start that overlaps no other removes no running director as stopped is a part of
`AloneFacts`. The last part maps every step to a step or a
stutter of `DirectorPromise`, for Incus for any `Watched` pool.

`StartsWin` has an invariant of its own, since it is about all racing starts at once: while
no director runs but everything one needs is there (`Wanting`), some process has a way to
the next container (`Proceeds`): it creates it whatever it meets, finds the name free, or
the container is its own. A process that takes a container away becomes one with a way
(`OneProceeds`). For Incus this attempt failed at a step, and TLC showed why with a second
pool: the property had been stated without its exception, and checked with one pool, where
it holds. It is now stated with it, and the run has two pools.

*ImageUpgradeProofs* strengthens the five properties to `IInv`: a resolved image is
pinned in the client (`Pinned`), an instance made by digest runs it (`MadeAsPinned`),
from the comparison on the container is known to differ (`Differs`), and with Docker
the replacement is local from the prompt on (`ReplacementReady`). For what the prompt
shows, `ReferenceRead`, `NotYetCompared`, `ComparedOld` and `ComparedNew` say which
manifest has been read of which image at each step.

*StartupLogsProofs* has one induction over every log, cut and buffer size. `Progress`
says which of the two writers has what; `BufferInv` is `BufferFaithful` extended to the
moment between shift and append, when there is room for one more line; `HeaderInv` that
the buffer only gets shorter in that moment. The lemmas are about lines: what is taken
from the head of the rest is one (`NextLine`), what arrives does not change those that
were there (`LineStable`), shift and append keep the buffer's form (`ShiftKeeps`,
`AppendKeeps`).

*FoldLemmas* is what the other three need to reason about recursive functions, `FoldLeft`
and `FlattenSeq`. The induction theorems of the library take an operator, which the provers
cannot be given; induction here is over sets of natural numbers (`SetInduction`), from
the least member of the complement. With it a recursive function is shown to exist
(`Recursion`), and a fold to have a value for every prefix of its sequence (`FoldPrefixes`).

*DeploymentsProofs* first proves what `SelectAvailableIP` computes, for any width and base:
`ValueOf` orders addresses, `IncrementIP` adds one across any carry, the loop of
`parseIPRange` lists the range, and the first that is free is the lowest
(`SelectionIsLowestFree`). If one is free, one is found (`SelectionFindsFree`): whatever is
in use if the range is no longer than the limit; of a longer range, whose list is cut, as
long as no more than `Limit` + 1 addresses are in use, since one more is listed (`TwoAlike`).
Then `IInv`, in three layers. `ProcessInv`: what a command carries in its process, whatever
others do; `DeploysWithShell` and `DryRunsHarmless` follow from it. `CredsKept` and
`PlacesKept`: a running CF has the stored credentials, unless they were deleted since; and
the deployments have different addresses in the range. Of a token nothing has to be kept:
one that is in time is accepted, by the buffer alone (`SentInTime`). `AloneInv`: what a command relies on
while it is alone, at each step (`ForcesCreds`, `FindsPassword`, `KeepsRouter`,
`Acceptable`, `DeploysDirector`); from it follow `OldCredsGone`, `RunningPassword`,
`RouterKept` and `DeploysUndisturbed`.

*ManifestPipelineProofs* first proves what operations do to manifests, by induction on the
operations: a fold over sets of manifests keeps what each operation keeps. Whatever
compiled releases are put in, the pin that comes last leaves no section for another version
(`CFPinned`); each ops file of `bosh deploy` finds the jobs, releases and sections that it
needs after those before it (`Shaped`), so that the result exists (`BOSHManifests` is not
empty). `Text` are the strings: no prover knows that a literal is one. Then `IInv`:
`ResolvedRight`, at each step of a resolution which image belongs to which version;
`Ensuring`, of the requirements of a deploy each is met, still to be looked at, or the one
about to be uploaded; `Coherent`, of the manifest that is on its way to the director.
`VersionsTrue` and `Deployable` follow. `NothingMissing` relates what was ensured to what is
handed over later, and needs `RequiredInv` besides: what a deployer ensured is nothing, or
the stemcells of the embedded manifest, and these are the ones that its own manifest has at
every later step; it is inductive given `IInv`.

The last part is about the consolidation. Merging is a fold over the jobs that are sent to
a target: a job that was added stays, once, and keeps the routes it had (`AddJobKeeps`,
`MergedJobs`), so that a merged group is what `IsMerged` says; a mapping that passes
validation gives every target one group (`BuiltGroups`), and an alias of a source is
rewritten to the target that its job was sent to (`TargetsRewritten`). A second invariant,
`GroupsInv`, says that from the consolidation on the groups and aliases of a manifest are
the embedded ones, consolidated: filtering, which comes behind it, touches neither. It is
inductive given `IInv`, and `EveryJobRuns` and `AliasesReachJobs` follow from both.

*ConsoleLogProofs*: what is printed and what is in the Writer's buffer are slices of the
log that meet at a place behind which there is no newline (`WriterAt`). One byte keeps that
(`CutKeeps`), hence a whole read does (`WriteKeeps`); the instance logs behind what was read
(`WriterStable`). The concatenation of all lines that `FollowsLog` speaks of is the one that
`FlattenSeq` computes (`FlattenAppend`).

Model-checked only:

- `CommandsEnd`, `ReportPrinted` and `EventuallyWritten`: liveness under fairness, and
  ENABLED, are outside the prover.
- That the bounds of the runs do not hide a case is what the proofs add; what the runs add
  is that the invariants are not vacuous. `Inv` is checked by `race` and `incus_race`; the
  other inductive invariants were checked by TLC on the instances of `deploys` and
  `manifest` before they were proved, and live with their proofs.

## Not modelled, and the plan

No safety property is left to prove; the three liveness properties stay with TLC. What is
left is to model more: the hazards of `PROJECT.json` that have a note and no property.

Not modelled, because it is printing, data or a single call without state: the formatting
of `env`, `print-env` and `creds`; the tags that are shown beside a digest
(`FindTagsForDigest`); `logs --list-components`; the contents of a stemcell's tarball; the
embedded manifests, but for the parts that the pipeline tells apart; operations of the
ops files on properties of a job; the JSON and YAML of the bosh CLI's output; help,
terminals and the configuration of the logger in `main.go`. `LogBuffer.Clear`,
`StreamMainComponentLogs` and the tail of the Incus client's `GetContainerLogs` have no
caller. Certificates and the key file of a connection, and Incus profiles, are not
told apart from the connection and the instance. One director at a time: a Docker and
an Incus director on one machine, which `detect` would choose from, are not composed.
The fakes under `*fakes/` are generated, for the tests.

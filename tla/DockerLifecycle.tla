-------------------------- MODULE DockerLifecycle --------------------------
(***************************************************************************)
(* The commands `ibosh docker start`, `stop` and `destroy` against one     *)
(* Docker daemon.                                                          *)
(*                                                                         *)
(* Every object ibosh manages has a fixed name, every command is a process *)
(* of its own, and nothing locks: a command is a sequence of API calls,    *)
(* each decided by what an earlier call returned.  One action is one call. *)
(* pc[p] names the call process p makes next, or how its last command      *)
(* ended.  Any call may fail, the user may interrupt a command, and the    *)
(* director may crash, create VMs or delete them between any two calls.    *)
(***************************************************************************)
EXTENDS Naturals, FiniteSets

CONSTANTS
  Procs,       \* the shells from which ibosh is run
  VMs,         \* the names of the containers the director may create
  Commands,    \* the commands the user runs
  MaxFaults,   \* how many calls fail, directors crash, commands are interrupted (a bound)
  NoProc       \* the owner of a container that does not exist

ASSUME ProcsAssumption == NoProc \notin Procs
ASSUME CommandsAssumption == Commands \subseteq {"start", "stop", "destroy"}
ASSUME MaxFaultsAssumption == MaxFaults \in Nat

\* The two named volumes, VolumeStore and VolumeData.
Volumes == {"store", "data"}

\* What the director records in the store volume: the credentials it generates
\* when it boots, the cloud-config and the stemcells start uploads.
Content == {"creds", "cloudConfig", "stemcell"}

VARIABLES
  director,    \* the container named instant-bosh
  owner,       \* the process whose ContainerCreate made that container: its ID
  ready,       \* does the director answer GET /info with 200?
  volumes,     \* the named volumes that exist
  content,     \* what the store volume holds
  network,     \* does the network instant-bosh exist?
  vms,         \* the other containers on that network
  pc,          \* the call each process makes next
  missing,     \* the volumes EnsurePrerequisites found missing
  targets,     \* the VMs Destroy listed and has not removed
  authentic,   \* processes holding credentials of the present store
  overlapped,  \* processes whose last command overlapped another one
  faulted,     \* processes whose last command something external disturbed
  faults       \* failures so far

daemonVars == <<director, owner, ready, volumes, content, network, vms>>
localVars == <<missing, targets, authentic>>
ghostVars == <<overlapped, faulted, faults>>
vars == <<daemonVars, pc, localVars, ghostVars>>

DirectorStates == {"absent", "created", "running", "exited"}

StartCalls ==
  {"isRunning", "checkUpgrade", "upgradeRemove", "upgradePoll", "upgradeVerify",
   "pullImage", "inspectStore", "inspectData", "createStore", "createData",
   "inspectNetwork", "createNetwork", "exists", "removeStopped", "create",
   "copyVars", "startContainer", "waitRunning", "waitInfo", "getConfig",
   "cloudConfig", "uploadStemcells"}
StopCalls == {"stopIsRunning", "stopContainer"}
WipeCalls == {"removeStore", "removeData", "removeNetwork"}
DestroyCalls ==
  {"confirm", "findContainer", "findStore", "findData", "findNetwork",
   "listVMs", "removeVMs", "removeDirector"} \cup WipeCalls
Calls == StartCalls \cup StopCalls \cup DestroyCalls

\* started: everything was done.  already: "instant-bosh is already running".
\* stopped, destroyed, nothing ("No instant-bosh resources found to destroy") and
\* cancelled are the other ways to exit with status 0.
Outcomes == {"idle", "started", "already", "stopped", "destroyed", "nothing",
             "cancelled", "failed", "interrupted"}

Active(p) == pc[p] \in Calls
Goto(p, label) == pc' = [pc EXCEPT ![p] = label]
Step(p, from, to) == pc[p] = from /\ Goto(p, to)

-----------------------------------------------------------------------------
(***************************************************************************)
(* The Docker daemon, as the calls in client.go use it.                    *)
(***************************************************************************)

\* ContainerRemove with Force: it kills what runs, and a missing container counts
\* as removed.  The volumes stay.
ForceRemove ==
  /\ director' = "absent"
  /\ owner' = NoProc
  /\ ready' = FALSE
  /\ UNCHANGED <<volumes, content, network, vms>>

\* VolumeRemove, force or not, is refused while a container refers to the volume.
VolumeInUse == director # "absent"

\* NetworkRemove is refused while a running container is attached.
NetworkInUse == director = "running" \/ vms # {}

\* The container was created with AutoRemove: once it has exited the daemon
\* removes it, a little later.
Reap ==
  /\ director = "exited"
  /\ ForceRemove
  /\ UNCHANGED <<pc, localVars, ghostVars>>

-----------------------------------------------------------------------------
(***************************************************************************)
(* The director, and the failures a command may meet.                      *)
(***************************************************************************)

\* The director boots on its store, generates its credentials the first time, and
\* answers GET /info.
Boot ==
  /\ director = "running"
  /\ ~ready
  /\ ready' = TRUE
  /\ content' = content \cup {"creds"}
  /\ UNCHANGED <<director, owner, volumes, network, vms, pc, localVars, ghostVars>>

\* The director creates a VM: a deploy, or its resurrector.  A destroy in progress
\* is disturbed by it.
CreateVM(v) ==
  /\ ready
  /\ v \notin vms
  /\ vms' = vms \cup {v}
  /\ faulted' = faulted \cup {p \in Procs : pc[p] \in DestroyCalls}
  /\ UNCHANGED <<director, owner, ready, volumes, content, network, pc, localVars,
                 overlapped, faults>>

DeleteVM(v) ==
  /\ ready
  /\ v \in vms
  /\ vms' = vms \ {v}
  /\ UNCHANGED <<director, owner, ready, volumes, content, network, pc, localVars,
                 ghostVars>>

Crash ==
  /\ director = "running"
  /\ faults < MaxFaults
  /\ faults' = faults + 1
  /\ director' = "exited"
  /\ ready' = FALSE
  /\ faulted' = faulted \cup {p \in Procs : Active(p)}
  /\ UNCHANGED <<owner, volumes, content, network, vms, pc, localVars, overlapped>>

\* Mutant: start carries on without its cloud-config.
OnErrorLenient(label) ==
  CASE label = "cloudConfig" -> "uploadStemcells"
    [] label = "uploadStemcells" -> "started"
    [] OTHER -> "failed"

\* Where a command goes when a call returns an error: most abort it, the looks of
\* destroy count as finding nothing (destroy.go), a failed listing removes no VM,
\* and stemcells that cannot be uploaded only earn a warning.
OnError(label) ==
  CASE label = "findContainer" -> "findStore"
    [] label \in {"findStore", "findData", "findNetwork"} -> "nothing"
    [] label = "listVMs" -> "removeDirector"
    [] label = "removeVMs" -> "removeVMs"
    [] label = "uploadStemcells" -> "started"
    [] OTHER -> "failed"

\* A call of p fails without having had an effect.  A failed VM removal is passed
\* over (docker_cpi.go:89).
Fault(p) ==
  /\ pc[p] \in Calls \ {"confirm"}
  /\ faults < MaxFaults
  /\ faults' = faults + 1
  /\ faulted' = faulted \cup {p}
  /\ Goto(p, OnError(pc[p]))
  /\ IF pc[p] = "removeVMs"
     THEN \E v \in targets[p] : targets' = [targets EXCEPT ![p] = @ \ {v}]
     ELSE UNCHANGED targets
  /\ UNCHANGED <<daemonVars, missing, authentic, overlapped>>

\* A forced removal that meets the daemon's own removal of the exited container is
\* refused ("removal already in progress"), which is not the NotFound that
\* RemoveContainer forgives.
RemovalInProgress(p) ==
  /\ pc[p] \in {"upgradeRemove", "removeStopped", "removeDirector"}
  /\ director = "exited"
  /\ Goto(p, "failed")
  /\ faulted' = faulted \cup {p}
  /\ UNCHANGED <<daemonVars, localVars, overlapped, faults>>

\* The user interrupts a command.  Nothing is undone.
Interrupt(p) ==
  /\ Active(p)
  /\ faults < MaxFaults
  /\ faults' = faults + 1
  /\ Goto(p, "interrupted")
  /\ UNCHANGED <<daemonVars, localVars, overlapped, faulted>>

-----------------------------------------------------------------------------
(***************************************************************************)
(* Running a command.                                                      *)
(***************************************************************************)

FirstCall(c) ==
  CASE c = "start" -> "isRunning"
    [] c = "stop" -> "stopIsRunning"
    [] c = "destroy" -> "confirm"

\* The new command overlaps every one that is in progress, and they overlap it.
Begin(p) ==
  LET others == {q \in Procs \ {p} : Active(q)} IN
  /\ ~Active(p)
  /\ \E c \in Commands : Goto(p, FirstCall(c))
  /\ missing' = [missing EXCEPT ![p] = {}]
  /\ targets' = [targets EXCEPT ![p] = {}]
  /\ authentic' = authentic \ {p}
  /\ overlapped' = IF others = {} THEN overlapped \ {p}
                   ELSE overlapped \cup others \cup {p}
  /\ faulted' = faulted \ {p}
  /\ UNCHANGED <<daemonVars, faults>>

Quiet == UNCHANGED <<daemonVars, localVars, ghostVars>>

-----------------------------------------------------------------------------
(***************************************************************************)
(* ibosh docker start                                                      *)
(***************************************************************************)

IsRunning(p) ==
  /\ Step(p, "isRunning", IF director = "running" THEN "checkUpgrade" ELSE "pullImage")
  /\ Quiet

\* Keep the running container, or, once the user has confirmed, replace it.  How
\* images are compared is not modelled here: either may come out.
CheckUpgrade(p) ==
  /\ \/ Step(p, "checkUpgrade", "already")
     \/ Step(p, "checkUpgrade", "upgradeRemove")
  /\ Quiet

UpgradeRemove(p) ==
  /\ Step(p, "upgradeRemove", "upgradePoll")
  /\ ForceRemove
  /\ UNCHANGED <<localVars, ghostVars>>

\* Leaving the poll loop: at once when the container is gone, after thirty seconds
\* in any case.
UpgradePoll(p) ==
  /\ Step(p, "upgradePoll", "upgradeVerify")
  /\ Quiet

UpgradeVerify(p) ==
  /\ Step(p, "upgradeVerify", IF director = "absent" THEN "pullImage" ELSE "failed")
  /\ Quiet

PullImage(p) ==
  /\ Step(p, "pullImage", "inspectStore")
  /\ Quiet

\* EnsurePrerequisites looks at both volumes before it creates either.
InspectVolume(p, v) ==
  /\ IF v = "store" THEN Step(p, "inspectStore", "inspectData")
                    ELSE Step(p, "inspectData", "createStore")
  /\ missing' = [missing EXCEPT ![p] = IF v \in volumes THEN @ ELSE @ \cup {v}]
  /\ UNCHANGED <<daemonVars, targets, authentic, ghostVars>>

\* VolumeCreate succeeds on a volume that exists, and leaves it as it is.
CreateVolume(p, v) ==
  /\ IF v = "store" THEN Step(p, "createStore", "createData")
                    ELSE Step(p, "createData", "inspectNetwork")
  /\ volumes' = IF v \in missing[p] THEN volumes \cup {v} ELSE volumes
  /\ UNCHANGED <<director, owner, ready, content, network, vms, localVars, ghostVars>>

InspectNetwork(p) ==
  /\ Step(p, "inspectNetwork", IF network THEN "exists" ELSE "createNetwork")
  /\ Quiet

\* A second network of the same name is refused.
CreateNetwork(p) ==
  /\ Step(p, "createNetwork", IF network THEN "failed" ELSE "exists")
  /\ network' = TRUE
  /\ UNCHANGED <<director, owner, ready, volumes, content, vms, localVars, ghostVars>>

\* Mutant: the listing shows running containers only.
ExistsIfRunning(p) ==
  /\ Step(p, "exists", IF director = "running" THEN "removeStopped" ELSE "create")
  /\ Quiet

Exists(p) ==
  /\ Step(p, "exists", IF director = "absent" THEN "create" ELSE "removeStopped")
  /\ Quiet

\* Mutant: the container is removed together with what it stored.
RemoveStoppedWiping(p) ==
  /\ Step(p, "removeStopped", "create")
  /\ director' = "absent"
  /\ owner' = NoProc
  /\ ready' = FALSE
  /\ content' = {}
  /\ UNCHANGED <<volumes, network, vms, localVars, ghostVars>>

RemoveStopped(p) ==
  /\ Step(p, "removeStopped", "create")
  /\ ForceRemove
  /\ UNCHANGED <<localVars, ghostVars>>

\* The name is unique.  Binding a named volume creates it when it is missing.
ContainerCreate(p) ==
  \/ /\ director = "absent"
     /\ Step(p, "create", "copyVars")
     /\ director' = "created"
     /\ owner' = p
     /\ volumes' = Volumes
     /\ UNCHANGED <<ready, content, network, vms, localVars, ghostVars>>
  \/ /\ director # "absent"
     /\ Step(p, "create", "failed")
     /\ Quiet

\* Mutant: when the copy fails start cleans up, by name.
CopyVarsCleaning(p) ==
  \/ /\ owner = p
     /\ Step(p, "copyVars", "startContainer")
     /\ Quiet
  \/ /\ owner # p
     /\ Step(p, "copyVars", "failed")
     /\ ForceRemove
     /\ UNCHANGED <<localVars, ghostVars>>

\* The container is addressed by the ID ContainerCreate returned.
CopyVars(p) ==
  /\ Step(p, "copyVars", IF owner = p THEN "startContainer" ELSE "failed")
  /\ Quiet

\* Without its network the container cannot start; being AutoRemove, it may then
\* be removed.
ContainerStart(p) ==
  \/ /\ owner = p
     /\ director = "created"
     /\ network
     /\ Step(p, "startContainer", "waitRunning")
     /\ director' = "running"
     /\ UNCHANGED <<owner, ready, volumes, content, network, vms, localVars, ghostVars>>
  \/ /\ owner # p \/ director # "created" \/ ~network
     /\ Step(p, "startContainer", "failed")
     /\ \/ UNCHANGED daemonVars
        \/ owner = p /\ director = "created" /\ ForceRemove
     /\ UNCHANGED <<localVars, ghostVars>>

\* WaitForReady looks by name: any running container with that name will do.
WaitRunning(p) ==
  /\ Step(p, "waitRunning", IF director = "running" THEN "waitInfo" ELSE "failed")
  /\ Quiet

WaitInfo(p) ==
  /\ Step(p, "waitInfo", IF ready THEN "getConfig" ELSE "waitRunning")
  /\ Quiet

\* Mutant: the deadline starts anew at every turn of the loop.
WaitTimeoutRestarts(p) ==
  /\ Step(p, "waitRunning", "waitRunning")
  /\ faulted' = faulted \cup {p}
  /\ UNCHANGED <<daemonVars, localVars, overlapped, faults>>

\* Five minutes have passed at the head of the loop.  The container is left as it is.
WaitTimeout(p) ==
  /\ Step(p, "waitRunning", "failed")
  /\ faulted' = faulted \cup {p}
  /\ UNCHANGED <<daemonVars, localVars, overlapped, faults>>

\* cat in the container.  Its exit code is not looked at: a file that is missing is empty.
ExecCommand(file) == director = "running" /\ file \in content

\* The credentials are read, and must be there.
GetDirectorConfig(p) ==
  LET found == ExecCommand("creds") IN
  /\ Step(p, "getConfig", IF found THEN "cloudConfig" ELSE "failed")
  /\ authentic' = IF found THEN authentic \cup {p} ELSE authentic
  /\ UNCHANGED <<daemonVars, missing, targets, ghostVars>>

UpdateCloudConfig(p) ==
  LET accepted == ready /\ p \in authentic IN
  /\ Step(p, "cloudConfig", IF accepted THEN "uploadStemcells" ELSE "failed")
  /\ content' = IF accepted THEN content \cup {"cloudConfig"} ELSE content
  /\ UNCHANGED <<director, owner, ready, volumes, network, vms, localVars, ghostVars>>

\* Skipped on request; a failure is only a warning.
UploadStemcells(p) ==
  /\ Step(p, "uploadStemcells", "started")
  /\ \/ UNCHANGED content
     \/ ready /\ content' = content \cup {"stemcell"}
  /\ UNCHANGED <<director, owner, ready, volumes, network, vms, localVars, ghostVars>>

-----------------------------------------------------------------------------
(***************************************************************************)
(* ibosh docker stop                                                       *)
(***************************************************************************)

StopIsRunning(p) ==
  /\ Step(p, "stopIsRunning", IF director = "running" THEN "stopContainer" ELSE "stopped")
  /\ Quiet

\* A container that does not run is stopped already; one that is gone is an error,
\* which StopContainer does not forgive.
StopContainer(p) ==
  /\ Step(p, "stopContainer", IF director = "absent" THEN "failed" ELSE "stopped")
  /\ director' = IF director = "running" THEN "exited" ELSE director
  /\ ready' = FALSE
  /\ UNCHANGED <<owner, volumes, content, network, vms, localVars, ghostVars>>

-----------------------------------------------------------------------------
(***************************************************************************)
(* ibosh docker destroy                                                    *)
(***************************************************************************)

Confirm(p) ==
  /\ \/ Step(p, "confirm", "cancelled")
     \/ Step(p, "confirm", "findContainer")
  /\ Quiet

\* Once the container is found the looks that follow decide nothing: they are left
\* out, and the next call is the listing.
FindContainer(p) ==
  /\ Step(p, "findContainer", IF director = "absent" THEN "findStore" ELSE "listVMs")
  /\ Quiet

FindStore(p) ==
  /\ Step(p, "findStore", IF "store" \in volumes THEN "listVMs" ELSE "findData")
  /\ Quiet

FindData(p) ==
  /\ Step(p, "findData", IF "data" \in volumes THEN "listVMs" ELSE "findNetwork")
  /\ Quiet

FindNetwork(p) ==
  /\ Step(p, "findNetwork", IF network THEN "listVMs" ELSE "nothing")
  /\ Quiet

\* Mutant: what the listing returned is dropped.
ListVMsForgotten(p) ==
  /\ Step(p, "listVMs", IF network THEN "removeVMs" ELSE "removeDirector")
  /\ Quiet

\* Inspecting a network that is not there is an error, and then no VM is removed.
ListVMs(p) ==
  /\ Step(p, "listVMs", IF network THEN "removeVMs" ELSE "removeDirector")
  /\ targets' = [targets EXCEPT ![p] = vms]
  /\ UNCHANGED <<daemonVars, missing, authentic, ghostVars>>

RemoveVMs(p) ==
  \/ \E v \in targets[p] :
       /\ Step(p, "removeVMs", "removeVMs")
       /\ vms' = vms \ {v}
       /\ targets' = [targets EXCEPT ![p] = @ \ {v}]
       /\ UNCHANGED <<director, owner, ready, volumes, content, network, missing,
                      authentic, ghostVars>>
  \/ /\ targets[p] = {}
     /\ Step(p, "removeVMs", "removeDirector")
     /\ Quiet

RemoveDirector(p) ==
  /\ Step(p, "removeDirector", "removeStore")
  /\ ForceRemove
  /\ UNCHANGED <<localVars, ghostVars>>

\* With the store goes all it held: credentials read from it are worth nothing.
RemoveStore(p) ==
  /\ Step(p, "removeStore", IF VolumeInUse THEN "failed" ELSE "removeData")
  /\ IF VolumeInUse
     THEN UNCHANGED <<volumes, content, authentic>>
     ELSE /\ volumes' = volumes \ {"store"}
          /\ content' = {}
          /\ authentic' = {}
  /\ UNCHANGED <<director, owner, ready, network, vms, missing, targets, ghostVars>>

RemoveData(p) ==
  /\ Step(p, "removeData", IF VolumeInUse THEN "failed" ELSE "removeNetwork")
  /\ volumes' = IF VolumeInUse THEN volumes ELSE volumes \ {"data"}
  /\ UNCHANGED <<director, owner, ready, content, network, vms, localVars, ghostVars>>

\* Mutant: a network that cannot be removed is passed over, as a VM is.
RemoveNetworkForgiving(p) ==
  /\ Step(p, "removeNetwork", "destroyed")
  /\ network' = (network /\ NetworkInUse)
  /\ UNCHANGED <<director, owner, ready, volumes, content, vms, localVars, ghostVars>>

RemoveNetwork(p) ==
  /\ Step(p, "removeNetwork", IF NetworkInUse THEN "failed" ELSE "destroyed")
  /\ network' = (network /\ NetworkInUse)
  /\ UNCHANGED <<director, owner, ready, volumes, content, vms, localVars, ghostVars>>

-----------------------------------------------------------------------------

Init ==
  /\ director = "absent"
  /\ owner = NoProc
  /\ ready = FALSE
  /\ volumes = {}
  /\ content = {}
  /\ network = FALSE
  /\ vms = {}
  /\ pc = [p \in Procs |-> "idle"]
  /\ missing = [p \in Procs |-> {}]
  /\ targets = [p \in Procs |-> {}]
  /\ authentic = {}
  /\ overlapped = {}
  /\ faulted = {}
  /\ faults = 0

StartAction(p) ==
  \/ IsRunning(p) \/ CheckUpgrade(p) \/ UpgradeRemove(p) \/ UpgradePoll(p)
  \/ UpgradeVerify(p) \/ PullImage(p)
  \/ \E v \in Volumes : InspectVolume(p, v) \/ CreateVolume(p, v)
  \/ InspectNetwork(p) \/ CreateNetwork(p) \/ Exists(p) \/ RemoveStopped(p)
  \/ ContainerCreate(p) \/ CopyVars(p) \/ ContainerStart(p)
  \/ WaitRunning(p) \/ WaitInfo(p)
  \/ GetDirectorConfig(p) \/ UpdateCloudConfig(p) \/ UploadStemcells(p)

StopAction(p) == StopIsRunning(p) \/ StopContainer(p)

DestroyAction(p) ==
  \/ Confirm(p) \/ FindContainer(p) \/ FindStore(p) \/ FindData(p) \/ FindNetwork(p)
  \/ ListVMs(p) \/ RemoveVMs(p) \/ RemoveDirector(p)
  \/ RemoveStore(p) \/ RemoveData(p) \/ RemoveNetwork(p)

Command(p) == StartAction(p) \/ StopAction(p) \/ DestroyAction(p)

Trouble(p) == Fault(p) \/ RemovalInProgress(p) \/ WaitTimeout(p) \/ Interrupt(p)

Environment ==
  \/ Reap \/ Boot \/ Crash
  \/ \E v \in VMs : CreateVM(v) \/ DeleteVM(v)

Next ==
  \/ \E p \in Procs : Begin(p) \/ Command(p) \/ Trouble(p)
  \/ Environment

Spec == Init /\ [][Next]_vars

\* A command that is not suspended makes its next call.  The clock runs, so a
\* readiness loop that keeps coming back to its head finds the deadline past.  The
\* user, faults and the director's own behaviour are not fair.
Fairness ==
  \A p \in Procs : WF_vars(Command(p)) /\ SF_vars(WaitTimeout(p))

FairSpec == Spec /\ Fairness

-----------------------------------------------------------------------------
(***************************************************************************)
(* Properties.                                                             *)
(***************************************************************************)

TypeOK ==
  /\ director \in DirectorStates
  /\ owner \in Procs \cup {NoProc}
  /\ ready \in BOOLEAN
  /\ volumes \subseteq Volumes
  /\ content \subseteq Content
  /\ network \in BOOLEAN
  /\ vms \subseteq VMs
  /\ pc \in [Procs -> Calls \cup Outcomes]
  /\ missing \in [Procs -> SUBSET Volumes]
  /\ targets \in [Procs -> SUBSET VMs]
  /\ authentic \subseteq Procs
  /\ overlapped \subseteq Procs
  /\ faulted \subseteq Procs
  /\ faults \in 0 .. MaxFaults

\* A command that no other command overlapped, and that met no failure, is said to
\* be undisturbed.
Undisturbed(p) == p \notin overlapped /\ p \notin faulted

\* Whatever earlier commands left behind when they failed, were interrupted or
\* raced each other, an undisturbed command succeeds: start gets past a container
\* that was created and never started, destroy past resources that are half gone.
UndisturbedSucceeds ==
  \A p \in Procs : pc[p] = "failed" => ~Undisturbed(p)

Finishes(p, outcome) == Active(p) /\ pc'[p] = outcome

\* A start that runs to its end and overlaps no other command leaves the director's
\* credentials and cloud-config in its store, both volumes and the network, even when
\* calls fail on the way: no failure that matters is forgiven.  Unless something
\* external failed, the director is up.
StartDeliversAt(p) ==
  Finishes(p, "started")
    => /\ {"creds", "cloudConfig"} \subseteq content'
       /\ volumes' = Volumes
       /\ network'
       /\ p \notin faulted' => director' = "running" /\ ready'

StartDelivers == [][\A p \in Procs \ overlapped : StartDeliversAt(p)]_vars

NothingLeft == director = "absent" /\ volumes = {} /\ vms = {} /\ ~network

\* A destroy that no other command overlaps and that reports "Destroy complete"
\* has left nothing, also when removing a VM failed and was passed over, when the
\* VMs could not be listed, or when the director made a VM after the listing: the
\* network, removed last, cannot go before they do.  When it reports that there is
\* nothing to destroy, and no call of it failed, there is nothing.
DestroyDeliversAt(p) ==
  (Finishes(p, "destroyed") \/ (Finishes(p, "nothing") /\ p \notin faulted'))
    => NothingLeft'

DestroyDelivers == [][\A p \in Procs \ overlapped : DestroyDeliversAt(p)]_vars

\* The removal of the store under a live director, the loss of what it holds
\* outside a confirmed destroy, or a start that resets it, would all break this:
\* the commands keep the promise to the user, however many run at once.
Condemned == \E p \in Procs : pc[p] \in DestroyCalls \ {"confirm"}

Promise == INSTANCE DirectorPromise
             WITH up <- (director = "running"), kept <- content, condemned <- Condemned

PromiseKept == Promise!PromiseSpec

\* Every command ends, whatever failed before it: the readiness loop and the upgrade's
\* poll have deadlines.
CommandsEnd == \A p \in Procs : Active(p) ~> ~Active(p)

\* Starts that remove each other's container, refuse each other's network, or that a
\* destroy overtakes, do not all lose: when every command has ended, none met a failure,
\* and each shell's last one was a start or did not get through, a director runs.
SomeStartWins ==
  /\ faults = 0 /\ faulted = {}
  /\ volumes = {"store", "data"} /\ network
  /\ \A p \in Procs : pc[p] \in {"idle", "started", "already", "failed"}
  /\ \E p \in Procs : pc[p] # "idle"
  => director = "running"

\* README.md:260-263: start "automatically configures cloud-config".  A start that
\* ends with status 0, undisturbed, leaves the director with its cloud-config.
StartConfigures ==
  [][\A p \in Procs :
       (Finishes(p, "started") \/ Finishes(p, "already")) /\ Undisturbed(p)
         => "cloudConfig" \in content']_vars

-----------------------------------------------------------------------------
(***************************************************************************)
(* Why they hold: what is known at each call of a command that runs alone, *)
(* and what more is known when nothing external disturbed it.              *)
(***************************************************************************)

DaemonInv ==
  /\ owner = NoProc <=> director = "absent"
  /\ director # "absent" => volumes = Volumes
  /\ director = "running" => network
  /\ ready => director = "running" /\ "creds" \in content
  /\ vms # {} => network

\* Commands in progress that do not overlap are one.
LoneInv ==
  \A p, q \in Procs : Active(p) /\ Active(q) /\ p \notin overlapped => p = q

AloneFacts(p) ==
  /\ pc[p] \in {"pullImage", "inspectStore", "inspectData", "createStore",
                "createData", "inspectNetwork", "createNetwork", "exists",
                "removeStopped"} => director # "running"
  /\ pc[p] \in {"upgradePoll", "upgradeVerify", "create"} \cup WipeCalls
       => director = "absent"
  /\ pc[p] = "createNetwork" => ~network
  /\ pc[p] \in {"exists", "removeStopped", "create", "copyVars", "startContainer",
                "waitRunning", "waitInfo", "getConfig", "cloudConfig",
                "uploadStemcells"} => network
  /\ pc[p] \in {"copyVars", "startContainer"} => director = "created" /\ owner = p
  /\ pc[p] \in {"waitRunning", "waitInfo", "getConfig", "cloudConfig",
                "uploadStemcells"} => volumes = Volumes
  /\ pc[p] = "cloudConfig" => p \in authentic
  /\ pc[p] \in {"cloudConfig", "uploadStemcells"} => "creds" \in content
  /\ pc[p] = "uploadStemcells" => "cloudConfig" \in content
  /\ pc[p] \in {"removeData", "removeNetwork"} => "store" \notin volumes
  /\ pc[p] = "removeNetwork" => "data" \notin volumes

SmoothFacts(p) ==
  /\ pc[p] # "failed"
  /\ pc[p] \in {"waitRunning", "waitInfo", "stopContainer"} => director = "running"
  /\ pc[p] \in {"getConfig", "cloudConfig", "uploadStemcells"} => ready
  /\ pc[p] \in {"findStore", "findData", "findNetwork"} => director = "absent"
  /\ pc[p] \in {"findData", "findNetwork"} => "store" \notin volumes
  /\ pc[p] = "findNetwork" => "data" \notin volumes
  /\ pc[p] = "removeVMs" => vms \subseteq targets[p]
  /\ pc[p] \in {"removeDirector"} \cup WipeCalls => vms = {}

Inv ==
  /\ TypeOK
  /\ DaemonInv
  /\ LoneInv
  /\ \A p \in Procs \ overlapped : AloneFacts(p)
  /\ \A p \in Procs : Undisturbed(p) => SmoothFacts(p)
=============================================================================

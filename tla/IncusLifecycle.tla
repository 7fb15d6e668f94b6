--------------------------- MODULE IncusLifecycle ---------------------------
(***************************************************************************)
(* The commands `ibosh incus start`, `stop` and `destroy` against one      *)
(* project of one Incus server.                                            *)
(*                                                                         *)
(* As with Docker (DockerLifecycle), a command is a sequence of API calls  *)
(* and nothing locks.  What differs: a stopped instance stays; everything, *)
(* also what a start has just created, is addressed by name; removing an   *)
(* instance takes three calls; volumes live in the storage pool and the    *)
(* network that start was given, while destroy uses the default pool and   *)
(* removes no network.                                                     *)
(***************************************************************************)
EXTENDS Naturals

CONSTANTS
  Procs,           \* the shells from which ibosh is run
  Pools,           \* the storage pools start may be given
  DefaultPool,     \* "local"
  Networks,        \* the networks start may be given
  DefaultNetwork,  \* "ibosh"
  Commands,        \* the commands the user runs
  Watched,         \* the pool whose store PromiseKept is about: any
  MaxFaults,       \* how many calls fail, instances crash, commands are interrupted (a bound)
  NoPool           \* no credentials

ASSUME PlacesAssumption ==
  /\ DefaultPool \in Pools
  /\ Watched \in Pools
  /\ DefaultNetwork \in Networks
  /\ NoPool \notin Pools
ASSUME CommandsAssumption == Commands \subseteq {"start", "stop", "destroy"}
ASSUME MaxFaultsAssumption == MaxFaults \in Nat

VolumeNames == {"store", "data"}

\* What the director records in the store: its credentials and the cloud-config.
Content == {"creds", "cloudConfig"}

VARIABLES
  instance,     \* the instance named instant-bosh
  home,         \* the pool its volumes are attached from
  provisioned,  \* does it hold the vars file its entrypoint reads?
  ready,        \* does the director answer GET /info with 200?
  volumes,      \* the custom volumes, as pairs of a pool and a name
  content,      \* what the store volume of each pool holds
  networks,     \* the networks that exist
  pc,           \* the call each process makes next, or how its command ended
  pool,         \* the pool its start was given
  net,          \* the network its start was given
  after,        \* where EnsureVolumes and RemoveContainer return to
  authentic,    \* the pool in whose store the credentials a process holds are
  overlapped,   \* processes whose last command overlapped another one
  faulted,      \* processes whose last command something external disturbed
  faults        \* failures so far

serverVars == <<instance, home, provisioned, ready, volumes, content, networks>>
localVars == <<pool, net, after, authentic>>
ghostVars == <<overlapped, faulted, faults>>
vars == <<serverVars, pc, localVars, ghostVars>>

EnsureCalls == {"getStore", "createStore", "getData", "createData"}
RemoveCalls == {"getInstance", "stopInstance", "deleteInstance"}
StartCalls ==
  {"isRunning", "checkUpgrade", "upgradePoll", "upgradeVerify", "inspectNetwork",
   "createNetwork", "exists", "readCredentials", "createInstance", "writeVars",
   "startInstance", "waitRunning", "waitInfo", "getConfig", "cloudConfig"}
StopCalls == {"stopIsRunning", "stopContainer"}
DestroyCalls == {"confirm", "findInstance", "findNetwork", "removeStore", "removeData"}
Calls == EnsureCalls \cup RemoveCalls \cup StartCalls \cup StopCalls \cup DestroyCalls
Outcomes == {"idle", "started", "already", "stopped", "destroyed", "nothing",
             "cancelled", "failed", "interrupted"}
Returns == {"inspectNetwork", "createInstance", "upgradePoll", "readCredentials",
            "removeStore"}

Active(p) == pc[p] \in Calls
Goto(p, label) == pc' = [pc EXCEPT ![p] = label]
Step(p, from, to) == pc[p] = from /\ Goto(p, to)
Quiet == UNCHANGED <<serverVars, localVars, ghostVars>>

-----------------------------------------------------------------------------
\* The director, and the failures a command may meet.

\* The entrypoint needs the vars file; the first boot on a store generates credentials.
Boot ==
  /\ instance = "running"
  /\ provisioned
  /\ ~ready
  /\ ready' = TRUE
  /\ content' = [content EXCEPT ![home] = @ \cup {"creds"}]
  /\ UNCHANGED <<instance, home, provisioned, volumes, networks, pc, localVars, ghostVars>>

Crash ==
  /\ instance = "running"
  /\ faults < MaxFaults
  /\ faults' = faults + 1
  /\ instance' = "stopped"
  /\ ready' = FALSE
  /\ faulted' = faulted \cup {p \in Procs : Active(p)}
  /\ UNCHANGED <<home, provisioned, volumes, content, networks, pc, localVars, overlapped>>

\* The looks of destroy count as finding nothing when they fail; all else aborts.
OnError(label) ==
  CASE label = "findInstance" -> "findNetwork"
    [] label = "findNetwork" -> "nothing"
    [] OTHER -> "failed"

Fault(p) ==
  /\ pc[p] \in Calls \ {"confirm"}
  /\ faults < MaxFaults
  /\ faults' = faults + 1
  /\ faulted' = faulted \cup {p}
  /\ Goto(p, OnError(pc[p]))
  /\ UNCHANGED <<serverVars, localVars, overlapped>>

Interrupt(p) ==
  /\ Active(p)
  /\ faults < MaxFaults
  /\ faults' = faults + 1
  /\ Goto(p, "interrupted")
  /\ UNCHANGED <<serverVars, localVars, overlapped, faulted>>

-----------------------------------------------------------------------------
\* Running a command: start takes --storage-pool and --network, the others do not.

FirstCall(c) ==
  CASE c = "start" -> "isRunning"
    [] c = "stop" -> "stopIsRunning"
    [] c = "destroy" -> "confirm"

Places(c) == IF c = "start" THEN Pools \X Networks ELSE {<<DefaultPool, DefaultNetwork>>}

Begin(p) ==
  LET others == {q \in Procs \ {p} : Active(q)} IN
  /\ ~Active(p)
  /\ \E c \in Commands : \E place \in Places(c) :
       /\ Goto(p, FirstCall(c))
       /\ pool' = [pool EXCEPT ![p] = place[1]]
       /\ net' = [net EXCEPT ![p] = place[2]]
  /\ authentic' = [authentic EXCEPT ![p] = NoPool]
  /\ overlapped' = IF others = {} THEN overlapped \ {p}
                   ELSE overlapped \cup others \cup {p}
  /\ faulted' = faulted \ {p}
  /\ UNCHANGED <<serverVars, after, faults>>

-----------------------------------------------------------------------------
\* EnsureVolumes: look for each volume of the pool, and create the one not found.

EnsureVolumes(p, return) ==
  /\ Goto(p, "getStore")
  /\ after' = [after EXCEPT ![p] = return]

Get(v) == IF v = "store" THEN "getStore" ELSE "getData"
Create(v) == IF v = "store" THEN "createStore" ELSE "createData"
Ensured(p, v) == IF v = "store" THEN "getData" ELSE after[p]

GetVolume(p, v) ==
  /\ Step(p, Get(v), IF <<pool[p], v>> \in volumes THEN Ensured(p, v) ELSE Create(v))
  /\ Quiet

\* Unlike Docker's, it refuses a volume that exists.
CreateVolume(p, v) ==
  /\ Step(p, Create(v), IF <<pool[p], v>> \in volumes THEN "failed" ELSE Ensured(p, v))
  /\ volumes' = volumes \cup {<<pool[p], v>>}
  /\ UNCHANGED <<instance, home, provisioned, ready, content, networks, localVars, ghostVars>>

-----------------------------------------------------------------------------
\* RemoveContainer: a missing instance is forgiven at the look, not afterwards.

RemoveContainer(p, return) ==
  /\ Goto(p, "getInstance")
  /\ after' = [after EXCEPT ![p] = return]

GetInstance(p) ==
  /\ Step(p, "getInstance", CASE instance = "absent" -> after[p]
                              [] instance = "running" -> "stopInstance"
                              [] OTHER -> "deleteInstance")
  /\ Quiet

StopInstance(p) ==
  /\ Step(p, "stopInstance", IF instance = "running" THEN "deleteInstance" ELSE "failed")
  /\ instance' = IF instance = "running" THEN "stopped" ELSE instance
  /\ ready' = FALSE
  /\ UNCHANGED <<home, provisioned, volumes, content, networks, localVars, ghostVars>>

\* Mutant: the volumes go with the instance.
DeleteInstanceWiping(p) ==
  /\ Step(p, "deleteInstance", IF instance = "stopped" THEN after[p] ELSE "failed")
  /\ instance' = IF instance = "stopped" THEN "absent" ELSE instance
  /\ volumes' = {x \in volumes : x[1] # home}
  /\ content' = [content EXCEPT ![home] = {}]
  /\ UNCHANGED <<home, provisioned, ready, networks, localVars, ghostVars>>

\* An instance that runs, or is gone, is not deleted.
DeleteInstance(p) ==
  /\ Step(p, "deleteInstance", IF instance = "stopped" THEN after[p] ELSE "failed")
  /\ instance' = IF instance = "stopped" THEN "absent" ELSE instance
  /\ UNCHANGED <<home, provisioned, ready, volumes, content, networks, localVars, ghostVars>>

-----------------------------------------------------------------------------
\* ibosh incus start

\* Mutant: start does not look whether the instance runs.
IsRunningBlind(p) ==
  /\ pc[p] = "isRunning"
  /\ EnsureVolumes(p, "inspectNetwork")
  /\ UNCHANGED <<serverVars, pool, net, authentic, ghostVars>>

\* No image is pulled: the server does that on creation.
IsRunning(p) ==
  /\ pc[p] = "isRunning"
  /\ IF instance = "running"
     THEN Goto(p, "checkUpgrade") /\ UNCHANGED after
     ELSE EnsureVolumes(p, "inspectNetwork")
  /\ UNCHANGED <<serverVars, pool, net, authentic, ghostVars>>

\* Keep the instance or, confirmed, replace it: ImageUpgrade says which.
CheckUpgrade(p) ==
  /\ pc[p] = "checkUpgrade"
  /\ \/ Goto(p, "already") /\ UNCHANGED after
     \/ RemoveContainer(p, "upgradePoll")
  /\ UNCHANGED <<serverVars, pool, net, authentic, ghostVars>>

\* The poll ends when the instance is gone, or after thirty seconds.
UpgradePoll(p) ==
  /\ Step(p, "upgradePoll", "upgradeVerify")
  /\ Quiet

UpgradeVerify(p) ==
  /\ pc[p] = "upgradeVerify"
  /\ IF instance = "absent"
     THEN EnsureVolumes(p, "inspectNetwork")
     ELSE Goto(p, "failed") /\ UNCHANGED after
  /\ UNCHANGED <<serverVars, pool, net, authentic, ghostVars>>

InspectNetwork(p) ==
  /\ Step(p, "inspectNetwork", IF net[p] \in networks THEN "exists" ELSE "createNetwork")
  /\ Quiet

CreateNetwork(p) ==
  /\ Step(p, "createNetwork", IF net[p] \in networks THEN "failed" ELSE "exists")
  /\ networks' = networks \cup {net[p]}
  /\ UNCHANGED <<instance, home, provisioned, ready, volumes, content, localVars, ghostVars>>

\* Mutant: only a running instance is in the way.
ExistsIfRunning(p) ==
  /\ pc[p] = "exists"
  /\ IF instance = "running"
     THEN RemoveContainer(p, "readCredentials")
     ELSE Goto(p, "readCredentials") /\ UNCHANGED after
  /\ UNCHANGED <<serverVars, pool, net, authentic, ghostVars>>

\* "Removing stopped container...", whatever its state by then.
Exists(p) ==
  /\ pc[p] = "exists"
  /\ IF instance = "absent"
     THEN Goto(p, "readCredentials") /\ UNCHANGED after
     ELSE RemoveContainer(p, "readCredentials")
  /\ UNCHANGED <<serverVars, pool, net, authentic, ghostVars>>

\* The client certificate of the Incus CLI.  The volumes are then ensured once more.
ReadCredentials(p) ==
  /\ pc[p] = "readCredentials"
  /\ EnsureVolumes(p, "createInstance")
  /\ UNCHANGED <<serverVars, pool, net, authentic, ghostVars>>

\* The name is free, and the devices exist.
CreateInstance(p) ==
  LET possible == /\ instance = "absent"
                  /\ \A v \in VolumeNames : <<pool[p], v>> \in volumes
                  /\ net[p] \in networks IN
  /\ Step(p, "createInstance", IF possible THEN "writeVars" ELSE "failed")
  /\ IF possible
     THEN instance' = "stopped" /\ home' = pool[p] /\ provisioned' = FALSE
     ELSE UNCHANGED <<instance, home, provisioned>>
  /\ UNCHANGED <<ready, volumes, content, networks, localVars, ghostVars>>

\* Into whatever instance has the name.  One that runs may have looked for it already.
WriteVars(p) ==
  /\ Step(p, "writeVars", IF instance = "absent" THEN "failed" ELSE "startInstance")
  /\ \/ instance # "absent" /\ provisioned' = TRUE
     \/ instance # "stopped" /\ UNCHANGED provisioned
  /\ UNCHANGED <<instance, home, ready, volumes, content, networks, localVars, ghostVars>>

\* Mutant: an instance that cannot be started is cleaned away.
StartInstanceCleaning(p) ==
  /\ Step(p, "startInstance", IF instance = "stopped" THEN "waitRunning" ELSE "failed")
  /\ instance' = IF instance = "stopped" THEN "running" ELSE "absent"
  /\ ready' = FALSE
  /\ UNCHANGED <<home, provisioned, volumes, content, networks, localVars, ghostVars>>

\* The DNS configuration that follows only earns a warning when it fails.
StartInstance(p) ==
  /\ Step(p, "startInstance", IF instance = "stopped" THEN "waitRunning" ELSE "failed")
  /\ instance' = IF instance = "stopped" THEN "running" ELSE instance
  /\ UNCHANGED <<home, provisioned, ready, volumes, content, networks, localVars, ghostVars>>

WaitRunning(p) ==
  /\ Step(p, "waitRunning", IF instance = "running" THEN "waitInfo" ELSE "failed")
  /\ Quiet

WaitInfo(p) ==
  /\ Step(p, "waitInfo", IF ready THEN "getConfig" ELSE "waitRunning")
  /\ Quiet

\* Mutant: the deadline starts anew.
WaitTimeoutRestarts(p) ==
  /\ Step(p, "waitRunning", "waitRunning")
  /\ faulted' = faulted \cup {p}
  /\ UNCHANGED <<serverVars, localVars, overlapped, faults>>

\* Five minutes have passed.  The instance is left as it is.
WaitTimeout(p) ==
  /\ Step(p, "waitRunning", "failed")
  /\ faulted' = faulted \cup {p}
  /\ UNCHANGED <<serverVars, localVars, overlapped, faults>>

GetDirectorConfig(p) ==
  LET found == instance = "running" /\ "creds" \in content[home] IN
  /\ Step(p, "getConfig", IF found THEN "cloudConfig" ELSE "failed")
  /\ authentic' = IF found THEN [authentic EXCEPT ![p] = home] ELSE authentic
  /\ UNCHANGED <<serverVars, pool, net, after, ghostVars>>

\* Mutant: the answer of the director is not looked at.
UpdateCloudConfigUnchecked(p) ==
  /\ Step(p, "cloudConfig", "started")
  /\ content' = IF ready /\ authentic[p] = home
                THEN [content EXCEPT ![home] = @ \cup {"cloudConfig"}] ELSE content
  /\ UNCHANGED <<instance, home, provisioned, ready, volumes, networks, localVars, ghostVars>>

\* The last call: with Incus no stemcell is uploaded.
UpdateCloudConfig(p) ==
  LET accepted == ready /\ authentic[p] = home IN
  /\ Step(p, "cloudConfig", IF accepted THEN "started" ELSE "failed")
  /\ content' = IF accepted THEN [content EXCEPT ![home] = @ \cup {"cloudConfig"}] ELSE content
  /\ UNCHANGED <<instance, home, provisioned, ready, volumes, networks, localVars, ghostVars>>

-----------------------------------------------------------------------------
\* ibosh incus stop

StopIsRunning(p) ==
  /\ Step(p, "stopIsRunning", IF instance = "running" THEN "stopContainer" ELSE "stopped")
  /\ Quiet

\* An instance that does not run cannot be stopped.
StopContainer(p) ==
  /\ Step(p, "stopContainer", IF instance = "running" THEN "stopped" ELSE "failed")
  /\ instance' = IF instance = "running" THEN "stopped" ELSE instance
  /\ ready' = FALSE
  /\ UNCHANGED <<home, provisioned, volumes, content, networks, localVars, ghostVars>>

-----------------------------------------------------------------------------
\* ibosh incus destroy

Confirm(p) ==
  /\ Step(p, "confirm", "cancelled") \/ Step(p, "confirm", "findInstance")
  /\ Quiet

FindInstance(p) ==
  /\ pc[p] = "findInstance"
  /\ IF instance = "absent"
     THEN Goto(p, "findNetwork") /\ UNCHANGED after
     ELSE RemoveContainer(p, "removeStore")
  /\ UNCHANGED <<serverVars, pool, net, authentic, ghostVars>>

\* ResourcesExist looks for the network only.
FindNetwork(p) ==
  /\ pc[p] = "findNetwork"
  /\ IF net[p] \in networks
     THEN RemoveContainer(p, "removeStore")
     ELSE Goto(p, "nothing") /\ UNCHANGED after
  /\ UNCHANGED <<serverVars, pool, net, authentic, ghostVars>>

\* A volume attached to the instance is not removed; one that is missing is forgiven.
VolumeInUse(p) == instance # "absent" /\ home = pool[p]

\* Mutant: the data volume is forgotten.
RemoveStoreOnly(p) ==
  /\ Step(p, "removeStore", IF VolumeInUse(p) THEN "failed" ELSE "destroyed")
  /\ IF VolumeInUse(p)
     THEN UNCHANGED <<volumes, content, authentic>>
     ELSE /\ volumes' = volumes \ {<<pool[p], "store">>}
          /\ content' = [content EXCEPT ![pool[p]] = {}]
          /\ authentic' = [q \in Procs |-> IF authentic[q] = pool[p] THEN NoPool ELSE authentic[q]]
  /\ UNCHANGED <<instance, home, provisioned, ready, networks, pool, net, after, ghostVars>>

\* Credentials read from the store are worth nothing once it is gone.
RemoveStore(p) ==
  /\ Step(p, "removeStore", IF VolumeInUse(p) THEN "failed" ELSE "removeData")
  /\ IF VolumeInUse(p)
     THEN UNCHANGED <<volumes, content, authentic>>
     ELSE /\ volumes' = volumes \ {<<pool[p], "store">>}
          /\ content' = [content EXCEPT ![pool[p]] = {}]
          /\ authentic' = [q \in Procs |-> IF authentic[q] = pool[p] THEN NoPool ELSE authentic[q]]
  /\ UNCHANGED <<instance, home, provisioned, ready, networks, pool, net, after, ghostVars>>

RemoveData(p) ==
  /\ Step(p, "removeData", IF VolumeInUse(p) THEN "failed" ELSE "destroyed")
  /\ volumes' = IF VolumeInUse(p) THEN volumes ELSE volumes \ {<<pool[p], "data">>}
  /\ UNCHANGED <<instance, home, provisioned, ready, content, networks, localVars, ghostVars>>

-----------------------------------------------------------------------------

Init ==
  /\ instance = "absent"
  /\ home = DefaultPool
  /\ provisioned = FALSE
  /\ ready = FALSE
  /\ volumes = {}
  /\ content = [q \in Pools |-> {}]
  /\ networks = {}
  /\ pc = [p \in Procs |-> "idle"]
  /\ pool = [p \in Procs |-> DefaultPool]
  /\ net = [p \in Procs |-> DefaultNetwork]
  /\ after = [p \in Procs |-> "inspectNetwork"]
  /\ authentic = [p \in Procs |-> NoPool]
  /\ overlapped = {}
  /\ faulted = {}
  /\ faults = 0

StartAction(p) ==
  \/ IsRunning(p) \/ CheckUpgrade(p) \/ UpgradePoll(p) \/ UpgradeVerify(p)
  \/ InspectNetwork(p) \/ CreateNetwork(p) \/ Exists(p) \/ ReadCredentials(p)
  \/ CreateInstance(p) \/ WriteVars(p) \/ StartInstance(p)
  \/ WaitRunning(p) \/ WaitInfo(p) \/ GetDirectorConfig(p) \/ UpdateCloudConfig(p)

StopAction(p) == StopIsRunning(p) \/ StopContainer(p)

DestroyAction(p) ==
  \/ Confirm(p) \/ FindInstance(p) \/ FindNetwork(p) \/ RemoveStore(p) \/ RemoveData(p)

Shared(p) ==
  \/ \E v \in VolumeNames : GetVolume(p, v) \/ CreateVolume(p, v)
  \/ GetInstance(p) \/ StopInstance(p) \/ DeleteInstance(p)

Command(p) == StartAction(p) \/ StopAction(p) \/ DestroyAction(p) \/ Shared(p)

Next ==
  \/ \E p \in Procs :
       Begin(p) \/ Command(p) \/ Fault(p) \/ WaitTimeout(p) \/ Interrupt(p)
  \/ Boot \/ Crash

Spec == Init /\ [][Next]_vars

\* As in DockerLifecycle: commands make their calls, and the deadline passes.
Fairness == \A p \in Procs : WF_vars(Command(p)) /\ SF_vars(WaitTimeout(p))
FairSpec == Spec /\ Fairness

-----------------------------------------------------------------------------
\* Properties.

TypeOK ==
  /\ instance \in {"absent", "stopped", "running"}
  /\ home \in Pools
  /\ provisioned \in BOOLEAN
  /\ ready \in BOOLEAN
  /\ volumes \subseteq Pools \X VolumeNames
  /\ content \in [Pools -> SUBSET Content]
  /\ networks \subseteq Networks
  /\ pc \in [Procs -> Calls \cup Outcomes]
  /\ pool \in [Procs -> Pools]
  /\ net \in [Procs -> Networks]
  /\ after \in [Procs -> Returns]
  /\ authentic \in [Procs -> Pools \cup {NoPool}]
  /\ overlapped \subseteq Procs
  /\ faulted \subseteq Procs
  /\ faults \in 0 .. MaxFaults

Undisturbed(p) == p \notin overlapped /\ p \notin faulted

\* Whatever earlier commands left behind, in whatever pool, an undisturbed command
\* succeeds: a stopped or half made instance, volumes without a network, a director
\* that runs on another pool.
UndisturbedSucceeds == \A p \in Procs : pc[p] = "failed" => ~Undisturbed(p)

Finishes(p, outcome) == Active(p) /\ pc'[p] = outcome

\* A start that overlaps no other command and ends well leaves a director made with
\* its vars file on the pool it was given, with credentials and cloud-config there;
\* unless something external failed, it is up.
StartDeliversAt(p) ==
  Finishes(p, "started")
    => /\ home' = pool[p]
       /\ content'[pool[p]] = Content
       /\ \A v \in VolumeNames : <<pool[p], v>> \in volumes'
       /\ net[p] \in networks'
       /\ provisioned'
       /\ p \notin faulted' => instance' = "running" /\ ready'

StartDelivers == [][\A p \in Procs \ overlapped : StartDeliversAt(p)]_vars

\* A destroy that overlaps no other command and reports "Destroy complete" has left no
\* instance and, in the default pool, no volume.
DestroyDeliversAt(p) ==
  Finishes(p, "destroyed")
    => instance' = "absent" /\ \A v \in VolumeNames : <<DefaultPool, v>> \notin volumes'

DestroyDelivers == [][\A p \in Procs \ overlapped : DestroyDeliversAt(p)]_vars

\* No command, raced, failing or interrupted, loses what a director keeps in any pool,
\* but for a confirmed destroy; nor does any take the store from a running director.
Condemned ==
  \E p \in Procs : \/ pc[p] \in DestroyCalls \ {"confirm"}
                   \/ pc[p] \in RemoveCalls /\ after[p] = "removeStore"

Promise == INSTANCE DirectorPromise
             WITH up <- (instance = "running" /\ home = Watched),
                  kept <- content[Watched], condemned <- Condemned

PromiseKept == Promise!PromiseSpec

\* Every command ends.
CommandsEnd == \A p \in Procs : Active(p) ~> ~Active(p)

\* Starts that remove each other's instance, or that a destroy overtakes, do not all
\* lose: when every command has ended, none met a failure, and each shell's last one
\* was a start or did not get through, an instance runs.  Only a start on one pool can
\* lose a volume's creation to a start that finds a stopped instance of another pool.
SomeStartWins ==
  /\ faults = 0 /\ faulted = {}
  /\ \A p \in Procs : pc[p] \in {"idle", "started", "already", "failed"}
  /\ \E p \in Procs : pc[p] # "idle"
  => \/ instance = "running"
     \/ instance = "stopped" /\ \E p \in Procs : pc[p] = "failed" /\ pool[p] # home

\* main.go: "Destroy instant-bosh director and all data (Incus)".
DestroyRemovesAllData ==
  [][\A p \in Procs \ overlapped : Finishes(p, "destroyed") => volumes' = {}]_vars

-----------------------------------------------------------------------------
\* Why they hold: what is known at each call, of any command, of one that runs alone,
\* and of one that nothing external disturbed either.

DaemonInv ==
  /\ instance # "absent" => \A v \in VolumeNames : <<home, v>> \in volumes
  /\ ready => instance = "running" /\ "creds" \in content[home]
  /\ \A p \in Procs : authentic[p] # NoPool => "creds" \in content[authentic[p]]

\* Commands in progress that do not overlap are one.
LoneInv ==
  \A p, q \in Procs : Active(p) /\ Active(q) /\ p \notin overlapped => p = q

Returning(p, calls, return) == pc[p] \in calls /\ after[p] = return

CallFacts(p) ==
  /\ pc[p] \in EnsureCalls => after[p] \in {"inspectNetwork", "createInstance"}
  /\ pc[p] \in RemoveCalls => after[p] \in {"upgradePoll", "readCredentials", "removeStore"}
  /\ pc[p] \in DestroyCalls \/ Returning(p, RemoveCalls, "removeStore")
       => pool[p] = DefaultPool

Replacing(p) == Returning(p, RemoveCalls, "readCredentials")
Recreating(p) ==
  pc[p] \in {"readCredentials", "createInstance"} \/ Returning(p, EnsureCalls, "createInstance")

Waiting == {"waitRunning", "waitInfo", "getConfig", "cloudConfig"}

\* The instance is what the command made of it.
InstanceFacts(p) ==
  /\ Replacing(p) \/ pc[p] \in EnsureCalls \cup {"inspectNetwork", "createNetwork", "exists"}
       => instance # "running"
  /\ pc[p] = "deleteInstance" => instance = "stopped"
  /\ Recreating(p) \/ pc[p] \in {"upgradePoll", "upgradeVerify", "removeStore", "removeData"}
       => instance = "absent"
  /\ pc[p] \in {"writeVars", "startInstance"} => instance = "stopped"

\* What it found or made is still there.
PlaceFacts(p) ==
  /\ pc[p] \in {"createStore", "removeData"} => <<pool[p], "store">> \notin volumes
  /\ pc[p] \in {"getData", "createData", "createInstance"} => <<pool[p], "store">> \in volumes
  /\ pc[p] = "createData" => <<pool[p], "data">> \notin volumes
  /\ pc[p] = "createInstance" => <<pool[p], "data">> \in volumes
  /\ pc[p] = "createNetwork" => net[p] \notin networks
  /\ Replacing(p) \/ Recreating(p) \/ pc[p] \in {"exists", "writeVars", "startInstance"} \cup Waiting
       => net[p] \in networks

\* It is in charge of its own director.
DirectorFacts(p) ==
  /\ pc[p] \in {"writeVars", "startInstance"} \cup Waiting => home = pool[p]
  /\ pc[p] \in Waiting => instance # "absent"
  /\ pc[p] \in {"startInstance"} \cup Waiting => provisioned
  /\ pc[p] = "cloudConfig" => authentic[p] = home

AloneFacts(p) == InstanceFacts(p) /\ PlaceFacts(p) /\ DirectorFacts(p)

SmoothFacts(p) ==
  /\ pc[p] # "failed"
  /\ pc[p] \in {"waitRunning", "waitInfo", "stopInstance", "stopContainer"}
       => instance = "running"
  /\ pc[p] \in {"getConfig", "cloudConfig"} => ready

Inv ==
  /\ TypeOK
  /\ DaemonInv
  /\ LoneInv
  /\ \A p \in Procs : CallFacts(p)
  /\ \A p \in Procs \ overlapped : AloneFacts(p)
  /\ \A p \in Procs : Undisturbed(p) => SmoothFacts(p)
=============================================================================

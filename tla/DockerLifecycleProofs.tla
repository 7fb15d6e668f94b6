----------------------- MODULE DockerLifecycleProofs -----------------------
(***************************************************************************)
(* Theorems about DockerLifecycle, for any number of shells, VMs and       *)
(* faults.                                                                 *)
(***************************************************************************)
EXTENDS DockerLifecycle, TLAPS

USE ProcsAssumption, CommandsAssumption, MaxFaultsAssumption

\* The labels, which nearly every step compares.
USE DEF Calls, StartCalls, StopCalls, DestroyCalls, WipeCalls, Outcomes

\* p makes a call and goes on.
Moves(p) == pc[p] \in Calls /\ \E l \in Calls \cup Outcomes : Goto(p, l)

LEMMA InitInv == Init => Inv
<1> SUFFICES ASSUME Init PROVE Inv
  OBVIOUS
<1>1. TypeOK
  <2>1. pc \in [Procs -> Calls \cup Outcomes]
    BY DEF Init
  <2>2. faults \in 0 .. MaxFaults
    BY DEF Init
  <2> QED BY <2>1, <2>2 DEF Init, TypeOK, DirectorStates
<1>2. DaemonInv
  BY DEF Init, DaemonInv
<1>3. LoneInv
  BY DEF Init, LoneInv, Active
<1>4. ASSUME NEW p \in Procs PROVE AloneFacts(p) /\ SmoothFacts(p)
  BY DEF Init, AloneFacts, SmoothFacts
<1> QED BY <1>1, <1>2, <1>3, <1>4 DEF Inv

\* What is left to prove of a step of one process: the other commands in progress
\* overlap it, so nothing is claimed of them, and nothing is claimed of shells at rest.
LEMMA Frame ==
  ASSUME Inv, NEW p \in Procs, Moves(p),
         overlapped' = overlapped, faulted \subseteq faulted',
         TypeOK', DaemonInv',
         p \notin overlapped => AloneFacts(p)',
         p \notin overlapped /\ p \notin faulted' => SmoothFacts(p)'
  PROVE  Inv'
<1>1. LoneInv'
  BY DEF Inv, LoneInv, TypeOK, Active, Moves, Goto
<1>2. ASSUME NEW q \in Procs, q # p, q \notin overlapped
      PROVE  pc'[q] = pc[q] /\ pc[q] \notin Calls
  BY <1>2 DEF Inv, LoneInv, TypeOK, Active, Moves, Goto
<1>3. ASSUME NEW q \in Procs, q \notin overlapped' PROVE AloneFacts(q)'
  <2>1. CASE q = p
    BY <1>3, <2>1
  <2>2. CASE q # p
    BY <1>2, <1>3, <2>2 DEF AloneFacts
  <2> QED BY <2>1, <2>2
<1>4. ASSUME NEW q \in Procs, Undisturbed(q)' PROVE SmoothFacts(q)'
  <2>1. CASE q = p
    BY <1>4, <2>1 DEF Undisturbed
  <2>2. CASE q # p
    <3>1. SmoothFacts(q)
      BY <1>4 DEF Inv, Undisturbed
    <3> QED BY <1>2, <1>4, <2>2, <3>1 DEF SmoothFacts, Undisturbed
  <2> QED BY <2>1, <2>2
<1> QED BY <1>1, <1>3, <1>4 DEF Inv

LEMMA QuietFrame ==
  ASSUME Inv, NEW p \in Procs, Moves(p), Quiet,
         p \notin overlapped => AloneFacts(p)',
         p \notin overlapped /\ p \notin faulted => SmoothFacts(p)'
  PROVE  Inv'
<1>1. TypeOK' /\ DaemonInv'
  BY DEF Inv, Moves, Goto, TypeOK, DaemonInv, Quiet, daemonVars, localVars, ghostVars
<1> QED BY <1>1, Frame DEF Quiet, ghostVars

-----------------------------------------------------------------------------
\* Calls that only look, and decide by what they see.

Look(p) ==
  \/ IsRunning(p) \/ CheckUpgrade(p) \/ UpgradePoll(p) \/ UpgradeVerify(p) \/ PullImage(p)
  \/ InspectNetwork(p) \/ Exists(p) \/ CopyVars(p) \/ WaitRunning(p) \/ WaitInfo(p)
  \/ StopIsRunning(p) \/ Confirm(p)
  \/ FindContainer(p) \/ FindStore(p) \/ FindData(p) \/ FindNetwork(p)

LEMMA LookStep == ASSUME Inv, NEW p \in Procs, Look(p) PROVE Inv'
<1> USE DEF Look, IsRunning, CheckUpgrade, UpgradePoll, UpgradeVerify, PullImage,
            InspectNetwork, Exists, CopyVars, WaitRunning, WaitInfo, StopIsRunning,
            Confirm, FindContainer, FindStore, FindData, FindNetwork, Step, Goto
<1>1. Moves(p) /\ Quiet
  BY DEF Moves
<1>2. ASSUME p \notin overlapped PROVE AloneFacts(p)'
  BY <1>1, <1>2 DEF Inv, TypeOK, AloneFacts, Quiet, daemonVars, localVars
<1>3. ASSUME p \notin overlapped, p \notin faulted PROVE SmoothFacts(p)'
  BY <1>1, <1>3 DEF Inv, TypeOK, DaemonInv, Undisturbed, AloneFacts, SmoothFacts,
                    Quiet, daemonVars, localVars
<1> QED BY <1>1, <1>2, <1>3, QuietFrame

-----------------------------------------------------------------------------
\* Calls that change something, failures and interruptions.

ContainerCall(p) ==
  \/ UpgradeRemove(p) \/ RemoveStopped(p) \/ RemoveDirector(p) \/ ContainerCreate(p)
  \/ ContainerStart(p) \/ StopContainer(p)

LEMMA ContainerCallStep == ASSUME Inv, NEW p \in Procs, ContainerCall(p) PROVE Inv'
<1> USE DEF ContainerCall, UpgradeRemove, RemoveStopped, RemoveDirector,
            ContainerCreate, ContainerStart, StopContainer, ForceRemove, Quiet,
            daemonVars, localVars, ghostVars, Step, Goto
<1>1. Moves(p)
  BY DEF Moves
<1>2. overlapped' = overlapped /\ faulted \subseteq faulted'
  BY DEF ghostVars, Quiet
<1>3. TypeOK'
  BY DEF Inv, TypeOK, DirectorStates, Content
<1>4. DaemonInv'
  BY DEF Inv, TypeOK, DaemonInv, Volumes
<1>5. ASSUME p \notin overlapped PROVE AloneFacts(p)'
  BY <1>5 DEF Inv, TypeOK, DaemonInv, AloneFacts, Volumes
<1>6. ASSUME p \notin overlapped, p \notin faulted' PROVE SmoothFacts(p)'
  BY <1>6 DEF Inv, TypeOK, DaemonInv, Undisturbed, AloneFacts, SmoothFacts
<1> QED BY <1>1, <1>2, <1>3, <1>4, <1>5, <1>6, Frame

PlaceCall(p) ==
  \/ CreateNetwork(p) \/ RemoveNetwork(p) \/ RemoveStore(p) \/ RemoveData(p)
  \/ \E v \in Volumes : InspectVolume(p, v)
  \/ \E v \in Volumes : CreateVolume(p, v)

LEMMA PlaceCallStep == ASSUME Inv, NEW p \in Procs, PlaceCall(p) PROVE Inv'
<1> USE DEF PlaceCall, CreateNetwork, RemoveNetwork, RemoveStore, RemoveData,
            InspectVolume, CreateVolume, VolumeInUse, NetworkInUse, daemonVars,
            localVars, ghostVars, Step, Goto
<1>1. Moves(p)
  BY DEF Moves
<1>2. overlapped' = overlapped /\ faulted \subseteq faulted'
  BY DEF ghostVars, Quiet
<1>3. TypeOK'
  <2>1. pc' \in [Procs -> Calls \cup Outcomes]
    BY <1>1 DEF Inv, TypeOK, Moves
  <2>2. missing' \in [Procs -> SUBSET Volumes] /\ volumes' \subseteq Volumes
    BY DEF Inv, TypeOK
  <2> QED BY <2>1, <2>2 DEF Inv, TypeOK
<1>4. DaemonInv'
  BY DEF Inv, TypeOK, DaemonInv, Volumes
<1>5. ASSUME p \notin overlapped PROVE AloneFacts(p)'
  BY <1>5 DEF Inv, TypeOK, DaemonInv, AloneFacts, Volumes
<1>6. ASSUME p \notin overlapped, p \notin faulted' PROVE SmoothFacts(p)'
  BY <1>6 DEF Inv, TypeOK, DaemonInv, Undisturbed, AloneFacts, SmoothFacts
<1> QED BY <1>1, <1>2, <1>3, <1>4, <1>5, <1>6, Frame

DirectorCall(p) ==
  \/ GetDirectorConfig(p) \/ UpdateCloudConfig(p) \/ UploadStemcells(p)

LEMMA DirectorCallStep == ASSUME Inv, NEW p \in Procs, DirectorCall(p) PROVE Inv'
<1> USE DEF DirectorCall, GetDirectorConfig, ExecCommand, UpdateCloudConfig, UploadStemcells,
            Quiet, daemonVars, localVars, ghostVars, Step, Goto
<1>1. Moves(p)
  BY DEF Moves
<1>2. overlapped' = overlapped /\ faulted \subseteq faulted'
  BY DEF ghostVars, Quiet
<1>3. TypeOK'
  BY DEF Inv, TypeOK, DirectorStates, Content
<1>4. DaemonInv'
  BY DEF Inv, TypeOK, DaemonInv, Volumes
<1>5. ASSUME p \notin overlapped PROVE AloneFacts(p)'
  BY <1>5 DEF Inv, TypeOK, DaemonInv, AloneFacts, Volumes
<1>6. ASSUME p \notin overlapped, p \notin faulted' PROVE SmoothFacts(p)'
  BY <1>6 DEF Inv, TypeOK, DaemonInv, Undisturbed, AloneFacts, SmoothFacts
<1> QED BY <1>1, <1>2, <1>3, <1>4, <1>5, <1>6, Frame

VMCall(p) ==
  \/ ListVMs(p) \/ RemoveVMs(p)

LEMMA VMCallStep == ASSUME Inv, NEW p \in Procs, VMCall(p) PROVE Inv'
<1> USE DEF VMCall, ListVMs, RemoveVMs, Quiet, daemonVars, localVars, ghostVars, Step, Goto
<1>1. Moves(p)
  BY DEF Moves
<1>2. overlapped' = overlapped /\ faulted \subseteq faulted'
  BY DEF ghostVars, Quiet
<1>3. TypeOK'
  <2>1. targets' \in [Procs -> SUBSET VMs] /\ vms' \subseteq VMs
    <3>1. CASE \E v \in targets[p] : /\ vms' = vms \ {v}
                                    /\ targets' = [targets EXCEPT ![p] = @ \ {v}]
      BY <3>1 DEF Inv, TypeOK
    <3>2. CASE UNCHANGED vms /\ targets' \in {targets, [targets EXCEPT ![p] = vms]}
      BY <3>2 DEF Inv, TypeOK
    <3> QED BY <3>1, <3>2
  <2>2. pc' \in [Procs -> Calls \cup Outcomes]
    BY <1>1 DEF Inv, TypeOK, Moves
  <2> QED BY <2>1, <2>2 DEF Inv, TypeOK
<1>4. DaemonInv'
  BY DEF Inv, TypeOK, DaemonInv, Volumes
<1>5. ASSUME p \notin overlapped PROVE AloneFacts(p)'
  BY <1>5 DEF Inv, TypeOK, DaemonInv, AloneFacts, Volumes
<1>6. ASSUME p \notin overlapped, p \notin faulted' PROVE SmoothFacts(p)'
  BY <1>6 DEF Inv, TypeOK, DaemonInv, Undisturbed, AloneFacts, SmoothFacts
<1> QED BY <1>1, <1>2, <1>3, <1>4, <1>5, <1>6, Frame

LEMMA TroubleStep == ASSUME Inv, NEW p \in Procs, Trouble(p) PROVE Inv'
<1> USE DEF Trouble, Fault, RemovalInProgress, WaitTimeout, Interrupt, OnError,
            Active, daemonVars, localVars, Step, Goto
<1>1. Moves(p)
  BY DEF Moves
<1>2. overlapped' = overlapped /\ faulted \subseteq faulted'
  BY DEF ghostVars, Quiet
<1>3. TypeOK'
  BY DEF Inv, TypeOK, DirectorStates, Content
<1>4. DaemonInv'
  BY DEF Inv, TypeOK, DaemonInv, Volumes
<1>5. ASSUME p \notin overlapped PROVE AloneFacts(p)'
  BY <1>5 DEF Inv, TypeOK, DaemonInv, AloneFacts, Volumes
<1>6. ASSUME p \notin overlapped, p \notin faulted' PROVE SmoothFacts(p)'
  BY <1>6 DEF Inv, TypeOK, DaemonInv, Undisturbed, AloneFacts, SmoothFacts
<1> QED BY <1>1, <1>2, <1>3, <1>4, <1>5, <1>6, Frame

-----------------------------------------------------------------------------
\* A new command.

LEMMA BeginStep == ASSUME Inv, NEW p \in Procs, Begin(p) PROVE Inv'
<1> DEFINE others == {q \in Procs \ {p} : Active(q)}
<1> USE DEF Begin, FirstCall, Goto
<1>1. /\ pc[p] \notin Calls
      /\ pc'[p] \in {"isRunning", "stopIsRunning", "confirm"}
      /\ \A q \in Procs \ {p} : pc'[q] = pc[q]
  BY DEF Inv, TypeOK, Active
<1>2. TypeOK'
  <2>1. pc' \in [Procs -> Calls \cup Outcomes]
    BY DEF Inv, TypeOK
  <2> QED BY <2>1 DEF Inv, TypeOK, daemonVars
<1>3. DaemonInv'
  BY DEF Inv, DaemonInv, daemonVars
<1>4. \A q \in Procs \ {p} : q \notin overlapped' => q \notin overlapped /\ ~Active(q)
  BY DEF Inv, LoneInv, Active
<1>5. p \notin overlapped' => others = {}
  OBVIOUS
<1>6. LoneInv'
  BY <1>1, <1>4, <1>5 DEF LoneInv, Active
<1>7. ASSUME NEW q \in Procs, q \notin overlapped' PROVE AloneFacts(q)'
  BY <1>1, <1>4, <1>7 DEF Inv, AloneFacts, Active, daemonVars
<1>8. ASSUME NEW q \in Procs, Undisturbed(q)' PROVE SmoothFacts(q)'
  BY <1>1, <1>4, <1>8 DEF Inv, SmoothFacts, Undisturbed, Active, daemonVars
<1> QED BY <1>2, <1>3, <1>6, <1>7, <1>8 DEF Inv

-----------------------------------------------------------------------------
\* The daemon and the director.

LEMMA EnvironmentStep == ASSUME Inv, Environment PROVE Inv'
<1> USE DEF Environment, Reap, Boot, Crash, CreateVM, DeleteVM, ForceRemove, localVars,
            ghostVars
<1>1. UNCHANGED <<pc, overlapped>> /\ faulted \subseteq faulted'
  OBVIOUS
<1>2. TypeOK'
  <2>1. faults' \in 0 .. MaxFaults
    BY DEF Inv, TypeOK
  <2> QED BY <2>1 DEF Inv, TypeOK, DirectorStates, Content
<1>3. DaemonInv'
  BY DEF Inv, TypeOK, DaemonInv
<1>4. LoneInv'
  BY <1>1 DEF Inv, LoneInv, Active
<1>5. ASSUME NEW p \in Procs, p \notin overlapped' PROVE AloneFacts(p)'
  BY <1>5 DEF Inv, TypeOK, DaemonInv, AloneFacts
<1>6. ASSUME NEW p \in Procs, Undisturbed(p)' PROVE SmoothFacts(p)'
  BY <1>6 DEF Inv, TypeOK, DaemonInv, Undisturbed, Active, AloneFacts, SmoothFacts
<1> QED BY <1>2, <1>3, <1>4, <1>5, <1>6 DEF Inv

-----------------------------------------------------------------------------

LEMMA StutterStep == ASSUME Inv, UNCHANGED vars PROVE Inv'
BY DEF Inv, TypeOK, DaemonInv, LoneInv, AloneFacts, SmoothFacts, Active, Undisturbed,
       vars, daemonVars, localVars, ghostVars

LEMMA NextStep == ASSUME Inv, [Next]_vars PROVE Inv'
<1>1. CASE UNCHANGED vars
  BY <1>1, StutterStep
<1>2. ASSUME NEW p \in Procs, Begin(p) PROVE Inv'
  BY <1>2, BeginStep
<1>3. ASSUME NEW p \in Procs, Command(p) PROVE Inv'
  BY <1>3, LookStep, ContainerCallStep, PlaceCallStep, DirectorCallStep,
     VMCallStep
  DEF Look, ContainerCall, PlaceCall, DirectorCall, VMCall, Command, StartAction,
      StopAction, DestroyAction
<1>4. ASSUME NEW p \in Procs, Trouble(p) PROVE Inv'
  BY <1>4, TroubleStep
<1>5. CASE Environment
  BY <1>5, EnvironmentStep
<1> QED BY <1>1, <1>2, <1>3, <1>4, <1>5 DEF Next

\* The inductive invariant holds in every state.
THEOREM Invariance == Spec => []Inv
BY InitInv, NextStep, PTL DEF Spec

\* Every variable keeps its type.
THEOREM TypeCorrect == Spec => []TypeOK
<1>1. Inv => TypeOK
  BY DEF Inv
<1> QED BY <1>1, Invariance, PTL

\* An undisturbed command never fails, whatever the commands before it left behind
\* (start.go, stop.go, destroy.go).
THEOREM UndisturbedCommandsSucceed == Spec => []UndisturbedSucceeds
<1>1. Inv => UndisturbedSucceeds
  BY DEF Inv, UndisturbedSucceeds, SmoothFacts
<1> QED BY <1>1, Invariance, PTL

-----------------------------------------------------------------------------
\* A command ends at its own last call only.

LEMMA StartEnds ==
  ASSUME Inv, Next, NEW p \in Procs, Finishes(p, "started")
  PROVE  pc[p] = "uploadStemcells" /\ (UploadStemcells(p) \/ Fault(p))
<1> USE DEF Finishes, Active, Inv, TypeOK, Step, Goto
<1>1. ASSUME NEW q \in Procs, Begin(q) PROVE FALSE
  BY <1>1 DEF Begin, FirstCall
<1>2. ASSUME NEW q \in Procs, StartAction(q)
      PROVE  q = p /\ UploadStemcells(q) /\ pc[p] = "uploadStemcells"
  BY <1>2 DEF StartAction, IsRunning, CheckUpgrade, UpgradeRemove, UpgradePoll,
     UpgradeVerify, PullImage, InspectVolume, CreateVolume, InspectNetwork,
     CreateNetwork, Exists, RemoveStopped, ContainerCreate, CopyVars, ContainerStart,
     WaitRunning, WaitInfo, GetDirectorConfig, ExecCommand, UpdateCloudConfig, UploadStemcells
<1>3. ASSUME NEW q \in Procs, StopAction(q) PROVE FALSE
  BY <1>3 DEF StopAction, StopIsRunning, StopContainer
<1>4. ASSUME NEW q \in Procs, DestroyAction(q) PROVE FALSE
  BY <1>4 DEF DestroyAction, Confirm, FindContainer, FindStore, FindData, FindNetwork,
     ListVMs, RemoveVMs, RemoveDirector, RemoveStore, RemoveData, RemoveNetwork
<1>5. ASSUME NEW q \in Procs, Trouble(q)
      PROVE  q = p /\ Fault(q) /\ pc[p] = "uploadStemcells"
  BY <1>5 DEF Trouble, Fault, OnError, RemovalInProgress, WaitTimeout, Interrupt
<1>6. CASE Environment
  BY <1>6 DEF Environment, Reap, Boot, Crash, CreateVM, DeleteVM
<1> QED BY <1>1, <1>2, <1>3, <1>4, <1>5, <1>6 DEF Next, Command

LEMMA DestroyEnds ==
  ASSUME Inv, Next, NEW p \in Procs,
         Finishes(p, "destroyed") \/ (Finishes(p, "nothing") /\ p \notin faulted')
  PROVE  \/ pc'[p] = "destroyed" /\ pc[p] = "removeNetwork" /\ RemoveNetwork(p)
         \/ pc'[p] = "nothing" /\ pc[p] = "findNetwork" /\ FindNetwork(p)
<1> USE DEF Finishes, Active, Inv, TypeOK, Step, Goto
<1>1. ASSUME NEW q \in Procs, Begin(q) PROVE FALSE
  BY <1>1 DEF Begin, FirstCall
<1>2. ASSUME NEW q \in Procs, StartAction(q) PROVE FALSE
  BY <1>2 DEF StartAction, IsRunning, CheckUpgrade, UpgradeRemove, UpgradePoll,
     UpgradeVerify, PullImage, InspectVolume, CreateVolume, InspectNetwork,
     CreateNetwork, Exists, RemoveStopped, ContainerCreate, CopyVars, ContainerStart,
     WaitRunning, WaitInfo, GetDirectorConfig, ExecCommand, UpdateCloudConfig, UploadStemcells
<1>3. ASSUME NEW q \in Procs, StopAction(q) PROVE FALSE
  BY <1>3 DEF StopAction, StopIsRunning, StopContainer
<1>4. ASSUME NEW q \in Procs, DestroyAction(q)
      PROVE  \/ q = p /\ pc'[p] = "destroyed" /\ pc[p] = "removeNetwork" /\ RemoveNetwork(q)
             \/ q = p /\ pc'[p] = "nothing" /\ pc[p] = "findNetwork" /\ FindNetwork(q)
  BY <1>4 DEF DestroyAction, Confirm, FindContainer, FindStore, FindData, FindNetwork,
     ListVMs, RemoveVMs, RemoveDirector, RemoveStore, RemoveData, RemoveNetwork
<1>5. ASSUME NEW q \in Procs, Trouble(q) PROVE FALSE
  BY <1>5 DEF Trouble, Fault, OnError, RemovalInProgress, WaitTimeout, Interrupt
<1>6. CASE Environment
  BY <1>6 DEF Environment, Reap, Boot, Crash, CreateVM, DeleteVM
<1> QED BY <1>1, <1>2, <1>3, <1>4, <1>5, <1>6 DEF Next, Command

\* A lone start that ends well leaves a configured director (start.go, docker_cpi.go).
THEOREM StartsDeliver == Spec => StartDelivers
<1>1. ASSUME Inv, Next, NEW p \in Procs \ overlapped PROVE StartDeliversAt(p)
  <2>1. SUFFICES ASSUME Finishes(p, "started")
                 PROVE  /\ {"creds", "cloudConfig"} \subseteq content'
                        /\ volumes' = Volumes
                        /\ network'
                        /\ p \notin faulted' => director' = "running" /\ ready'
    BY DEF StartDeliversAt
  <2>2. pc[p] = "uploadStemcells" /\ (UploadStemcells(p) \/ Fault(p))
    BY <1>1, <2>1, StartEnds
  <2>3. /\ content \subseteq content' /\ UNCHANGED <<volumes, network, director, ready>>
        /\ faulted \subseteq faulted'
    BY <2>2 DEF UploadStemcells, Fault, daemonVars, ghostVars
  <2>4. AloneFacts(p) /\ (p \notin faulted => SmoothFacts(p)) /\ DaemonInv
    BY <1>1 DEF Inv, Undisturbed
  <2> QED BY <2>2, <2>3, <2>4 DEF AloneFacts, SmoothFacts, DaemonInv
<1>2. Inv /\ [Next]_vars => [\A p \in Procs \ overlapped : StartDeliversAt(p)]_vars
  BY <1>1
<1> QED BY <1>2, Invariance, PTL DEF Spec, StartDelivers

\* A lone destroy that reports completion, or nothing to do, leaves nothing
\* (destroy.go, docker_cpi.go:84-111).
THEOREM DestroysDeliver == Spec => DestroyDelivers
<1>1. ASSUME Inv, Next, NEW p \in Procs \ overlapped PROVE DestroyDeliversAt(p)
  <2> SUFFICES ASSUME Finishes(p, "destroyed") \/ (Finishes(p, "nothing") /\ p \notin faulted')
               PROVE  NothingLeft'
    BY DEF DestroyDeliversAt
  <2>1. AloneFacts(p) /\ (p \notin faulted => SmoothFacts(p)) /\ DaemonInv /\ TypeOK
    BY <1>1 DEF Inv, Undisturbed
  <2>2. CASE pc[p] = "removeNetwork" /\ RemoveNetwork(p) /\ pc'[p] = "destroyed"
    <3>1. ~NetworkInUse /\ network' = (network /\ NetworkInUse)
      BY <2>1, <2>2 DEF RemoveNetwork, Step, Goto, TypeOK
    <3>2. director = "absent" /\ "store" \notin volumes /\ "data" \notin volumes
      BY <2>1, <2>2 DEF AloneFacts
    <3>3. volumes = {} /\ vms = {}
      BY <2>1, <3>1, <3>2 DEF TypeOK, Volumes, NetworkInUse
    <3>4. UNCHANGED <<director, volumes, vms>>
      BY <2>2 DEF RemoveNetwork
    <3> QED BY <3>1, <3>2, <3>3, <3>4 DEF NothingLeft
  <2>3. CASE pc[p] = "findNetwork" /\ FindNetwork(p) /\ pc'[p] = "nothing" /\ p \notin faulted'
    BY <2>1, <2>3 DEF FindNetwork, Step, Goto, Quiet, daemonVars, ghostVars, TypeOK,
       DaemonInv, SmoothFacts, Volumes, NothingLeft
  <2>4. \/ pc'[p] = "destroyed" /\ pc[p] = "removeNetwork" /\ RemoveNetwork(p)
        \/ pc'[p] = "nothing" /\ pc[p] = "findNetwork" /\ FindNetwork(p)
    BY <1>1, DestroyEnds
  <2>5. pc'[p] = "nothing" => p \notin faulted'
    BY DEF Finishes
  <2> QED BY <2>2, <2>3, <2>4, <2>5
<1>2. Inv /\ [Next]_vars => [\A p \in Procs \ overlapped : DestroyDeliversAt(p)]_vars
  BY <1>1
<1> QED BY <1>2, Invariance, PTL DEF Spec, DestroyDelivers
-----------------------------------------------------------------------------
(***************************************************************************)
(* Starts that race: while no director runs, some process is on its way to *)
(* making one run, or has yet to run another command.                      *)
(***************************************************************************)

\* p was disturbed or ended without a start, or has a way to the next container whatever
\* the state of the present one.
Restarts(p) ==
  \/ p \in faulted
  \/ pc[p] \in Outcomes \ {"idle", "started", "already", "failed"}
  \/ pc[p] \in {"isRunning", "pullImage", "inspectStore", "inspectData", "createStore",
                "createData", "inspectNetwork", "exists", "removeStopped", "stopIsRunning"}
  \/ pc[p] \in DestroyCalls \ WipeCalls

\* Or it has one from the present state: it finds the name free, or the container is its own.
Proceeds(p) ==
  \/ Restarts(p)
  \/ director = "absent" /\ pc[p] \in {"upgradePoll", "upgradeVerify", "create", "removeStore"}
  \/ director = "created" /\ owner = p /\ pc[p] \in {"copyVars", "startContainer"}

\* No director runs, but everything one needs is there.
Wanting == faults = 0 /\ volumes = Volumes /\ network /\ director # "running"

SomeProceeds == Wanting => \E p \in Procs : Proceeds(p)

\* A process that moves goes on itself, or leaves the one that does alone.
LEMMA OneProceeds ==
  ASSUME SomeProceeds, NEW p \in Procs,
         \A q \in Procs \ {p} : pc'[q] = pc[q], faulted \ {p} \subseteq faulted',
         Wanting' => \/ Proceeds(p)'
                     \/ /\ Wanting /\ UNCHANGED <<director, owner>>
                        /\ Proceeds(p) => Proceeds(p)'
  PROVE  SomeProceeds'
<1>1. \A q \in Procs \ {p} :
        Proceeds(q) /\ UNCHANGED <<director, owner>> => Proceeds(q)'
  BY DEF Proceeds, Restarts
<1> QED BY <1>1 DEF SomeProceeds

\* Everything a start does.
LEMMA StartProceeds ==
  ASSUME TypeOK, SomeProceeds, NEW p \in Procs, StartAction(p)
  PROVE  SomeProceeds'
<1> USE DEF Step, Goto, Quiet, daemonVars, localVars, ghostVars, TypeOK
<1>1. \A q \in Procs \ {p} : pc'[q] = pc[q]
  BY DEF StartAction, IsRunning, CheckUpgrade, UpgradeRemove, UpgradePoll,
     UpgradeVerify, PullImage, InspectVolume, CreateVolume, InspectNetwork,
     CreateNetwork, Exists, RemoveStopped, ContainerCreate, CopyVars, ContainerStart,
     WaitRunning, WaitInfo, GetDirectorConfig, UpdateCloudConfig, UploadStemcells
<1>2. faulted' = faulted /\ faults' = faults
  BY DEF StartAction, IsRunning, CheckUpgrade, UpgradeRemove, UpgradePoll,
     UpgradeVerify, PullImage, InspectVolume, CreateVolume, InspectNetwork,
     CreateNetwork, Exists, RemoveStopped, ContainerCreate, CopyVars, ContainerStart,
     WaitRunning, WaitInfo, GetDirectorConfig, UpdateCloudConfig, UploadStemcells
<1> DEFINE Goal == Wanting' => \/ Proceeds(p)'
                               \/ /\ Wanting /\ UNCHANGED <<director, owner>>
                                  /\ Proceeds(p) => Proceeds(p)'
<1>3. ASSUME \/ IsRunning(p) \/ CheckUpgrade(p) \/ UpgradePoll(p) \/ UpgradeVerify(p)
             \/ PullImage(p) \/ InspectNetwork(p) \/ Exists(p)
             \/ \E v \in Volumes : InspectVolume(p, v)
      PROVE  Goal
  <2>1. CASE IsRunning(p)
    BY <1>2, <2>1 DEF IsRunning, ForceRemove, Proceeds, Restarts, Wanting
  <2>2. CASE CheckUpgrade(p)
    BY <1>2, <2>2 DEF CheckUpgrade, ForceRemove, Proceeds, Restarts, Wanting
  <2>3. CASE UpgradePoll(p)
    BY <1>2, <2>3 DEF UpgradePoll, ForceRemove, Proceeds, Restarts, Wanting
  <2>4. CASE UpgradeVerify(p)
    BY <1>2, <2>4 DEF UpgradeVerify, ForceRemove, Proceeds, Restarts, Wanting
  <2>5. CASE PullImage(p)
    BY <1>2, <2>5 DEF PullImage, ForceRemove, Proceeds, Restarts, Wanting
  <2>6. CASE InspectNetwork(p)
    BY <1>2, <2>6 DEF InspectNetwork, ForceRemove, Proceeds, Restarts, Wanting
  <2>7. CASE Exists(p)
    BY <1>2, <2>7 DEF Exists, ForceRemove, Proceeds, Restarts, Wanting
  <2>8. ASSUME NEW v \in Volumes, InspectVolume(p, v) PROVE Goal
    BY <1>2, <2>8 DEF InspectVolume, Proceeds, Restarts, Wanting
  <2> QED BY <1>3, <2>1, <2>2, <2>3, <2>4, <2>5, <2>6, <2>7, <2>8
<1>6. ASSUME \/ CopyVars(p) \/ WaitRunning(p) \/ WaitInfo(p) \/ GetDirectorConfig(p)
             \/ UpdateCloudConfig(p) \/ UploadStemcells(p)
      PROVE  Goal
  BY <1>2, <1>6 DEF CopyVars, WaitRunning, WaitInfo, GetDirectorConfig, UpdateCloudConfig,
     UploadStemcells, Proceeds, Restarts, Wanting
<1>4. ASSUME \/ UpgradeRemove(p) \/ CreateNetwork(p) \/ RemoveStopped(p)
             \/ ContainerCreate(p) \/ ContainerStart(p)
             \/ \E v \in Volumes : CreateVolume(p, v)
      PROVE  Goal
  BY <1>2, <1>4 DEF UpgradeRemove, CreateNetwork, RemoveStopped, ContainerCreate,
     ContainerStart, CreateVolume, ForceRemove, Proceeds, Restarts, Wanting
<1>5. Goal
  BY <1>3, <1>4, <1>6 DEF StartAction
<1> HIDE DEF TypeOK
<1> QED BY <1>1, <1>2, <1>5, OneProceeds

\* Everything a stop or a destroy does: what it takes away it makes p's to bring back.
LEMMA StopProceeds ==
  ASSUME TypeOK, SomeProceeds, NEW p \in Procs, StopAction(p) \/ DestroyAction(p)
  PROVE  SomeProceeds'
<1> USE DEF Step, Goto, Quiet, daemonVars, localVars, ghostVars, TypeOK
<1>1. /\ \A q \in Procs \ {p} : pc'[q] = pc[q]
      /\ faulted' = faulted /\ faults' = faults
  BY DEF StopAction, StopIsRunning, StopContainer, DestroyAction, Confirm, FindContainer,
     FindStore, FindData, FindNetwork, ListVMs, RemoveVMs, RemoveDirector, RemoveStore,
     RemoveData, RemoveNetwork
<1> DEFINE Goal == Wanting' => \/ Proceeds(p)'
                               \/ /\ Wanting /\ UNCHANGED <<director, owner>>
                                  /\ Proceeds(p) => Proceeds(p)'
<1>2. ASSUME StopIsRunning(p) \/ StopContainer(p) \/ Confirm(p) \/ RemoveDirector(p) PROVE Goal
  <2>1. CASE StopIsRunning(p)
    BY <1>1, <2>1 DEF StopIsRunning, ForceRemove, Proceeds, Restarts, Wanting
  <2>2. CASE StopContainer(p)
    BY <1>1, <2>2 DEF StopContainer, ForceRemove, Proceeds, Restarts, Wanting
  <2>3. CASE Confirm(p)
    BY <1>1, <2>3 DEF Confirm, ForceRemove, Proceeds, Restarts, Wanting
  <2>4. CASE RemoveDirector(p)
    BY <1>1, <2>4 DEF RemoveDirector, ForceRemove, Proceeds, Restarts, Wanting
  <2> QED BY <1>2, <2>1, <2>2, <2>3, <2>4
<1>3. ASSUME FindContainer(p) \/ FindStore(p) \/ FindData(p) \/ FindNetwork(p) PROVE Goal
  <2>1. CASE FindContainer(p)
    BY <1>1, <2>1 DEF FindContainer, ForceRemove, Proceeds, Restarts, Wanting
  <2>2. CASE FindStore(p)
    BY <1>1, <2>2 DEF FindStore, ForceRemove, Proceeds, Restarts, Wanting
  <2>3. CASE FindData(p)
    BY <1>1, <2>3 DEF FindData, ForceRemove, Proceeds, Restarts, Wanting
  <2>4. CASE FindNetwork(p)
    BY <1>1, <2>4 DEF FindNetwork, ForceRemove, Proceeds, Restarts, Wanting
  <2> QED BY <1>3, <2>1, <2>2, <2>3, <2>4
<1>4. ASSUME ListVMs(p) \/ RemoveVMs(p) PROVE Goal
  BY <1>1, <1>4 DEF ListVMs, RemoveVMs, Proceeds, Restarts, Wanting
<1>5. ASSUME RemoveStore(p) PROVE Goal
  BY <1>1, <1>5 DEF RemoveStore, VolumeInUse, Proceeds, Restarts, Wanting, Volumes
<1>6. ASSUME RemoveData(p) \/ RemoveNetwork(p) PROVE Goal
  BY <1>1, <1>6 DEF RemoveData, RemoveNetwork, VolumeInUse, NetworkInUse, Proceeds, Restarts,
     Wanting, Volumes
<1>7. Goal
  BY <1>2, <1>3, <1>4, <1>5, <1>6 DEF StopAction, DestroyAction
<1> HIDE DEF TypeOK
<1> QED BY <1>1, <1>7, OneProceeds

\* The rest: failures, and what the daemon and the director do.
LEMMA OtherProceeds ==
  ASSUME TypeOK, SomeProceeds,
         (\E p \in Procs : Begin(p) \/ Trouble(p)) \/ Environment
  PROVE  SomeProceeds'
<1> USE DEF Step, Goto, daemonVars, localVars, ghostVars, TypeOK
<1>1. ASSUME NEW p \in Procs, Begin(p) PROVE SomeProceeds'
  <2>1. pc'[p] \in {"isRunning", "stopIsRunning", "confirm"}
        /\ \A q \in Procs \ {p} : pc'[q] = pc[q]
    BY <1>1, CommandsAssumption DEF Begin, FirstCall
  <2>2. Proceeds(p)' /\ faulted \ {p} \subseteq faulted'
    BY <1>1, <2>1 DEF Begin, Proceeds, Restarts
  <2> QED BY <2>1, <2>2, OneProceeds
<1>2. ASSUME NEW p \in Procs, Fault(p) \/ Interrupt(p) PROVE SomeProceeds'
  <2>1. faults' = faults + 1 /\ faults \in Nat
    BY <1>2 DEF Fault, Interrupt
  <2> QED BY <2>1 DEF SomeProceeds, Wanting
<1>3. ASSUME NEW p \in Procs, RemovalInProgress(p) \/ WaitTimeout(p) PROVE SomeProceeds'
  <2>1. Proceeds(p)' /\ faulted \ {p} \subseteq faulted'
        /\ \A q \in Procs \ {p} : pc'[q] = pc[q]
    BY <1>3 DEF RemovalInProgress, WaitTimeout, Proceeds, Restarts
  <2> QED BY <2>1, OneProceeds
<1>4. ASSUME Reap PROVE SomeProceeds'
  <2>1. Wanting' => Wanting /\ director = "exited" /\ pc' = pc /\ faulted' = faulted
    BY <1>4 DEF Reap, ForceRemove, Wanting
  <2>2. \A q \in Procs : Wanting' /\ Proceeds(q) => Proceeds(q)'
    BY <2>1 DEF Proceeds, Restarts
  <2> QED BY <2>1, <2>2 DEF SomeProceeds
<1>5. ASSUME Boot \/ \E v \in VMs : CreateVM(v) \/ DeleteVM(v) PROVE SomeProceeds'
  <2>1. /\ UNCHANGED <<director, owner, volumes, network, pc, faults>>
        /\ faulted \subseteq faulted'
    BY <1>5 DEF Boot, CreateVM, DeleteVM
  <2>2. \A q \in Procs : Proceeds(q) => Proceeds(q)'
    BY <2>1 DEF Proceeds, Restarts
  <2> QED BY <2>1, <2>2 DEF SomeProceeds, Wanting
<1>6. ASSUME Crash PROVE SomeProceeds'
  BY <1>6, MaxFaultsAssumption DEF Crash, SomeProceeds, Wanting
<1> QED BY <1>1, <1>2, <1>3, <1>4, <1>5, <1>6 DEF Trouble, Environment

\* Starts that race each other, or that a stop or a destroy overtakes, do not all lose
\* (start.go, docker_cpi.go), however many shells there are.
THEOREM StartsWin == Spec => []SomeStartWins
<1>1. Init => SomeProceeds
  BY DEF Init, SomeProceeds, Wanting
<1>2. Inv /\ SomeProceeds /\ [Next]_vars => SomeProceeds'
  <2> SUFFICES ASSUME Inv, SomeProceeds, [Next]_vars PROVE SomeProceeds'
    OBVIOUS
  <2>1. TypeOK
    BY DEF Inv
  <2>2. CASE Next
    BY <2>1, <2>2, StartProceeds, StopProceeds, OtherProceeds DEF Next, Command
  <2>3. CASE UNCHANGED vars
    BY <2>3 DEF vars, daemonVars, localVars, ghostVars, SomeProceeds, Wanting, Proceeds, Restarts
  <2> QED BY <2>2, <2>3
<1>3. SomeProceeds => SomeStartWins
  BY DEF SomeProceeds, Wanting, Proceeds, Restarts, SomeStartWins, Volumes
<1> QED BY <1>1, <1>2, <1>3, Invariance, PTL DEF Spec

-----------------------------------------------------------------------------
\* The implementation of DirectorPromise.
up == director = "running"

\* A step of the promise, or a stutter.
Kept == [Promise!PromiseNext]_Promise!promiseVars

\* The labels of a confirmed destroy.
WipingCalls == DestroyCalls \ {"confirm"}

\* A step that neither starts nor ends the director nor touches its store only
\* confirms or ends a destroy, at most.
LEMMA Untouched ==
  ASSUME up' <=> up, content' = content
  PROVE  Kept
BY Zenon DEF up, Kept, Promise!PromiseNext, Promise!promiseVars, Promise!Judge, Condemned

\* A step of p within its command, or of the environment, condemns and absolves nothing.
LEMMA StillCondemned ==
  ASSUME Inv, NEW p \in Procs, Moves(p), pc[p] \in WipingCalls <=> pc'[p] \in WipingCalls
  PROVE  Condemned' <=> Condemned
BY DEF Inv, TypeOK, Moves, Goto, Condemned, WipingCalls

LEMMA Exits ==
  ASSUME Condemned' <=> Condemned, content' = content, ~up'
  PROVE  Kept
BY Zenon DEF up, Kept, Promise!PromiseNext, Promise!promiseVars, Promise!Exit

LEMMA Launches ==
  ASSUME Condemned' <=> Condemned, content' = content, ~up, up'
  PROVE  Kept
BY Zenon DEF up, Kept, Promise!PromiseNext, Promise!promiseVars, Promise!Launch

LEMMA Records ==
  ASSUME Condemned' <=> Condemned, content \subseteq content', content' \subseteq Content, up, up'
  PROVE  Kept
<1>1. content' \in SUBSET Content
  OBVIOUS
<1> QED BY Zenon, <1>1 DEF up, Kept, Promise!PromiseNext, Promise!promiseVars,
                           Promise!Record

LEMMA Wipes ==
  ASSUME Condemned' <=> Condemned, Condemned, content' = {}, ~up, ~up'
  PROVE  Kept
BY Zenon DEF up, Kept, Promise!PromiseNext, Promise!promiseVars, Promise!Wipe

LEMMA StartKeeps == ASSUME Inv, Inv', NEW p \in Procs, StartAction(p) PROVE Kept
<1>1. CASE UpgradeRemove(p) \/ RemoveStopped(p)
  <2>1. Condemned' <=> Condemned
    <3>1. Moves(p) /\ (pc[p] \in WipingCalls <=> pc'[p] \in WipingCalls)
      BY <1>1 DEF Inv, TypeOK, Moves, Step, Goto, UpgradeRemove, RemoveStopped, WipingCalls
    <3> QED BY <3>1, StillCondemned
  <2> QED BY <1>1, <2>1, Exits DEF UpgradeRemove, RemoveStopped, ForceRemove, up
<1>2. CASE ContainerStart(p)
  <2>1. Condemned' <=> Condemned
    <3>1. Moves(p) /\ (pc[p] \in WipingCalls <=> pc'[p] \in WipingCalls)
      BY <1>2 DEF Inv, TypeOK, Moves, Step, Goto, ContainerStart, WipingCalls
    <3> QED BY <3>1, StillCondemned
  <2>2. CASE director = "created" /\ director' = "running" /\ content' = content
    BY <2>1, <2>2, Launches DEF up
  <2>3. CASE ~(director = "created" /\ director' = "running") /\ content' = content
    BY <1>2, <2>3, Untouched DEF ContainerStart, ForceRemove, daemonVars, up
  <2> QED BY <1>2, <2>2, <2>3 DEF ContainerStart, ForceRemove, daemonVars
<1>3. CASE UpdateCloudConfig(p) \/ UploadStemcells(p)
  <2>1. Condemned' <=> Condemned
    <3>1. Moves(p) /\ (pc[p] \in WipingCalls <=> pc'[p] \in WipingCalls)
      BY <1>3 DEF Inv, TypeOK, Moves, Step, Goto, UpdateCloudConfig, UploadStemcells,
                  WipingCalls
    <3> QED BY <3>1, StillCondemned
  <2>2. CASE content' = content
    BY <1>3, <2>2, Untouched DEF UpdateCloudConfig, UploadStemcells, up
  <2>3. CASE content' # content
    <3>1. ready /\ content \subseteq content' /\ director' = director
      BY <1>3, <2>3 DEF UpdateCloudConfig, UploadStemcells
    <3>2. up /\ content' \subseteq Content
      BY <3>1 DEF Inv, DaemonInv, TypeOK, up
    <3> QED BY <2>1, <3>1, <3>2, Records DEF up
  <2> QED BY <2>2, <2>3
<1>4. ASSUME ~UpgradeRemove(p), ~RemoveStopped(p), ~ContainerStart(p),
             ~UpdateCloudConfig(p), ~UploadStemcells(p)
      PROVE  (up' <=> up) /\ content' = content
  BY <1>4 DEF StartAction, IsRunning, CheckUpgrade, UpgradePoll, UpgradeVerify,
     PullImage, InspectVolume, CreateVolume, InspectNetwork, CreateNetwork, Exists,
     ContainerCreate, CopyVars, WaitRunning, WaitInfo, GetDirectorConfig, ExecCommand, Quiet,
     daemonVars, up
<1> QED BY <1>1, <1>2, <1>3, <1>4, Untouched

LEMMA StopKeeps == ASSUME Inv, NEW p \in Procs, StopAction(p) PROVE Kept
<1>1. CASE StopIsRunning(p)
  BY <1>1, Untouched DEF StopIsRunning, Quiet, daemonVars, up
<1>2. CASE StopContainer(p)
  <2>1. Condemned' <=> Condemned
    <3>1. Moves(p) /\ (pc[p] \in WipingCalls <=> pc'[p] \in WipingCalls)
      BY <1>2 DEF Inv, TypeOK, Moves, Step, Goto, StopContainer, WipingCalls
    <3> QED BY <3>1, StillCondemned
  <2> QED BY <1>2, <2>1, Exits DEF StopContainer, up
<1> QED BY <1>1, <1>2 DEF StopAction

LEMMA DestroyKeeps == ASSUME Inv, NEW p \in Procs, DestroyAction(p) PROVE Kept
<1>1. CASE RemoveDirector(p)
  <2>1. Condemned' <=> Condemned
    <3>1. Moves(p) /\ (pc[p] \in WipingCalls <=> pc'[p] \in WipingCalls)
      BY <1>1 DEF Inv, TypeOK, Moves, Step, Goto, RemoveDirector, WipingCalls
    <3> QED BY <3>1, StillCondemned
  <2> QED BY <1>1, <2>1, Exits DEF RemoveDirector, ForceRemove, up
<1>2. CASE RemoveStore(p)
  <2>1. CASE VolumeInUse
    BY <1>2, <2>1, Untouched DEF RemoveStore, up
  <2>2. CASE ~VolumeInUse
    <3>1. Condemned' <=> Condemned
      <4>1. Moves(p) /\ (pc[p] \in WipingCalls <=> pc'[p] \in WipingCalls)
        BY <1>2, <2>2 DEF Inv, TypeOK, Moves, Step, Goto, RemoveStore, WipingCalls
      <4> QED BY <4>1, StillCondemned
    <3>2. Condemned
      BY <1>2 DEF RemoveStore, Step, Condemned
    <3> QED BY <1>2, <2>2, <3>1, <3>2, Wipes DEF RemoveStore, VolumeInUse, up
  <2> QED BY <2>1, <2>2
<1>3. ASSUME ~RemoveDirector(p), ~RemoveStore(p) PROVE (up' <=> up) /\ content' = content
  BY <1>3 DEF DestroyAction, Confirm, FindContainer, FindStore, FindData, FindNetwork,
     ListVMs, RemoveVMs, RemoveData, RemoveNetwork, Quiet, daemonVars, up
<1> QED BY <1>1, <1>2, <1>3, Untouched

LEMMA EnvironmentKeeps == ASSUME Inv, Inv', Environment PROVE Kept
<1>1. CASE Reap \/ Crash
  <2>1. Condemned' <=> Condemned
    BY <1>1 DEF Reap, Crash, Condemned
  <2> QED BY <1>1, <2>1, Exits DEF Reap, Crash, ForceRemove, up
<1>2. CASE Boot
  <2>1. Condemned' <=> Condemned
    BY <1>2 DEF Boot, Condemned
  <2>2. content' \subseteq Content
    BY DEF Inv, TypeOK
  <2> QED BY <1>2, <2>1, <2>2, Records DEF Boot, up
<1>3. ASSUME NEW v \in VMs, CreateVM(v) \/ DeleteVM(v) PROVE Kept
  BY <1>3, Untouched DEF CreateVM, DeleteVM, up
<1> QED BY <1>1, <1>2, <1>3 DEF Environment

LEMMA NextKeeps == ASSUME Inv, Inv', [Next]_vars PROVE Kept
<1>1. CASE UNCHANGED vars
  BY <1>1, Untouched DEF vars, daemonVars, up
<1>2. ASSUME NEW p \in Procs, Begin(p) \/ Trouble(p) PROVE Kept
  BY <1>2, Untouched DEF Begin, Trouble, Fault, RemovalInProgress, WaitTimeout,
     Interrupt, daemonVars, up
<1>3. ASSUME NEW p \in Procs, Command(p) PROVE Kept
  BY <1>3, StartKeeps, StopKeeps, DestroyKeeps DEF Command
<1> QED BY <1>1, <1>2, <1>3, EnvironmentKeeps DEF Next

\* Whatever commands run at once, fail or are interrupted, the director's store is
\* lost only to a confirmed destroy, and never under a running director.
THEOREM ImplementsPromise == Spec => PromiseKept
<1>1. Init => Promise!PromiseInit
  BY DEF Init, Promise!PromiseInit, Condemned
<1>2. Inv /\ Inv' /\ [Next]_vars => [Promise!PromiseNext]_Promise!promiseVars
  BY NextKeeps DEF Kept
<1> QED BY <1>1, <1>2, Invariance, PTL DEF Spec, PromiseKept, Promise!PromiseSpec
=============================================================================

------------------------ MODULE IncusLifecycleProofs ------------------------
(***************************************************************************)
(* Theorems about IncusLifecycle, for any number of shells, pools,         *)
(* networks and faults.                                                    *)
(***************************************************************************)
EXTENDS IncusLifecycle, TLAPS

USE PlacesAssumption, CommandsAssumption, MaxFaultsAssumption

\* The labels, which nearly every step compares.
USE DEF Calls, EnsureCalls, RemoveCalls, StartCalls, StopCalls, DestroyCalls, Outcomes,
        Returns, VolumeNames, Content, Waiting

\* p makes a call and goes on.
Moves(p) == pc[p] \in Calls /\ \E l \in Calls \cup Outcomes : Goto(p, l)

\* No other process's memory changes.
OwnMemory(p) ==
  \A q \in Procs \ {p} : after'[q] = after[q] /\ pool'[q] = pool[q] /\ net'[q] = net[q]

LEMMA InitInv == Init => Inv
<1> SUFFICES ASSUME Init PROVE Inv
  OBVIOUS
<1>1. TypeOK
  <2>1. /\ pc \in [Procs -> Calls \cup Outcomes]
        /\ after \in [Procs -> Returns]
        /\ faults \in 0 .. MaxFaults
    BY DEF Init
  <2> QED BY <2>1 DEF Init, TypeOK
<1>2. DaemonInv /\ LoneInv
  BY DEF Init, DaemonInv, LoneInv, Active
<1>3. ASSUME NEW p \in Procs PROVE CallFacts(p) /\ AloneFacts(p) /\ SmoothFacts(p)
  BY DEF Init, CallFacts, AloneFacts, InstanceFacts, PlaceFacts, DirectorFacts, Replacing,
         Recreating, Returning, SmoothFacts
<1> QED BY <1>1, <1>2, <1>3 DEF Inv

\* What is left to prove of a step of one process: the other commands in progress
\* overlap it, so nothing is claimed of them, and nothing is claimed of shells at rest.
LEMMA Frame ==
  ASSUME Inv, NEW p \in Procs, Moves(p), OwnMemory(p),
         overlapped' = overlapped, faulted \subseteq faulted',
         TypeOK', DaemonInv', CallFacts(p)',
         p \notin overlapped => AloneFacts(p)',
         p \notin overlapped /\ p \notin faulted' => SmoothFacts(p)'
  PROVE  Inv'
<1>1. LoneInv'
  BY DEF Inv, LoneInv, TypeOK, Active, Moves, Goto
<1>2. ASSUME NEW q \in Procs, q # p PROVE pc'[q] = pc[q] /\ UNCHANGED <<after[q], pool[q], net[q]>>
  BY <1>2 DEF Inv, TypeOK, Moves, Goto, OwnMemory
<1>3. ASSUME NEW q \in Procs, q # p, q \notin overlapped PROVE pc[q] \notin Calls
  BY <1>3 DEF Inv, LoneInv, Active, Moves
<1>4. ASSUME NEW q \in Procs PROVE CallFacts(q)'
  BY <1>2 DEF Inv, CallFacts, Returning
<1>5. ASSUME NEW q \in Procs, q \notin overlapped' PROVE AloneFacts(q)'
  <2>1. CASE q = p
    BY <1>5, <2>1
  <2>2. CASE q # p
    BY <1>2, <1>3, <1>5, <2>2 DEF AloneFacts, InstanceFacts, PlaceFacts, DirectorFacts,
                                  Replacing, Recreating, Returning
  <2> QED BY <2>1, <2>2
<1>6. ASSUME NEW q \in Procs, Undisturbed(q)' PROVE SmoothFacts(q)'
  <2>1. CASE q = p
    BY <1>6, <2>1 DEF Undisturbed
  <2>2. CASE q # p
    <3>1. SmoothFacts(q)
      BY <1>6 DEF Inv, Undisturbed
    <3> QED BY <1>2, <1>3, <1>6, <2>2, <3>1 DEF SmoothFacts, Undisturbed
  <2> QED BY <2>1, <2>2
<1> QED BY <1>1, <1>4, <1>5, <1>6 DEF Inv

-----------------------------------------------------------------------------
\* Calls that only look, and decide by what they see.

Look(p) ==
  \/ IsRunning(p) \/ CheckUpgrade(p) \/ UpgradePoll(p) \/ UpgradeVerify(p)
  \/ InspectNetwork(p) \/ Exists(p) \/ ReadCredentials(p)
  \/ WaitRunning(p) \/ WaitInfo(p) \/ StopIsRunning(p)
  \/ Confirm(p) \/ FindInstance(p) \/ FindNetwork(p)
  \/ GetInstance(p) \/ \E v \in VolumeNames : GetVolume(p, v)

LEMMA LookStep == ASSUME Inv, NEW p \in Procs, Look(p) PROVE Inv'
<1> USE DEF Look, IsRunning, CheckUpgrade, UpgradePoll, UpgradeVerify, InspectNetwork,
        Exists, ReadCredentials, WaitRunning, WaitInfo, StopIsRunning, Confirm,
        FindInstance, FindNetwork, GetInstance, GetVolume, Get, Create, Ensured,
        EnsureVolumes, RemoveContainer, Step, Goto, Quiet
<1>1. UNCHANGED <<serverVars, pool, net, authentic, ghostVars>>
  BY DEF localVars
<1>2. Moves(p)
  <2>1. pc[p] \in Calls /\ after[p] \in Calls
    BY DEF Inv, TypeOK
  <2> QED BY <2>1 DEF Moves
<1>3. OwnMemory(p)
  BY DEF Inv, TypeOK, OwnMemory, localVars
<1>4. TypeOK' /\ DaemonInv'
  <2>1. pc' \in [Procs -> Calls \cup Outcomes]
    BY <1>2 DEF Inv, TypeOK, Moves
  <2>2. after' \in [Procs -> Returns]
    BY DEF Inv, TypeOK, localVars
  <2>3. TypeOK'
    BY <1>1, <2>1, <2>2 DEF Inv, TypeOK, serverVars, ghostVars
  <2>4. DaemonInv'
    BY <1>1 DEF Inv, DaemonInv, serverVars
  <2> QED BY <2>3, <2>4
<1>5. CallFacts(p)'
  BY DEF Inv, TypeOK, CallFacts, Returning, localVars
<1>6. ASSUME p \notin overlapped PROVE AloneFacts(p)'
  <2>0. InstanceFacts(p) /\ PlaceFacts(p) /\ DirectorFacts(p) /\ CallFacts(p) /\ TypeOK
    BY <1>6 DEF Inv, AloneFacts
  <2>1. InstanceFacts(p)'
    BY <1>1, <2>0 DEF TypeOK, CallFacts, InstanceFacts, Replacing, Recreating, Returning,
                      serverVars, localVars
  <2>2. PlaceFacts(p)'
    BY <1>1, <2>0 DEF TypeOK, CallFacts, PlaceFacts, Replacing, Recreating, Returning,
                      serverVars, localVars
  <2>3. DirectorFacts(p)'
    BY <1>1, <2>0 DEF TypeOK, CallFacts, DirectorFacts, serverVars, localVars
  <2> QED BY <2>1, <2>2, <2>3 DEF AloneFacts
<1>7. ASSUME p \notin overlapped, p \notin faulted PROVE SmoothFacts(p)'
  BY <1>1, <1>7 DEF Inv, TypeOK, DaemonInv, CallFacts, Undisturbed, AloneFacts,
                    InstanceFacts, Replacing, Recreating, Returning, SmoothFacts, serverVars,
                    localVars
<1> QED BY <1>1, <1>2, <1>3, <1>4, <1>5, <1>6, <1>7, Frame DEF ghostVars

-----------------------------------------------------------------------------
\* Calls that change something, failures and interruptions.

InstanceCall(p) ==
  \/ StopInstance(p) \/ DeleteInstance(p) \/ CreateInstance(p) \/ WriteVars(p)
  \/ StartInstance(p) \/ StopContainer(p)

LEMMA InstanceCallStep == ASSUME Inv, NEW p \in Procs, InstanceCall(p) PROVE Inv'
<1> USE DEF InstanceCall, Step, Goto, StopInstance, DeleteInstance, CreateInstance,
            WriteVars, StartInstance, StopContainer
<1>1. Moves(p) /\ OwnMemory(p)
  BY DEF Inv, TypeOK, CallFacts, Moves, OwnMemory, localVars
<1>2. overlapped' = overlapped /\ faulted \subseteq faulted'
  BY DEF ghostVars
<1>3. TypeOK'
  <2>1. pc' \in [Procs -> Calls \cup Outcomes]
    BY <1>1 DEF Inv, TypeOK, Moves
  <2>2. instance' \in {"absent", "stopped", "running"} /\ home' \in Pools
    BY DEF Inv, TypeOK
  <2> QED BY <2>1, <2>2 DEF Inv, TypeOK, localVars, ghostVars
<1>4. DaemonInv'
  BY DEF Inv, TypeOK, DaemonInv, CallFacts, localVars
<1>5. CallFacts(p)'
  BY DEF Inv, TypeOK, CallFacts, Returning, localVars
<1>6. ASSUME p \notin overlapped PROVE AloneFacts(p)'
  <2>0. InstanceFacts(p) /\ PlaceFacts(p) /\ DirectorFacts(p) /\ CallFacts(p) /\ DaemonInv /\ TypeOK
    BY <1>6 DEF Inv, AloneFacts
  <2>1. InstanceFacts(p)'
    BY <2>0 DEF TypeOK, DaemonInv, CallFacts, InstanceFacts, Replacing, Recreating,
                Returning, localVars
  <2>2. PlaceFacts(p)'
    BY <2>0 DEF TypeOK, DaemonInv, CallFacts, PlaceFacts, InstanceFacts, Replacing,
                Recreating, Returning, localVars
  <2>3. DirectorFacts(p)'
    BY <2>0 DEF TypeOK, DaemonInv, CallFacts, DirectorFacts, InstanceFacts, PlaceFacts,
                Returning, localVars
  <2> QED BY <2>1, <2>2, <2>3 DEF AloneFacts
<1>7. ASSUME p \notin overlapped, p \notin faulted' PROVE SmoothFacts(p)'
  <2>0. /\ InstanceFacts(p) /\ PlaceFacts(p) /\ DirectorFacts(p) /\ CallFacts(p)
        /\ SmoothFacts(p) /\ DaemonInv /\ TypeOK
    BY <1>2, <1>7 DEF Inv, AloneFacts, Undisturbed
  <2> QED BY <1>7, <2>0 DEF TypeOK, DaemonInv, CallFacts, InstanceFacts, PlaceFacts,
                            DirectorFacts,
                      SmoothFacts, Replacing, Recreating, Returning, localVars
<1> QED BY <1>1, <1>2, <1>3, <1>4, <1>5, <1>6, <1>7, Frame

PlaceCall(p) ==
  \/ CreateNetwork(p) \/ RemoveStore(p) \/ RemoveData(p)
  \/ GetDirectorConfig(p) \/ UpdateCloudConfig(p)
  \/ \E v \in VolumeNames : CreateVolume(p, v)

LEMMA PlaceCallStep == ASSUME Inv, NEW p \in Procs, PlaceCall(p) PROVE Inv'
<1> USE DEF PlaceCall, Step, Goto, CreateNetwork, RemoveStore, RemoveData,
            GetDirectorConfig, UpdateCloudConfig, CreateVolume, Create, Ensured,
        VolumeInUse, serverVars
<1>1. Moves(p) /\ OwnMemory(p)
  BY DEF Inv, TypeOK, CallFacts, Moves, OwnMemory, localVars
<1>2. overlapped' = overlapped /\ faulted \subseteq faulted'
  BY DEF ghostVars
<1>3. TypeOK'
  BY DEF Inv, TypeOK, CallFacts, localVars, ghostVars
<1>4. DaemonInv'
  BY DEF Inv, TypeOK, DaemonInv, CallFacts, localVars
<1>5. CallFacts(p)'
  BY DEF Inv, TypeOK, CallFacts, Returning, localVars
<1>6. ASSUME p \notin overlapped PROVE AloneFacts(p)'
  <2>0. InstanceFacts(p) /\ PlaceFacts(p) /\ DirectorFacts(p) /\ CallFacts(p) /\ DaemonInv /\ TypeOK
    BY <1>6 DEF Inv, AloneFacts
  <2>1. InstanceFacts(p)'
    BY <2>0 DEF TypeOK, DaemonInv, CallFacts, InstanceFacts, Replacing, Recreating,
                Returning, localVars
  <2>2. PlaceFacts(p)'
    BY <2>0 DEF TypeOK, DaemonInv, CallFacts, PlaceFacts, InstanceFacts, Replacing,
                Recreating, Returning, localVars
  <2>3. DirectorFacts(p)'
    BY <2>0 DEF TypeOK, DaemonInv, CallFacts, DirectorFacts, InstanceFacts, PlaceFacts,
                Returning, localVars
  <2> QED BY <2>1, <2>2, <2>3 DEF AloneFacts
<1>7. ASSUME p \notin overlapped, p \notin faulted' PROVE SmoothFacts(p)'
  <2>0. /\ InstanceFacts(p) /\ PlaceFacts(p) /\ DirectorFacts(p) /\ CallFacts(p)
        /\ SmoothFacts(p) /\ DaemonInv /\ TypeOK
    BY <1>2, <1>7 DEF Inv, AloneFacts, Undisturbed
  <2> QED BY <1>7, <2>0 DEF TypeOK, DaemonInv, CallFacts, InstanceFacts, PlaceFacts,
                            DirectorFacts,
                      SmoothFacts, Replacing, Recreating, Returning, localVars
<1> QED BY <1>1, <1>2, <1>3, <1>4, <1>5, <1>6, <1>7, Frame

Trouble(p) ==
  \/ Fault(p) \/ Interrupt(p) \/ WaitTimeout(p)

LEMMA TroubleStep == ASSUME Inv, NEW p \in Procs, Trouble(p) PROVE Inv'
<1> USE DEF Trouble, Step, Goto, Fault, Interrupt, WaitTimeout, OnError, Active, serverVars
<1>1. Moves(p) /\ OwnMemory(p)
  BY DEF Inv, TypeOK, CallFacts, Moves, OwnMemory, localVars
<1>2. overlapped' = overlapped /\ faulted \subseteq faulted'
  BY DEF ghostVars
<1>3. TypeOK'
  BY DEF Inv, TypeOK, CallFacts, localVars, ghostVars
<1>4. DaemonInv'
  BY DEF Inv, TypeOK, DaemonInv, CallFacts, localVars
<1>5. CallFacts(p)'
  BY DEF Inv, TypeOK, CallFacts, Returning, localVars
<1>6. ASSUME p \notin overlapped PROVE AloneFacts(p)'
  <2>0. InstanceFacts(p) /\ PlaceFacts(p) /\ DirectorFacts(p) /\ CallFacts(p) /\ DaemonInv /\ TypeOK
    BY <1>6 DEF Inv, AloneFacts
  <2>1. InstanceFacts(p)'
    BY <2>0 DEF TypeOK, DaemonInv, CallFacts, InstanceFacts, Replacing, Recreating,
                Returning, localVars
  <2>2. PlaceFacts(p)'
    BY <2>0 DEF TypeOK, DaemonInv, CallFacts, PlaceFacts, InstanceFacts, Replacing,
                Recreating, Returning, localVars
  <2>3. DirectorFacts(p)'
    BY <2>0 DEF TypeOK, DaemonInv, CallFacts, DirectorFacts, InstanceFacts, PlaceFacts,
                Returning, localVars
  <2> QED BY <2>1, <2>2, <2>3 DEF AloneFacts
<1>7. ASSUME p \notin overlapped, p \notin faulted' PROVE SmoothFacts(p)'
  <2>0. /\ InstanceFacts(p) /\ PlaceFacts(p) /\ DirectorFacts(p) /\ CallFacts(p)
        /\ SmoothFacts(p) /\ DaemonInv /\ TypeOK
    BY <1>2, <1>7 DEF Inv, AloneFacts, Undisturbed
  <2> QED BY <1>7, <2>0 DEF TypeOK, DaemonInv, CallFacts, InstanceFacts, PlaceFacts,
                            DirectorFacts,
                      SmoothFacts, Replacing, Recreating, Returning, localVars
<1> QED BY <1>1, <1>2, <1>3, <1>4, <1>5, <1>6, <1>7, Frame

-----------------------------------------------------------------------------
\* A new command.

LEMMA BeginStep == ASSUME Inv, NEW p \in Procs, Begin(p) PROVE Inv'
<1> DEFINE others == {q \in Procs \ {p} : Active(q)}
<1> USE DEF Begin, FirstCall, Places, Goto
<1>1. /\ pc[p] \notin Calls
      /\ pc'[p] \in {"isRunning", "stopIsRunning", "confirm"}
      /\ pc'[p] = "confirm" => pool'[p] = DefaultPool
      /\ \A q \in Procs \ {p} : pc'[q] = pc[q] /\ UNCHANGED <<pool[q], net[q], after[q]>>
      /\ \A q \in Procs \ {p} : UNCHANGED authentic[q]
      /\ authentic'[p] = NoPool
  BY DEF Inv, TypeOK, Active
<1>2. TypeOK'
  <2>1. pc' \in [Procs -> Calls \cup Outcomes]
    BY DEF Inv, TypeOK
  <2>2. pool' \in [Procs -> Pools] /\ net' \in [Procs -> Networks]
    BY DEF Inv, TypeOK
  <2> QED BY <2>1, <2>2 DEF Inv, TypeOK, serverVars
<1>3. DaemonInv'
  BY <1>1 DEF Inv, TypeOK, DaemonInv, serverVars
<1>4. \A q \in Procs \ {p} : q \notin overlapped' => q \notin overlapped /\ ~Active(q)
  BY DEF Inv, LoneInv, Active
<1>5. p \notin overlapped' => others = {}
  OBVIOUS
<1>6. LoneInv'
  BY <1>1, <1>4, <1>5 DEF LoneInv, Active
<1>7. ASSUME NEW q \in Procs PROVE CallFacts(q)'
  BY <1>1 DEF Inv, CallFacts, Returning
<1>8. ASSUME NEW q \in Procs, q \notin overlapped' PROVE AloneFacts(q)'
  BY <1>1, <1>4, <1>8 DEF AloneFacts, InstanceFacts, PlaceFacts, DirectorFacts,
                          Replacing, Recreating, Returning, Active
<1>9. ASSUME NEW q \in Procs, Undisturbed(q)' PROVE SmoothFacts(q)'
  BY <1>1, <1>4, <1>9 DEF Inv, SmoothFacts, Undisturbed, Active, serverVars
<1> QED BY <1>2, <1>3, <1>6, <1>7, <1>8, <1>9 DEF Inv

-----------------------------------------------------------------------------
\* The director.

LEMMA DirectorStep == ASSUME Inv, Boot \/ Crash PROVE Inv'
<1> USE DEF Boot, Crash, localVars, ghostVars
<1>1. UNCHANGED <<pc, after, pool, net, overlapped>> /\ faulted \subseteq faulted'
  OBVIOUS
<1>2. TypeOK'
  <2>1. CASE Boot
    BY <2>1 DEF Inv, TypeOK
  <2>2. CASE Crash
    <3>1. faults' \in 0 .. MaxFaults
      BY <2>2 DEF Inv, TypeOK
    <3> QED BY <2>2, <3>1 DEF Inv, TypeOK
  <2> QED BY <2>1, <2>2
<1>3. DaemonInv'
  BY DEF Inv, TypeOK, DaemonInv
<1>4. LoneInv'
  BY <1>1 DEF Inv, LoneInv, Active
<1>5. ASSUME NEW p \in Procs PROVE CallFacts(p)'
  BY <1>1 DEF Inv, CallFacts, Returning
<1>6. ASSUME NEW p \in Procs, p \notin overlapped' PROVE AloneFacts(p)'
  BY <1>1, <1>6 DEF Inv, AloneFacts, InstanceFacts, PlaceFacts, DirectorFacts, Replacing,
                    Recreating, Returning
<1>7. ASSUME NEW p \in Procs, Undisturbed(p)' PROVE SmoothFacts(p)'
  BY <1>1, <1>7 DEF Inv, Undisturbed, SmoothFacts, Active
<1> QED BY <1>2, <1>3, <1>4, <1>5, <1>6, <1>7 DEF Inv

LEMMA StutterStep == ASSUME Inv, UNCHANGED vars PROVE Inv'
BY DEF Inv, TypeOK, DaemonInv, LoneInv, CallFacts, AloneFacts, InstanceFacts, PlaceFacts,
       DirectorFacts, Replacing, Recreating, Returning, SmoothFacts, Active, Undisturbed,
       vars, serverVars, localVars, ghostVars

LEMMA NextStep == ASSUME Inv, [Next]_vars PROVE Inv'
<1>1. CASE UNCHANGED vars
  BY <1>1, StutterStep
<1>2. ASSUME NEW p \in Procs, Begin(p) PROVE Inv'
  BY <1>2, BeginStep
<1>3. ASSUME NEW p \in Procs, Command(p) PROVE Inv'
  BY <1>3, LookStep, InstanceCallStep, PlaceCallStep
  DEF Look, InstanceCall, PlaceCall, Command, StartAction, StopAction, DestroyAction, Shared
<1>4. ASSUME NEW p \in Procs, Trouble(p) PROVE Inv'
  BY <1>4, TroubleStep
<1> QED BY <1>1, <1>2, <1>3, <1>4, DirectorStep DEF Next, Trouble

\* The inductive invariant holds in every state.
THEOREM Invariance == Spec => []Inv
BY InitInv, NextStep, PTL DEF Spec

\* Every variable keeps its type.
THEOREM TypeCorrect == Spec => []TypeOK
<1>1. Inv => TypeOK
  BY DEF Inv
<1> QED BY <1>1, Invariance, PTL

\* An undisturbed command never fails, whatever the commands before it left behind
\* (start.go, stop.go, destroy.go, incus_cpi.go).
THEOREM UndisturbedCommandsSucceed == Spec => []UndisturbedSucceeds
<1>1. Inv => UndisturbedSucceeds
  BY DEF Inv, UndisturbedSucceeds, SmoothFacts
<1> QED BY <1>1, Invariance, PTL

-----------------------------------------------------------------------------
\* A command ends at its own last call only.

LEMMA Ends ==
  ASSUME Inv, Next, NEW p \in Procs, Finishes(p, "started") \/ Finishes(p, "destroyed")
  PROVE  \/ pc'[p] = "started" /\ UpdateCloudConfig(p)
         \/ pc'[p] = "destroyed" /\ RemoveData(p)
<1> USE DEF Finishes, Active, Step, Goto
<1>0. pc[p] \in Calls /\ pc'[p] \in {"started", "destroyed"} /\ pc'[p] # pc[p] /\ TypeOK
  BY DEF Inv
<1>1. ASSUME NEW q \in Procs, Begin(q) PROVE FALSE
  BY <1>0, <1>1 DEF TypeOK, Begin, FirstCall
<1>2. ASSUME NEW q \in Procs, Look(q) PROVE FALSE
  BY <1>0, <1>2 DEF Inv, TypeOK, CallFacts, Look, IsRunning, CheckUpgrade, UpgradePoll,
                    UpgradeVerify,
     InspectNetwork, Exists, ReadCredentials, WaitRunning, WaitInfo, StopIsRunning,
     Confirm, FindInstance, FindNetwork, GetInstance, GetVolume, Get, Create, Ensured,
     EnsureVolumes, RemoveContainer
<1>3. ASSUME NEW q \in Procs, InstanceCall(q) PROVE FALSE
  BY <1>0, <1>3 DEF Inv, TypeOK, CallFacts, InstanceCall, StopInstance, DeleteInstance,
                    CreateInstance,
     WriteVars, StartInstance, StopContainer
<1>4. ASSUME NEW q \in Procs, PlaceCall(q)
      PROVE  \/ pc'[p] = "started" /\ UpdateCloudConfig(p)
             \/ pc'[p] = "destroyed" /\ RemoveData(p)
  <2>1. CASE UpdateCloudConfig(q) \/ RemoveData(q)
    BY <1>0, <2>1 DEF TypeOK, UpdateCloudConfig, RemoveData
  <2>2. CASE ~UpdateCloudConfig(q) /\ ~RemoveData(q)
    BY <1>0, <1>4, <2>2 DEF Inv, TypeOK, CallFacts, PlaceCall, CreateNetwork, RemoveStore,
       GetDirectorConfig, CreateVolume, Create, Ensured
  <2> QED BY <2>1, <2>2
<1>5. ASSUME NEW q \in Procs, Trouble(q) PROVE FALSE
  BY <1>0, <1>5 DEF TypeOK, Trouble, Fault, OnError, WaitTimeout, Interrupt
<1>6. ASSUME Boot \/ Crash PROVE FALSE
  BY <1>0, <1>6 DEF Boot, Crash
<1> QED BY <1>1, <1>2, <1>3, <1>4, <1>5, <1>6
        DEF Next, Command, StartAction, StopAction, DestroyAction, Shared, Look,
            InstanceCall, PlaceCall, Trouble

\* A lone start that ends well leaves a configured director where it was told to
\* (start.go, incus_cpi.go, client.go).
THEOREM StartsDeliver == Spec => StartDelivers
<1>1. ASSUME Inv, Next, NEW p \in Procs \ overlapped PROVE StartDeliversAt(p)
  <2> SUFFICES ASSUME Finishes(p, "started")
               PROVE  /\ home' = pool[p]
                      /\ content'[pool[p]] = Content
                      /\ \A v \in VolumeNames : <<pool[p], v>> \in volumes'
                      /\ net[p] \in networks'
                      /\ provisioned'
                      /\ p \notin faulted' => instance' = "running" /\ ready'
    BY DEF StartDeliversAt
  <2>1. UpdateCloudConfig(p) /\ pc'[p] = "started"
    BY <1>1, Ends DEF Finishes
  <2>2. PlaceFacts(p) /\ DirectorFacts(p) /\ DaemonInv /\ TypeOK
    BY <1>1 DEF Inv, AloneFacts
  <2>3. pc[p] = "cloudConfig" /\ ready /\ authentic[p] = home
    BY <2>1, <2>2 DEF UpdateCloudConfig, Step, Goto, TypeOK
  <2>4. home = pool[p] /\ net[p] \in networks /\ provisioned /\ instance = "running"
        /\ "creds" \in content[home] /\ \A v \in VolumeNames : <<home, v>> \in volumes
    BY <2>2, <2>3 DEF PlaceFacts, DirectorFacts, DaemonInv
  <2>5. content'[pool[p]] = Content
    BY <2>1, <2>2, <2>3, <2>4 DEF UpdateCloudConfig, TypeOK
  <2> QED BY <2>1, <2>3, <2>4, <2>5 DEF UpdateCloudConfig
<1>2. Inv /\ [Next]_vars => [\A p \in Procs \ overlapped : StartDeliversAt(p)]_vars
  BY <1>1
<1> QED BY <1>2, Invariance, PTL DEF Spec, StartDelivers

\* A lone destroy that reports completion leaves no instance, and no volume in the
\* default pool (destroy.go, incus_cpi.go:106-118).
THEOREM DestroysDeliver == Spec => DestroyDelivers
<1>1. ASSUME Inv, Next, NEW p \in Procs \ overlapped PROVE DestroyDeliversAt(p)
  <2> SUFFICES ASSUME Finishes(p, "destroyed")
               PROVE  instance' = "absent" /\ \A v \in VolumeNames : <<DefaultPool, v>> \notin volumes'
    BY DEF DestroyDeliversAt
  <2>1. RemoveData(p) /\ pc'[p] = "destroyed"
    BY <1>1, Ends DEF Finishes
  <2>2. pc[p] = "removeData" /\ pool[p] = DefaultPool /\ InstanceFacts(p) /\ PlaceFacts(p)
    BY <1>1, <2>1 DEF Inv, CallFacts, AloneFacts, RemoveData, Step
  <2>3. instance = "absent" /\ <<DefaultPool, "store">> \notin volumes
    BY <2>2 DEF InstanceFacts, PlaceFacts
  <2> QED BY <2>1, <2>2, <2>3 DEF RemoveData, VolumeInUse
<1>2. Inv /\ [Next]_vars => [\A p \in Procs \ overlapped : DestroyDeliversAt(p)]_vars
  BY <1>1
<1> QED BY <1>2, Invariance, PTL DEF Spec, DestroyDelivers

-----------------------------------------------------------------------------
(***************************************************************************)
(* IncusLifecycle implements DirectorPromise, whichever pool is watched.   *)
(***************************************************************************)

up == instance = "running" /\ home = Watched
kept == content[Watched]

\* A step of the promise, or a stutter.
Kept == [Promise!PromiseNext]_Promise!promiseVars

\* p is at a call of a confirmed destroy.
Wiping(p) == pc[p] \in DestroyCalls \ {"confirm"} \/ Returning(p, RemoveCalls, "removeStore")

\* A step that neither starts nor ends the director nor touches its store only
\* confirms or ends a destroy, at most.
LEMMA Untouched ==
  ASSUME up' <=> up, kept' = kept
  PROVE  Kept
BY Zenon DEF up, kept, Kept, Promise!PromiseNext, Promise!promiseVars, Promise!Judge,
             Condemned

LEMMA StillCondemned ==
  ASSUME Inv, NEW p \in Procs, Moves(p), OwnMemory(p), Wiping(p) <=> Wiping(p)'
  PROVE  Condemned' <=> Condemned
<1>1. ASSUME NEW q \in Procs PROVE Wiping(q) <=> Wiping(q)'
  BY DEF Inv, TypeOK, Moves, OwnMemory, Goto, Wiping, Returning
<1>2. (Condemned <=> \E q \in Procs : Wiping(q)) /\ (Condemned' <=> \E q \in Procs : Wiping(q)')
  BY DEF Condemned, Wiping, Returning
<1> QED BY <1>1, <1>2

LEMMA Exits ==
  ASSUME Condemned' <=> Condemned, kept' = kept, ~up'
  PROVE  Kept
BY Zenon DEF up, kept, Kept, Promise!PromiseNext, Promise!promiseVars, Promise!Exit

LEMMA Launches ==
  ASSUME Condemned' <=> Condemned, kept' = kept, ~up, up'
  PROVE  Kept
BY Zenon DEF up, kept, Kept, Promise!PromiseNext, Promise!promiseVars, Promise!Launch

LEMMA Records ==
  ASSUME Condemned' <=> Condemned, kept \subseteq kept', kept' \subseteq Content, up, up'
  PROVE  Kept
<1>1. kept' \in SUBSET Content
  OBVIOUS
<1> QED BY Zenon, <1>1 DEF up, kept, Kept, Promise!PromiseNext, Promise!promiseVars,
                           Promise!Record

LEMMA Wipes ==
  ASSUME Condemned' <=> Condemned, Condemned, kept' = {}, ~up, ~up'
  PROVE  Kept
BY Zenon DEF up, kept, Kept, Promise!PromiseNext, Promise!promiseVars, Promise!Wipe

LEMMA InstanceCallKeeps == ASSUME Inv, NEW p \in Procs, InstanceCall(p) PROVE Kept
<1> USE DEF InstanceCall, StopInstance, DeleteInstance, CreateInstance, WriteVars,
        StartInstance, StopContainer, Step, Goto
<1>1. kept' = kept
  BY DEF kept
<1>2. CASE up' <=> up
  BY <1>1, <1>2, Untouched
<1>3. CASE ~(up' <=> up)
  <2>1. Moves(p) /\ OwnMemory(p)
    BY DEF Inv, TypeOK, CallFacts, Moves, OwnMemory, localVars
  <2>2. (StopInstance(p) /\ instance = "running") \/ StartInstance(p) \/ StopContainer(p)
    BY <1>3 DEF up
  <2>3. Wiping(p) <=> Wiping(p)'
    BY <2>2 DEF Inv, TypeOK, Wiping, Returning, localVars
  <2>4. Condemned' <=> Condemned
    BY <2>1, <2>3, StillCondemned
  <2> HIDE DEF InstanceCall
  <2>5. CASE up
    BY <1>1, <1>3, <2>4, <2>5, Exits
  <2>6. CASE ~up
    BY <1>1, <1>3, <2>4, <2>6, Launches
  <2> QED BY <2>5, <2>6
<1> QED BY <1>2, <1>3

LEMMA PlaceCallKeeps == ASSUME Inv, Inv', NEW p \in Procs, PlaceCall(p) PROVE Kept
<1>1. UNCHANGED <<instance, home>>
  BY DEF PlaceCall, CreateNetwork, RemoveStore, RemoveData, GetDirectorConfig,
     UpdateCloudConfig, CreateVolume, serverVars
<1>2. up' <=> up
  BY <1>1 DEF up
<1>3. CASE kept' = kept
  BY <1>2, <1>3, Untouched
<1>4. CASE kept' # kept
  <2>1. RemoveStore(p) \/ UpdateCloudConfig(p)
    BY <1>4 DEF kept, PlaceCall, CreateNetwork, RemoveData, GetDirectorConfig,
                CreateVolume, serverVars
  <2>2. Moves(p) /\ OwnMemory(p) /\ (Wiping(p) <=> Wiping(p)')
    BY <2>1, <1>4 DEF Inv, TypeOK, Moves, OwnMemory, localVars, RemoveStore,
                      UpdateCloudConfig,
       VolumeInUse, Step, Goto, Wiping, Returning, kept
  <2>3. Condemned' <=> Condemned
    BY <2>2, StillCondemned
  <2>4. CASE RemoveStore(p)
    <3>1. /\ pool[p] = Watched /\ kept' = {} /\ ~up
          /\ pc[p] = "removeStore"
      BY <1>4, <2>4 DEF Inv, TypeOK, RemoveStore, VolumeInUse, Step, kept, up
    <3>2. Condemned
      BY <3>1 DEF Condemned
    <3> QED BY <1>2, <2>3, <3>1, <3>2, Wipes
  <2>5. CASE UpdateCloudConfig(p)
    <3>1. home = Watched /\ ready /\ kept \subseteq kept'
      BY <1>4, <2>5 DEF Inv, TypeOK, UpdateCloudConfig, kept
    <3>2. up /\ kept' \subseteq Content
      BY <3>1 DEF Inv, TypeOK, DaemonInv, up, kept
    <3> QED BY <1>2, <2>3, <3>1, <3>2, Records
  <2> QED BY <2>1, <2>4, <2>5
<1> QED BY <1>3, <1>4

LEMMA DirectorKeeps == ASSUME Inv, Inv', Boot \/ Crash PROVE Kept
<1>1. Condemned' <=> Condemned
  BY DEF Boot, Crash, localVars, Condemned
<1>2. CASE Boot
  <2>1. /\ up' <=> up
        /\ kept \subseteq kept' /\ kept' \subseteq Content
        /\ home # Watched => kept' = kept
    BY <1>2 DEF Inv, TypeOK, Boot, up, kept
  <2>2. CASE up
    BY <1>1, <2>1, <2>2, Records
  <2>3. CASE ~up
    BY <1>2, <2>1, <2>3, Untouched DEF Boot, up
  <2> QED BY <2>2, <2>3
<1>3. CASE Crash
  BY <1>1, <1>3, Exits DEF Crash, up, kept
<1> QED BY <1>2, <1>3

LEMMA NextKeeps == ASSUME Inv, Inv', [Next]_vars PROVE Kept
<1>1. ASSUME UNCHANGED <<instance, home, content>> PROVE Kept
  BY <1>1, Untouched DEF up, kept
<1>2. CASE UNCHANGED vars
  BY <1>1, <1>2 DEF vars, serverVars
<1>3. ASSUME NEW p \in Procs, Begin(p) \/ Trouble(p) PROVE Kept
  BY <1>1, <1>3 DEF Begin, Trouble, Fault, WaitTimeout, Interrupt, serverVars
<1>4. ASSUME NEW p \in Procs, Look(p) PROVE Kept
  BY <1>1, <1>4 DEF Look, IsRunning, CheckUpgrade, UpgradePoll, UpgradeVerify,
     InspectNetwork, Exists, ReadCredentials, WaitRunning, WaitInfo, StopIsRunning,
     Confirm, FindInstance, FindNetwork, GetInstance, GetVolume, Quiet, serverVars
<1>5. ASSUME NEW p \in Procs, Command(p) PROVE Kept
  BY <1>4, <1>5, InstanceCallKeeps, PlaceCallKeeps
  DEF Look, InstanceCall, PlaceCall, Command, StartAction, StopAction, DestroyAction, Shared
<1> QED BY <1>2, <1>3, <1>5, DirectorKeeps DEF Next, Trouble

\* Whatever commands run at once, fail or are interrupted, no pool's store is lost but
\* to a confirmed destroy, nor under the director that runs on it.
THEOREM ImplementsPromise == Spec => PromiseKept
<1>1. Init => Promise!PromiseInit
  BY DEF Init, Promise!PromiseInit, Condemned
<1>2. Inv /\ Inv' /\ [Next]_vars => [Promise!PromiseNext]_Promise!promiseVars
  BY NextKeeps DEF Kept
<1> QED BY <1>1, <1>2, Invariance, PTL DEF Spec, PromiseKept, Promise!PromiseSpec
-----------------------------------------------------------------------------
(***************************************************************************)
(* Starts that race: while no instance runs, some process is on its way to *)
(* making one run, or has yet to run another command.                      *)
(***************************************************************************)

\* A volume of the pool of p exists.
Has(p, v) == <<pool[p], v>> \in volumes

\* p was disturbed or ended without a start, or has a way to the next instance whatever
\* the state of the present one.
Restarts(p) ==
  \/ p \in faulted
  \/ pc[p] \in Outcomes \ {"idle", "started", "already", "failed"}
  \/ pc[p] \in {"isRunning", "inspectNetwork", "exists", "stopIsRunning",
                "confirm", "findInstance", "findNetwork", "getInstance"}
  \/ pc[p] = "createNetwork" /\ net[p] \notin networks

\* It has one while there is no instance: what it goes on to create is not there yet, and
\* what it has ensured still is.
Creates(p) ==
  \/ pc[p] \in {"upgradePoll", "upgradeVerify", "readCredentials", "removeStore", "removeData",
                "getStore"}
  \/ pc[p] = "createStore" /\ ~Has(p, "store")
  \/ pc[p] = "getData" /\ Has(p, "store")
  \/ pc[p] = "createData" /\ Has(p, "store") /\ ~Has(p, "data")
  \/ pc[p] = "createInstance" /\ Has(p, "store") /\ Has(p, "data")

\* It has one while there is an instance that is stopped.
Replaces(p) ==
  \/ pc[p] \in {"deleteInstance", "writeVars", "startInstance"}
  \/ Returning(p, {"getStore", "getData"}, "inspectNetwork")

\* It may lose the creation of a volume to a process that finds the stopped instance of
\* another pool in its way.
Blocked(p) ==
  pool[p] # home /\ (pc[p] = "failed" \/ Returning(p, EnsureCalls, "inspectNetwork"))

Proceeds(p) ==
  \/ Restarts(p)
  \/ instance = "absent" /\ Creates(p)
  \/ instance = "stopped" /\ (Replaces(p) \/ Blocked(p))

\* No instance runs, although somebody ran a command.
Wanting == faults = 0 /\ instance # "running" /\ \E p \in Procs : pc[p] # "idle"

SomeProceeds == Wanting => \E p \in Procs : Proceeds(p)

\* The network that a start has found or made stays.
NetKnown(p) ==
  \/ pc[p] \in {"exists", "readCredentials", "createInstance"}
  \/ Returning(p, RemoveCalls, "readCredentials")
  \/ Returning(p, EnsureCalls, "createInstance")
  => net[p] \in networks

WinInv == SomeProceeds /\ \A p \in Procs : NetKnown(p)

\* A process that moves goes on itself, or leaves the one that does alone.
LEMMA OneProceeds ==
  ASSUME WinInv, NEW p \in Procs, OwnMemory(p),
         \A q \in Procs \ {p} : pc'[q] = pc[q], faulted \ {p} \subseteq faulted',
         networks \subseteq networks', NetKnown(p)',
         Wanting' => \/ Proceeds(p)'
                     \/ /\ Wanting /\ UNCHANGED <<instance, home, volumes, networks>>
                        /\ Proceeds(p) => Proceeds(p)'
  PROVE  WinInv'
<1>1. \A q \in Procs \ {p} :
        UNCHANGED <<instance, home, volumes, networks>> /\ Proceeds(q) => Proceeds(q)'
  BY DEF Proceeds, Restarts, Creates, Replaces, Blocked, Returning, Has, OwnMemory
<1>2. \A q \in Procs \ {p} : NetKnown(q)'
  BY DEF WinInv, NetKnown, Returning, OwnMemory
<1> QED BY <1>1, <1>2 DEF WinInv, SomeProceeds

\* A process that makes or takes away a volume or a network goes on itself, or takes the
\* way from nobody.
LEMMA PlaceProceeds ==
  ASSUME WinInv, NEW p \in Procs, OwnMemory(p), p \in Procs,
         \A q \in Procs \ {p} : pc'[q] = pc[q], faulted \subseteq faulted',
         networks \subseteq networks', NetKnown(p)', UNCHANGED <<instance, home>>,
         Wanting' => Wanting,
         Wanting' => \/ Proceeds(p)'
                     \/ \A q \in Procs : Proceeds(q) => Proceeds(q)'
  PROVE  WinInv'
<1>1. \A q \in Procs \ {p} : NetKnown(q)'
  BY DEF WinInv, NetKnown, Returning, OwnMemory
<1> QED BY <1>1 DEF WinInv, SomeProceeds

\* Calls of start and stop that make and take away neither.
LEMMA StartProceeds ==
  ASSUME Inv, WinInv, NEW p \in Procs, StartAction(p), ~CreateNetwork(p)
  PROVE  WinInv'
<1> USE DEF Step, Goto, Quiet, serverVars, localVars, ghostVars, Inv, TypeOK
<1>1. /\ \A q \in Procs \ {p} : pc'[q] = pc[q]
      /\ OwnMemory(p) /\ pc[p] # "idle" /\ pc'[p] # "idle"
      /\ pool' = pool /\ net' = net /\ (pc'[p] \notin RemoveCalls \cup EnsureCalls => after' = after)
      /\ UNCHANGED <<volumes, networks, faulted, faults>>
  BY DEF OwnMemory, StartAction, IsRunning, CheckUpgrade, UpgradePoll, UpgradeVerify,
     InspectNetwork, CreateNetwork,
     Exists, ReadCredentials, CreateInstance, WriteVars, StartInstance, WaitRunning, WaitInfo,
     GetDirectorConfig, UpdateCloudConfig, EnsureVolumes, RemoveContainer
<1>2. Wanting' /\ instance # "running" => Wanting
  BY <1>1 DEF Wanting
<1>3. NetKnown(p)
  BY DEF WinInv
<1>4. NetKnown(p)'
  BY <1>1, <1>3 DEF NetKnown, CallFacts, Returning, StartAction, IsRunning, CheckUpgrade,
     UpgradePoll, UpgradeVerify, InspectNetwork, CreateNetwork,
     Exists, ReadCredentials, CreateInstance, WriteVars, StartInstance, WaitRunning, WaitInfo,
     GetDirectorConfig, UpdateCloudConfig, EnsureVolumes, RemoveContainer
<1> DEFINE Goal == Wanting' => \/ Proceeds(p)'
                               \/ /\ Wanting /\ UNCHANGED <<instance, home, volumes, networks>>
                                  /\ Proceeds(p) => Proceeds(p)'
<1>5. Goal
  <2>1. CASE IsRunning(p)
    BY <1>1, <1>2, <2>1 DEF IsRunning, EnsureVolumes, Proceeds, Restarts, Creates, Replaces,
       Blocked, Returning, Has, Wanting
  <2>2. CASE CheckUpgrade(p)
    BY <1>1, <1>2, <2>2 DEF CheckUpgrade, RemoveContainer, Proceeds, Restarts, Creates,
       Replaces, Blocked, Returning, Has, Wanting
  <2>3. CASE UpgradePoll(p)
    BY <1>1, <1>2, <2>3 DEF UpgradePoll, Proceeds, Restarts, Creates, Replaces, Blocked,
       Returning, Has, Wanting
  <2>4. CASE UpgradeVerify(p)
    BY <1>1, <1>2, <2>4 DEF UpgradeVerify, EnsureVolumes, Proceeds, Restarts, Creates, Replaces,
       Blocked, Returning, Has, Wanting
  <2>5. CASE InspectNetwork(p)
    BY <1>1, <1>2, <2>5 DEF InspectNetwork, Proceeds, Restarts, Creates, Replaces, Blocked,
       Returning, Has, Wanting
  <2>6. CASE Exists(p)
    BY <1>1, <1>2, <2>6 DEF Exists, RemoveContainer, Proceeds, Restarts, Creates, Replaces,
       Blocked, Returning, Has, Wanting
  <2>7. CASE ReadCredentials(p)
    BY <1>1, <1>2, <2>7 DEF ReadCredentials, EnsureVolumes, Proceeds, Restarts, Creates,
       Replaces, Blocked, Returning, Has, Wanting
  <2>8. CASE CreateInstance(p)
    BY <1>1, <1>2, <1>3, <2>8 DEF CreateInstance, NetKnown, Proceeds, Restarts, Creates,
       Replaces, Blocked, Returning, Has, Wanting
  <2>9. CASE WriteVars(p)
    BY <1>1, <1>2, <2>9 DEF WriteVars, Proceeds, Restarts, Creates, Replaces, Blocked,
       Returning, Has, Wanting
  <2>10. CASE StartInstance(p)
    BY <1>1, <1>2, <2>10 DEF StartInstance, Proceeds, Restarts, Creates, Replaces, Blocked,
       Returning, Has, Wanting
  <2>11. CASE WaitRunning(p)
    BY <1>1, <1>2, <2>11 DEF WaitRunning, Proceeds, Restarts, Creates, Replaces, Blocked,
       Returning, Has, Wanting
  <2>12. CASE WaitInfo(p)
    BY <1>1, <1>2, <2>12 DEF WaitInfo, Proceeds, Restarts, Creates, Replaces, Blocked,
       Returning, Has, Wanting
  <2>13. CASE GetDirectorConfig(p)
    BY <1>1, <1>2, <2>13 DEF GetDirectorConfig, Proceeds, Restarts, Creates, Replaces, Blocked,
       Returning, Has, Wanting
  <2>14. CASE UpdateCloudConfig(p)
    BY <1>1, <1>2, <2>14 DEF UpdateCloudConfig, Proceeds, Restarts, Creates, Replaces, Blocked,
       Returning, Has, Wanting
  <2> QED BY <2>1, <2>2, <2>3, <2>4, <2>5, <2>6, <2>7, <2>8, <2>9, <2>10, <2>11, <2>12, <2>13,
     <2>14 DEF StartAction
<1> HIDE DEF TypeOK, Inv
<1> QED BY <1>1, <1>4, <1>5, OneProceeds

\* Calls of the others, and those that all share.
LEMMA OthersProceed ==
  ASSUME Inv, WinInv, NEW p \in Procs, StopAction(p) \/ DestroyAction(p) \/ Shared(p),
         ~RemoveStore(p), ~RemoveData(p), \A v \in VolumeNames : ~CreateVolume(p, v)
  PROVE  WinInv'
<1> USE DEF Step, Goto, Quiet, serverVars, localVars, ghostVars, Inv, TypeOK
<1>1. /\ \A q \in Procs \ {p} : pc'[q] = pc[q]
      /\ OwnMemory(p) /\ pc[p] # "idle" /\ pc'[p] # "idle"
      /\ pool' = pool /\ net' = net /\ (pc'[p] \notin RemoveCalls \cup EnsureCalls => after' = after)
      /\ UNCHANGED <<volumes, networks, faulted, faults>>
  BY DEF OwnMemory, StopAction, DestroyAction, Shared, Get, Create, Ensured, CallFacts,
     StopIsRunning, StopContainer, Confirm, FindInstance, FindNetwork, GetInstance,
     StopInstance, DeleteInstance, GetVolume, RemoveContainer
<1>2. Wanting' /\ instance # "running" => Wanting
  BY <1>1 DEF Wanting
<1>3. NetKnown(p) /\ CallFacts(p)
  BY DEF WinInv
<1>4. NetKnown(p)'
  BY <1>1, <1>3 DEF NetKnown, CallFacts, Returning, StopAction, DestroyAction, Shared, Get,
     Create,
     Ensured, StopIsRunning, StopContainer, Confirm, FindInstance, FindNetwork, GetInstance,
     StopInstance, DeleteInstance, GetVolume, RemoveContainer
<1> DEFINE Goal == Wanting' => \/ Proceeds(p)'
                               \/ /\ Wanting /\ UNCHANGED <<instance, home, volumes, networks>>
                                  /\ Proceeds(p) => Proceeds(p)'
<1>5. Goal
  <2>1. CASE StopIsRunning(p)
    BY <1>1, <1>2, <1>3, <2>1 DEF StopIsRunning, Proceeds, Restarts, Creates, Replaces, Blocked,
       Returning, Has, Wanting
  <2>2. CASE StopContainer(p)
    BY <1>1, <1>2, <1>3, <2>2 DEF StopContainer, Proceeds, Restarts, Creates, Replaces, Blocked,
       Returning, Has, Wanting
  <2>3. CASE Confirm(p)
    BY <1>1, <1>2, <1>3, <2>3 DEF Confirm, Proceeds, Restarts, Creates, Replaces, Blocked,
       Returning, Has, Wanting
  <2>4. CASE FindInstance(p)
    BY <1>1, <1>2, <1>3, <2>4 DEF FindInstance, RemoveContainer, Proceeds, Restarts, Creates,
       Replaces, Blocked, Returning, Has, Wanting
  <2>5. CASE FindNetwork(p)
    BY <1>1, <1>2, <1>3, <2>5 DEF FindNetwork, RemoveContainer, Proceeds, Restarts, Creates,
       Replaces, Blocked, Returning, Has, Wanting
  <2>6. CASE GetInstance(p)
    BY <1>1, <1>2, <1>3, <2>6 DEF GetInstance, CallFacts, Proceeds, Restarts, Creates, Replaces,
       Blocked, Returning, Has, Wanting
  <2>7. CASE StopInstance(p)
    BY <1>1, <1>2, <1>3, <2>7 DEF StopInstance, Proceeds, Restarts, Creates, Replaces, Blocked,
       Returning, Has, Wanting
  <2>8. CASE DeleteInstance(p)
    BY <1>1, <1>2, <1>3, <2>8 DEF DeleteInstance, CallFacts, Proceeds, Restarts, Creates,
       Replaces, Blocked, Returning, Has, Wanting
  <2>9. ASSUME NEW v \in VolumeNames, GetVolume(p, v) PROVE Goal
    <3>1. /\ pc[p] = Get(v) /\ pc'[p] = IF Has(p, v) THEN Ensured(p, v) ELSE Create(v)
          /\ UNCHANGED <<after, instance, home>>
      BY <2>9 DEF GetVolume, Has
    <3>2. instance = "stopped" /\ ~Has(p, v) => pool[p] # home
      BY DEF DaemonInv, Has
    <3>3. after[p] \in {"inspectNetwork", "createInstance"}
      BY <1>3, <3>1 DEF CallFacts, Get
    <3>4. ASSUME v = "store" PROVE Proceeds(p) => Proceeds(p)'
      BY <1>1, <3>1, <3>2, <3>4 DEF Get, Create, Ensured, Proceeds, Restarts, Creates, Replaces,
         Blocked, Returning, Has
    <3>5. ASSUME v = "data" PROVE Proceeds(p) => Proceeds(p)'
      BY <1>1, <3>1, <3>2, <3>3, <3>5 DEF Get, Create, Ensured, Proceeds, Restarts, Creates,
         Replaces, Blocked, Returning, Has
    <3>6. Wanting' => Wanting
      BY <1>1, <3>1 DEF Wanting
    <3> QED BY <1>1, <3>1, <3>4, <3>5, <3>6
  <2> QED BY <2>1, <2>2, <2>3, <2>4, <2>5, <2>6, <2>7, <2>8, <2>9 DEF StopAction, DestroyAction,
     Shared
<1> HIDE DEF TypeOK, Inv
<1> QED BY <1>1, <1>4, <1>5, OneProceeds

\* CreateNetwork and CreateVolume: who makes what another was about to make goes on instead,
\* unless it finds an instance in its way; a stopped one has its volumes, so that the other
\* one is of another pool.
LEMMA MakersProceed ==
  ASSUME Inv, WinInv, NEW p \in Procs,
         CreateNetwork(p) \/ \E v \in VolumeNames : CreateVolume(p, v)
  PROVE  WinInv'
<1> USE DEF Step, Goto, serverVars, localVars, ghostVars, Inv, TypeOK
<1>1. /\ \A q \in Procs \ {p} : pc'[q] = pc[q]
      /\ OwnMemory(p) /\ pc[p] # "idle" /\ pc'[p] # "idle"
      /\ UNCHANGED <<pool, net, after, instance, home, faulted, faults>>
      /\ networks \subseteq networks' /\ volumes \subseteq volumes'
  BY DEF OwnMemory, CreateNetwork, CreateVolume, Create, Ensured, CallFacts
<1>2. Wanting' => Wanting
  BY <1>1 DEF Wanting
<1>3. NetKnown(p) /\ CallFacts(p)
  BY DEF WinInv
<1>4. NetKnown(p)'
  BY <1>1, <1>3 DEF NetKnown, CallFacts, Returning, CreateNetwork, CreateVolume, Create, Ensured
<1> DEFINE Goal == Wanting' => Proceeds(p)' \/ \A q \in Procs : Proceeds(q) => Proceeds(q)'
<1>5. CASE CreateNetwork(p)
  <2>1. ASSUME net[p] \notin networks PROVE Goal
    BY <1>5, <2>1 DEF CreateNetwork, Proceeds, Restarts
  <2>2. ASSUME net[p] \in networks PROVE Goal
    <3>1. networks' = networks /\ volumes' = volumes /\ pc[p] = "createNetwork"
      BY <1>5, <2>2 DEF CreateNetwork
    <3>2. ~Restarts(p) \/ p \in faulted
      BY <2>2, <3>1 DEF Restarts
    <3>3. Proceeds(p) => Proceeds(p)'
      BY <1>1, <3>1, <3>2 DEF Proceeds, Restarts, Creates, Replaces, Blocked, Returning
    <3>4. \A q \in Procs \ {p} : Proceeds(q) => Proceeds(q)'
      BY <1>1, <3>1 DEF Proceeds, Restarts, Creates, Replaces, Blocked, Returning, Has
    <3> QED BY <3>3, <3>4
  <2>3. Goal
    BY <2>1, <2>2
  <2> HIDE DEF TypeOK, Inv
  <2> QED BY <1>1, <1>2, <1>4, <2>3, PlaceProceeds
<1>6. ASSUME NEW v \in VolumeNames, CreateVolume(p, v) PROVE Goal
  <2>1. volumes' = volumes \cup {<<pool[p], v>>} /\ networks' = networks /\ pc[p] = Create(v)
    BY <1>6 DEF CreateVolume
  <2>2. CASE Has(p, v)
    <3>1. volumes' = volumes
      BY <2>1, <2>2 DEF Has
    <3>2. \A q \in Procs \ {p} : Proceeds(q) => Proceeds(q)'
      BY <1>1, <2>1, <3>1 DEF Proceeds, Restarts, Creates, Replaces, Blocked, Returning, Has
    <3>3. pc'[p] = "failed"
      BY <1>6, <2>2 DEF CreateVolume, Has
    <3>4. Proceeds(p) => Proceeds(p)'
      BY <1>1, <2>1, <2>2, <3>3 DEF Proceeds, Restarts, Creates, Replaces, Blocked, Returning,
         Create, Has
    <3> QED BY <3>2, <3>4
  <2>3. CASE ~Has(p, v) /\ instance = "absent"
    <3>1. pc'[p] = Ensured(p, v) /\ after'[p] = after[p]
      BY <1>1, <1>6, <2>3 DEF CreateVolume, Has
    <3>2. CASE v = "store"
      BY <1>1, <2>1, <2>3, <3>1, <3>2 DEF Ensured, Proceeds, Creates, Has
    <3>3. CASE v = "data" /\ Has(p, "store")
      BY <1>1, <1>3, <2>1, <2>3, <3>1, <3>3 DEF Ensured, Proceeds, Restarts, Creates, Has,
         CallFacts,
         Create
    <3>4. CASE v = "data" /\ ~Has(p, "store")
      <4>1. \A q \in Procs : Has(q, "store") => pool[q] # pool[p]
        BY <3>4 DEF Has
      <4>2. \A q \in Procs \ {p} : Proceeds(q) => Proceeds(q)'
        BY <1>1, <2>1, <2>3, <3>4, <4>1 DEF Proceeds, Restarts, Creates, Has
      <4>3. Proceeds(p) => p \in faulted
        BY <2>1, <2>3, <3>4 DEF Proceeds, Restarts, Creates, Create
      <4> QED BY <1>1, <4>2, <4>3 DEF Proceeds, Restarts
    <3> QED BY <3>2, <3>3, <3>4
  <2>4. CASE ~Has(p, v) /\ instance = "stopped"
    <3>1. pool[p] # home
      BY <2>4 DEF DaemonInv, Has
    <3>2. \A q \in Procs \ {p} : Proceeds(q) => Proceeds(q)'
      BY <1>1, <2>1, <2>4 DEF Proceeds, Restarts, Replaces, Blocked, Returning
    <3>3. pc'[p] = Ensured(p, v)
      BY <1>6, <2>4 DEF CreateVolume, Has
    <3>4. Proceeds(p) => Proceeds(p)'
      BY <1>1, <1>3, <2>1, <2>4, <3>1, <3>3 DEF Proceeds, Restarts, Replaces, Blocked,
         Returning, Create,
         Ensured, CallFacts
    <3> QED BY <3>2, <3>4
  <2> QED BY <1>1, <2>2, <2>3, <2>4 DEF Wanting
<1>7. ASSUME NEW v \in VolumeNames, CreateVolume(p, v) PROVE WinInv'
  <2>1. Goal
    BY <1>6, <1>7
  <2> HIDE DEF TypeOK, Inv
  <2> QED BY <1>1, <1>2, <1>4, <2>1, PlaceProceeds
<1> QED BY <1>5, <1>7

\* RemoveStore and RemoveData: who takes a volume away has yet to run another command.
LEMMA RemoversProceed ==
  ASSUME Inv, WinInv, NEW p \in Procs, RemoveStore(p) \/ RemoveData(p)
  PROVE  WinInv'
<1> USE DEF Step, Goto, localVars, ghostVars, Inv, TypeOK
<1>1. /\ \A q \in Procs \ {p} : pc'[q] = pc[q]
      /\ OwnMemory(p) /\ pc[p] # "idle" /\ pc'[p] # "idle"
      /\ pool' = pool /\ net' = net /\ after' = after
      /\ UNCHANGED <<instance, home, networks, faulted, faults>>
  BY DEF OwnMemory, RemoveStore, RemoveData
<1>2. (Wanting' => Wanting) /\ NetKnown(p)'
  BY <1>1 DEF Wanting, WinInv, NetKnown, Returning, RemoveStore, RemoveData
<1>3. CASE instance = "absent"
  <2>1. Proceeds(p)'
    BY <1>1, <1>3 DEF RemoveStore, RemoveData, VolumeInUse, Proceeds, Restarts, Creates
  <2> HIDE DEF TypeOK, Inv
  <2> QED BY <1>1, <1>2, <2>1, PlaceProceeds
<1>4. CASE instance # "absent"
  <2>1. \A q \in Procs \ {p} : Wanting' /\ Proceeds(q) => Proceeds(q)'
    BY <1>1, <1>4 DEF Wanting, Proceeds, Restarts, Replaces, Blocked, Returning
  <2>2. Wanting' /\ Proceeds(p) => Proceeds(p)'
    BY <1>1, <1>4 DEF Wanting, Proceeds, Restarts, Replaces, Blocked, Returning, RemoveStore,
       RemoveData
  <2> HIDE DEF TypeOK, Inv
  <2> QED BY <1>1, <1>2, <2>1, <2>2, PlaceProceeds
<1> QED BY <1>3, <1>4

\* Failures, and what the director does.
LEMMA TroubleProceeds ==
  ASSUME Inv, WinInv,
         \/ \E p \in Procs : Begin(p) \/ Fault(p) \/ WaitTimeout(p) \/ Interrupt(p)
         \/ Boot \/ Crash
  PROVE  WinInv'
<1> USE DEF Step, Goto, serverVars, localVars, ghostVars, Inv, TypeOK
<1>1. ASSUME NEW p \in Procs, Begin(p) PROVE WinInv'
  <2>1. /\ pc'[p] \in {"isRunning", "stopIsRunning", "confirm"}
        /\ \A q \in Procs \ {p} : pc'[q] = pc[q]
    BY <1>1, CommandsAssumption DEF Begin, FirstCall
  <2>2. OwnMemory(p) /\ networks' = networks /\ faulted \ {p} \subseteq faulted'
    BY <1>1 DEF Begin, OwnMemory
  <2>3. Proceeds(p)' /\ NetKnown(p)'
    BY <2>1 DEF Proceeds, Restarts, NetKnown, Returning
  <2> HIDE DEF TypeOK, Inv
  <2> QED BY <2>1, <2>2, <2>3, OneProceeds
<1>2. ASSUME NEW p \in Procs, Fault(p) \/ Interrupt(p) \/ WaitTimeout(p) PROVE WinInv'
  <2>1. /\ \A q \in Procs \ {p} : pc'[q] = pc[q]
        /\ OwnMemory(p) /\ networks' = networks /\ faulted \subseteq faulted'
        /\ pc'[p] \in {"findNetwork", "nothing", "failed", "interrupted"}
        /\ p \in faulted' \/ pc'[p] = "interrupted"
    BY <1>2 DEF Fault, OnError, Interrupt, WaitTimeout, OwnMemory
  <2>2. Proceeds(p)' /\ NetKnown(p)'
    BY <2>1 DEF Proceeds, Restarts, NetKnown, Returning
  <2> HIDE DEF TypeOK, Inv
  <2> QED BY <2>1, <2>2, OneProceeds
<1>3. ASSUME Boot PROVE WinInv'
  BY <1>3 DEF Boot, WinInv, NetKnown, Returning, SomeProceeds, Wanting
<1>4. ASSUME Crash PROVE WinInv'
  <2>1. faults' = faults + 1 /\ faults \in Nat
    BY <1>4 DEF Crash
  <2> QED BY <1>4, <2>1 DEF Crash, WinInv, NetKnown, Returning, SomeProceeds, Wanting
<1> QED BY <1>1, <1>2, <1>3, <1>4

\* Starts that race each other, or that a stop or a destroy overtakes, do not all lose
\* (start.go, incus_cpi.go, client.go), however many shells, pools and networks there are.
THEOREM StartsWin == Spec => []SomeStartWins
<1>1. Init => WinInv
  BY DEF Init, WinInv, SomeProceeds, Wanting, NetKnown, Returning
<1>2. Inv /\ WinInv /\ [Next]_vars => WinInv'
  <2> SUFFICES ASSUME Inv, WinInv, [Next]_vars PROVE WinInv'
    OBVIOUS
  <2>1. ASSUME NEW p \in Procs, Command(p) PROVE WinInv'
    BY <2>1, StartProceeds, OthersProceed, MakersProceed, RemoversProceed
       DEF Command, StartAction, DestroyAction, Shared
  <2>2. CASE UNCHANGED vars
    BY <2>2 DEF vars, serverVars, localVars, ghostVars, WinInv, SomeProceeds, Wanting, Proceeds,
       Restarts, Creates, Replaces, Blocked, Returning, Has, NetKnown
  <2> QED BY <2>1, <2>2, TroubleProceeds DEF Next
<1>3. Inv /\ WinInv => SomeStartWins
  BY DEF WinInv, SomeProceeds, Wanting, Proceeds, Restarts, Creates, Replaces, Blocked, Returning,
     SomeStartWins, Inv, TypeOK
<1> QED BY <1>1, <1>2, <1>3, Invariance, PTL DEF Spec
=============================================================================

----------------------------- MODULE Deployments -----------------------------
(***************************************************************************)
(* The commands that deploy on a running director and ask about what they  *)
(* deployed: ibosh cf ..., ibosh bosh ..., ibosh creds ... and the         *)
(* print-env that a shell evaluates before them.                           *)
(*                                                                         *)
(* The outer director is the one ibosh started; the inner one is what      *)
(* `ibosh bosh deploy` deploys on it.  A shell that evaluated no print-env *)
(* has no BOSH_* and CONFIG_SERVER_* variables; print-env sets them all to *)
(* the outer director, `bosh print-env` only the BOSH_* ones to the inner one.  *)
(* The bosh CLI, the director and what they do with a manifest are not in  *)
(* the repository: their calls are modelled by what the commands use of    *)
(* them, and any call may fail.                                            *)
(***************************************************************************)
EXTENDS ConfigServer, IPSelection, Backends, FiniteSets

CONSTANTS
  Procs,        \* the shells, each of which runs one command at a time
  Ranges,       \* static ranges that the cloud-config of the director may have
  Given,        \* the address that --router-ip or --director-ip gives
  NoIP,         \* no address
  MaxCommands,  \* commands begun (bound)
  MaxFaults     \* calls that fail (bound)

ASSUME ProcsAssumption == Clients = Procs
ASSUME GivenAssumption == Given \in Address /\ NoIP \notin Address
ASSUME RangesAssumption == \A r \in Ranges : r \in Seq(Address) /\ Len(r) \in {1, 2}
ASSUME BoundsAssumption == MaxCommands \in Nat /\ MaxFaults \in Nat

Kinds == {"docker", "incus"}
Targets == {"none", "outer", "inner"}
Deploys == {"cfDeploy", "boshDeploy"}
Ops == Deploys \cup {"cfManifest", "cfDelete", "cfPrint", "cfLogin", "boshDelete", "boshPrint",
                     "printEnv", "credsGet", "credsDelete"}

CFNames == {"cf_admin_password", "uaa_admin_client_secret"}
CFOrder == <<"cf_admin_password", "uaa_admin_client_secret">>
BOSHName == "admin_password"

ASSUME NamesAssumption == CFNames \cup {BOSHName} \subseteq Names

VARIABLES
  kind,         \* the CPI of the outer director
  range,        \* the static range of its cloud-config
  reach,        \* where a command without flags looks for that director
  deployed,     \* address and credentials of the deployment cf, address of bosh-warden
  innerConfig,  \* the inner director has the warden cloud-config
  tampered,     \* credentials of the running CF may not be the stored ones
  target,       \* of every shell: the director its environment names
  pc,           \* of every shell: the next step of its command, or how the last ended
  cmd,          \* of every shell: the flags and the local state of its command
  manifest,     \* the address in the manifest file of bosh deploy, if there is one
  begun, faults \* commands begun and calls failed so far

worldVars == <<deployed, innerConfig, tampered, manifest>>
fixedVars == <<kind, range, reach>>
countVars == <<begun, faults>>
vars == <<fixedVars, worldVars, target, pc, cmd, configVars, countVars>>

Ended == {"done", "failed"}
Active(p) == pc[p] \notin Ended
Outer(p) == target[p] = "outer"

NoCF == [ip |-> NoIP, creds |-> [n \in CFNames |-> Absent]]
CF == deployed.cf
UsedIPs == {deployed.cf.ip, deployed.bosh} \ {NoIP}

\* The addresses of an Incus instance are routed, those of a container are not.
HasDirectNetworkAccess == kind = "incus"

\* The proxy that print-env exports: with Docker the jumpbox of the container, with
\* Incus none, for the inner director its own jumpbox.
ShellProxy(p) ==
  IF target[p] = "inner" THEN "inner"
  ELSE IF Outer(p) /\ ~HasDirectNetworkAccess THEN "outer"
  ELSE "none"

\* The flags are fixed when a command begins; env and proxy say whether the process
\* still has the BOSH_* variables of the shell, and its BOSH_ALL_PROXY, astray whether it
\* prepares its manifest with another director than the one it deploys on.  Alone are the
\* commands that run together with no other and met no failure so far, timely those of
\* which every request to the config server came in time.
Command ==
  [op : Ops, given : BOOLEAN, dry : BOOLEAN, delete : BOOLEAN,
   alone : BOOLEAN, timely : BOOLEAN, had : Address \cup {NoIP}, ip : Address \cup {NoIP},
   todo : Seq(CFNames), env : BOOLEAN, proxy : {"none", "outer", "inner", "temporary"},
   astray : BOOLEAN,
   said : (CFNames \X Generations) \cup {Absent}]

NoCommand ==
  [op |-> "credsGet", given |-> FALSE, dry |-> FALSE, delete |-> FALSE,
   alone |-> FALSE, timely |-> TRUE, had |-> NoIP, ip |-> NoIP, todo |-> <<>>,
   env |-> TRUE, proxy |-> "none", astray |-> FALSE, said |-> Absent]

Steps ==
  {"resolve", "select", "deleteCreds", "checkCPI", "createCPI", "connect",
   "filter", "write", "deploy", "wardenConfig", "apply", "domain", "admin", "altAdmin", "say",
   "delete", "exec", "innerIP", "innerCreds", "creds"}

DTypeOK ==
  /\ ConfigTypeOK
  /\ kind \in Kinds /\ range \in Ranges /\ reach \in Reaches(kind)
  /\ deployed \in [cf : [ip : Address \cup {NoIP},
                         creds : [CFNames -> Generations \cup {Absent}]],
                   bosh : Address \cup {NoIP}]
  /\ innerConfig \in BOOLEAN /\ tampered \in BOOLEAN
  /\ manifest \in Address \cup {NoIP}
  /\ target \in [Procs -> Targets]
  /\ pc \in [Procs -> Steps \cup Ended]
  /\ cmd \in [Procs -> Command]
  /\ \A p \in Procs :
       pc[p] \in {"createCPI", "connect", "filter", "write", "deploy", "wardenConfig", "apply"}
         => cmd[p].ip \in Address
  /\ begun \in 0 .. MaxCommands /\ faults \in 0 .. MaxFaults

\* Nothing is deployed yet, and every shell has evaluated a print-env or not.
Init ==
  /\ kind \in Kinds /\ range \in Ranges /\ reach \in Reaches(kind)
  /\ deployed = [cf |-> NoCF, bosh |-> NoIP]
  /\ innerConfig = FALSE /\ tampered = FALSE /\ manifest = NoIP
  /\ stored = [n \in Names |-> Absent]
  /\ token = [p \in Procs |-> NoToken]
  /\ target \in [Procs -> {"none", "outer"}]
  /\ pc = [p \in Procs |-> "done"]
  /\ cmd = [p \in Procs |-> NoCommand]
  /\ begun = 0 /\ faults = 0

-----------------------------------------------------------------------------
\* A step of a command: what is local to it is gone when it ends.
Goto(p, next) == pc' = [pc EXCEPT ![p] = next]

Move(p, from, next, local) ==
  /\ pc[p] = from
  /\ Goto(p, next)
  /\ cmd' = [cmd EXCEPT ![p] = IF next \in Ended THEN NoCommand ELSE local]

Quiet == UNCHANGED <<fixedVars, worldVars, target, configVars, countVars>>

Local(p, from, next, local) == Move(p, from, next, local) /\ Quiet

\* What follows the address.  Without an environment cf manifest has no director to ask.
AfterManifestAddress(p) == IF target[p] = "none" THEN "done" ELSE "createCPI"

\* Mutant: the dry run is noticed after the credentials are gone.
AfterDeployAddressLate(p) ==
  IF cmd[p].delete THEN "deleteCreds" ELSE IF cmd[p].dry THEN "done" ELSE "createCPI"

\* A dry run lists the credentials at most.
AfterDeployAddress(p) ==
  IF cmd[p].dry THEN "done" ELSE IF cmd[p].delete THEN "deleteCreds" ELSE "createCPI"

AfterResolve(p) ==
  IF cmd[p].op = "cfManifest" THEN AfterManifestAddress(p) ELSE AfterDeployAddress(p)

\* The first step of a command whose environment is set.
Entry ==
  [op \in Ops |->
     CASE op \in {"cfDeploy", "cfManifest"}   -> "resolve"
       [] op = "boshDeploy"                   -> "checkCPI"
       [] op \in {"cfDelete", "boshDelete"}   -> "delete"
       [] op \in {"cfPrint", "cfLogin"}       -> "domain"
       [] op = "boshPrint"                    -> "innerIP"
       [] op = "printEnv"                     -> "exec"
       [] op \in {"credsGet", "credsDelete"}  -> "creds"]

\* checkBOSHEnv, NewClientFromEnv and the bosh CLI refuse to run without BOSH_* or
\* CONFIG_SERVER_* variables.
Configured(p, op, given) ==
  target[p] # "none" \/ op = "printEnv" \/ (op = "cfManifest" /\ given)

\* The flags that each command has.
Flags(op, given, dry, delete) ==
  /\ given => op \in Deploys \cup {"cfManifest"}
  /\ dry => op \in Deploys
  /\ delete => op = "cfDeploy"

Begin(p) ==
  /\ ~Active(p) /\ begun < MaxCommands
  /\ \E op \in Ops : \E given, dry, delete \in BOOLEAN :
       LET others == {q \in Procs \ {p} : Active(q)}
           command ==
             [NoCommand EXCEPT !.op = op, !.given = given, !.dry = dry, !.delete = delete,
                               !.todo = IF delete THEN CFOrder ELSE <<>>,
                               !.had = IF op = "cfDeploy" THEN CF.ip ELSE NoIP,
                               !.proxy = ShellProxy(p), !.alone = (others = {})]
       IN  /\ Flags(op, given, dry, delete)
           /\ Configured(p, op, given)
           /\ Goto(p, Entry[op])
           /\ cmd' = [q \in Procs |-> IF q = p THEN command
                                      ELSE IF q \in others THEN [cmd[q] EXCEPT !.alone = FALSE]
                                      ELSE cmd[q]]
  /\ begun' = begun + 1
  /\ UNCHANGED <<fixedVars, worldVars, target, configVars, faults>>

-----------------------------------------------------------------------------
\* The address: given, that of the running deployment, or a free one.  The inner
\* director has no deployment cf.

ResolveGiven(p) ==
  /\ cmd[p].given
  /\ Local(p, "resolve", AfterResolve(p), [cmd[p] EXCEPT !.ip = Given])

\* Mutant: a new address is selected at every deploy.
ExistingIPForgotten(p) == NoIP

\* What getExistingRouterIP and getExistingBOSHDirectorIP find in the instances of
\* the deployment on the director that the shell targets.
ExistingIP(p) ==
  IF ~Outer(p) THEN NoIP
  ELSE IF cmd[p].op = "boshDeploy" THEN deployed.bosh
  ELSE CF.ip

GetExistingIP(p) ==
  LET found == ExistingIP(p) IN
  /\ ~cmd[p].given
  /\ Local(p, "resolve", IF found = NoIP THEN "select" ELSE AfterResolve(p),
           [cmd[p] EXCEPT !.ip = found])

\* SelectAvailableIP with the addresses in use it could learn; the inner director has
\* static addresses only after its cloud-config.
Selected(p, used) ==
  IF Outer(p) THEN SelectAvailableIP(range, used)
  ELSE IF innerConfig THEN SelectAvailableIP(range, {})
  ELSE {}

\* Mutant: the error of the selection is not looked at.
SelectUnchecked(p) ==
  LET free == Selected(p, UsedIPs) IN
  \/ \E a \in free : Local(p, "select", AfterResolve(p), [cmd[p] EXCEPT !.ip = a])
  \/ free = {} /\ Local(p, "select", AfterResolve(p), cmd[p])

Select(p) ==
  LET free == Selected(p, UsedIPs) IN
  \/ \E a \in free : Local(p, "select", AfterResolve(p), [cmd[p] EXCEPT !.ip = a])
  \/ free = {} /\ Local(p, "select", "failed", cmd[p])

-----------------------------------------------------------------------------
\* deleteDeploymentCredentials: one after the other, with one client; what is not found
\* or cannot be deleted is counted and passed over.

DeleteCred(p) ==
  /\ cmd[p].todo # <<>>
  /\ \E timely \in BOOLEAN :
       /\ Move(p, "deleteCreds", "deleteCreds",
               [cmd[p] EXCEPT !.todo = Tail(@), !.timely = @ /\ timely])
       /\ Delete(p, Head(cmd[p].todo), timely)
  /\ tampered' = (tampered \/ stored' # stored)
  /\ UNCHANGED <<fixedVars, deployed, innerConfig, manifest, target, countVars>>

CredsDeleted(p) ==
  /\ cmd[p].todo = <<>>
  /\ Move(p, "deleteCreds", "createCPI", cmd[p])
  /\ Forget(p)
  /\ UNCHANGED <<fixedVars, worldVars, target, stored, countVars>>

-----------------------------------------------------------------------------
\* The director that ibosh talks to itself, for stemcells and releases.

\* DetectCPIType knows the CPIs of the directors that ibosh starts, not the inner one's;
\* bosh deploy insists on Incus.
CheckCPI(p) ==
  Local(p, "checkCPI", IF Outer(p) /\ kind = "incus" THEN "resolve" ELSE "failed", cmd[p])

\* What ends a command that cannot reach a director: cf manifest prints what it has.
GiveUp(p) == IF cmd[p].op = "cfManifest" THEN "done" ELSE "failed"

\* createCPIAndDirectorClient asks the director for its CPI and connects to the daemon or
\* the server that ought to run it.
CreateCPI(p) ==
  Local(p, "createCPI", IF Outer(p) /\ reach # "nowhere" THEN "connect" ELSE GiveUp(p), cmd[p])

\* The bosh library of the process takes what it is given, and not the environment.
NewDirector(p, proxy) == [cmd[p] EXCEPT !.env = FALSE, !.proxy = proxy]

\* createDirectorClient reads the configuration in the container; the proxy goes through a
\* key file of its own, or there is none with Incus.  Elsewhere there may be another
\* director, or none.
Connect(p) ==
  \/ Local(p, "connect", "filter",
           [NewDirector(p, IF HasDirectNetworkAccess THEN "none" ELSE "temporary")
              EXCEPT !.astray = (reach = "elsewhere")])
  \/ reach = "elsewhere" /\ Local(p, "connect", GiveUp(p), cmd[p])

\* Mutant: the proxy is not among the saved variables.
RestoredWithoutProxy(p) == [cmd[p] EXCEPT !.env = TRUE]

\* restoreBOSHEnvVars sets what was set, and unsets nothing.
Restored(p) ==
  [cmd[p] EXCEPT !.env = TRUE,
                 !.proxy = IF ShellProxy(p) = "none" THEN @ ELSE ShellProxy(p)]

\* Stemcells are ensured, the manifest is rendered and filtered, and the environment is
\* the shell's again.
FilterReleases(p) ==
  Local(p, "filter",
        CASE cmd[p].op = "cfManifest" -> "done"
          [] cmd[p].op = "cfDeploy"   -> "deploy"
          [] cmd[p].op = "boshDeploy" -> "write",
        Restored(p))

\* The manifest of bosh deploy is a file with a fixed name, that of cf deploy lies in
\* the command's own directory.
WriteManifest(p) ==
  /\ Move(p, "write", "deploy", cmd[p])
  /\ manifest' = cmd[p].ip
  /\ UNCHANGED <<fixedVars, deployed, innerConfig, tampered, target, configVars, countVars>>

-----------------------------------------------------------------------------
\* The bosh CLI: the director refuses an address that another deployment has or that is
\* not static, and generates the credentials that are not stored.  It may refuse a manifest
\* that was prepared with another one: stemcells or releases are missing.

Fresh(old) == CHOOSE g \in Generations : g # old

Generated(names) ==
  [n \in Names |-> IF n \in names /\ stored[n] = Absent
                   THEN Fresh(IF n \in CFNames THEN CF.creds[n] ELSE Absent)
                   ELSE stored[n]]

Accepts(a, others) == a # NoIP /\ InRange(a, range) /\ a \notin others
Verdicts(p, a, others) == {Accepts(a, others)} \cup (IF cmd[p].astray THEN {FALSE} ELSE {})

CFDeployed(p) ==
  /\ stored' = Generated(CFNames)
  /\ deployed' = [deployed EXCEPT !.cf = [ip |-> cmd[p].ip,
                                          creds |-> [n \in CFNames |-> stored'[n]]]]
  /\ tampered' = FALSE

\* A deploy that fails may have generated credentials or even have got far enough to
\* leave the new deployment.
CFDeployFails(p) ==
  \/ stored' = Generated(CFNames) /\ tampered' = TRUE /\ UNCHANGED deployed
  \/ CFDeployed(p)
  \/ UNCHANGED <<stored, deployed, tampered>>

BoshDeployCF(p) ==
  \E accepted \in Verdicts(p, cmd[p].ip, {deployed.bosh}) :
    /\ cmd[p].op = "cfDeploy"
    /\ Move(p, "deploy", IF accepted THEN "done" ELSE "failed", cmd[p])
    /\ IF accepted THEN CFDeployed(p) ELSE UNCHANGED <<stored, deployed, tampered>>
    /\ UNCHANGED <<fixedVars, innerConfig, manifest, target, token, countVars>>

\* The file that bosh reads may be that of another command, or gone; it is removed
\* when the CLI returns.  A director that is new has no cloud-config.
BOSHDeployed(p) ==
  /\ stored' = Generated({BOSHName})
  /\ deployed' = [deployed EXCEPT !.bosh = manifest]
  /\ innerConfig' = (innerConfig /\ deployed.bosh # NoIP)

BoshDeployDirector(p) ==
  \E accepted \in Verdicts(p, manifest, {CF.ip}) :
    /\ cmd[p].op = "boshDeploy"
    /\ Move(p, "deploy", IF accepted THEN "wardenConfig" ELSE "failed", cmd[p])
    /\ manifest' = NoIP
    /\ IF accepted THEN BOSHDeployed(p) ELSE UNCHANGED <<stored, deployed, innerConfig>>
    /\ UNCHANGED <<fixedVars, tampered, target, token, countVars>>

\* The new director's password and key.  From here on a failure is only warned of.
GetWardenDirectorConfig(p) ==
  Local(p, "wardenConfig", IF stored[BOSHName] = Absent THEN "done" ELSE "apply",
        NewDirector(p, "inner"))

\* Its cloud-config, at the address that this command resolved.
ApplyCloudConfig(p) ==
  /\ Move(p, "apply", "done", cmd[p])
  /\ innerConfig' = (innerConfig \/ deployed.bosh = cmd[p].ip)
  /\ UNCHANGED <<fixedVars, deployed, tampered, manifest, target, configVars, countVars>>

-----------------------------------------------------------------------------
\* Deleting a deployment, which the user may decline.  What it stored stays stored.

WithoutDeployment(p) ==
  IF ~Outer(p) THEN deployed
  ELSE IF cmd[p].op = "cfDelete" THEN [deployed EXCEPT !.cf = NoCF]
  ELSE [deployed EXCEPT !.bosh = NoIP]

BoshDelete(p) ==
  \E next \in Ended :
    /\ Move(p, "delete", next, cmd[p])
    /\ deployed' = IF next = "done" THEN WithoutDeployment(p) ELSE deployed
    /\ innerConfig' = (innerConfig /\ deployed'.bosh # NoIP)
    /\ UNCHANGED <<fixedVars, tampered, manifest, target, configVars, countVars>>

\* cf print-env, login and cats-config: the router's address gives the domain, the
\* config server the password.
GetSystemDomain(p) ==
  Local(p, "domain", IF Outer(p) /\ CF.ip # NoIP THEN "admin" ELSE "failed", cmd[p])

\* Reading one of the two names; an answer that is an error leads to otherwise.
AskPassword(p, from, name, otherwise) ==
  /\ pc[p] = from
  /\ \E answer \in Generations \cup {Absent}, timely \in BOOLEAN :
       /\ Get(p, name, answer, timely)
       /\ Move(p, from, IF answer = Absent THEN otherwise ELSE "say",
               [cmd[p] EXCEPT !.said = IF answer = Absent THEN Absent ELSE <<name, answer>>,
                              !.timely = @ /\ timely])
       /\ UNCHANGED <<fixedVars, worldVars, target, countVars>>

\* Mutant: the alternative name first.
GetAdminSwapped(p) == AskPassword(p, "admin", "uaa_admin_client_secret", "altAdmin")

GetAdmin(p) == AskPassword(p, "admin", "cf_admin_password", "altAdmin")
GetAltAdmin(p) == AskPassword(p, "altAdmin", "uaa_admin_client_secret", "failed")

\* print-env and cats-config print what they found.
PrintPassword(p) ==
  /\ cmd[p].op = "cfPrint"
  /\ Move(p, "say", "done", cmd[p])
  /\ Forget(p)
  /\ UNCHANGED <<fixedVars, worldVars, target, stored, countVars>>

\* login ends with what `cf auth` says of the password.
Authenticate(p) ==
  \E next \in Ended :
    /\ cmd[p].op = "cfLogin"
    /\ next = "failed" => cmd[p].said # <<"cf_admin_password", CF.creds["cf_admin_password"]>>
    /\ Move(p, "say", next, cmd[p])
    /\ Forget(p)
    /\ UNCHANGED <<fixedVars, worldVars, target, stored, countVars>>

\* print-env: what the shell evaluates.  A command that asks for one thing only uses a
\* fresh token.
\* print-env reads the credentials in the container, if it is where it looks for it; where
\* it is not, there is no other director here.
PrintEnv(p) ==
  \E seen \in PrintEnvReaches(kind, reach) :
    /\ Move(p, "exec", IF seen = "home" THEN "done" ELSE "failed", cmd[p])
    /\ target' = IF seen = "home" THEN [target EXCEPT ![p] = "outer"] ELSE target
    /\ UNCHANGED <<fixedVars, worldVars, configVars, countVars>>

GetDirectorIP(p) ==
  Local(p, "innerIP", IF Outer(p) /\ deployed.bosh # NoIP THEN "innerCreds" ELSE "failed",
        cmd[p])

PrintBOSHEnv(p) ==
  LET found == stored[BOSHName] # Absent IN
  /\ Move(p, "innerCreds", IF found THEN "done" ELSE "failed", cmd[p])
  /\ target' = IF found THEN [target EXCEPT ![p] = "inner"] ELSE target
  /\ UNCHANGED <<fixedVars, worldVars, configVars, countVars>>

CredsGet(p) ==
  \E name \in Names :
    /\ cmd[p].op = "credsGet"
    /\ Local(p, "creds", IF stored[name] = Absent THEN "failed" ELSE "done", cmd[p])

CredsDelete(p) ==
  \E name \in Names :
    /\ cmd[p].op = "credsDelete"
    /\ Move(p, "creds", IF stored[name] = Absent THEN "failed" ELSE "done", cmd[p])
    /\ stored' = [stored EXCEPT ![name] = Absent]
    /\ tampered' = (tampered \/ (name \in CFNames /\ stored[name] # Absent))
    /\ UNCHANGED <<fixedVars, deployed, innerConfig, manifest, target, token, countVars>>

-----------------------------------------------------------------------------
\* A call that fails.  What it leads to is the code's error path: an existing address
\* that cannot be learnt is none, addresses in use that cannot be learnt are none.

OnError(p) ==
  CASE pc[p] = "resolve" -> "select"
    [] pc[p] = "admin"   -> "altAdmin"
    [] pc[p] \in {"wardenConfig", "apply"} -> "done"
    [] pc[p] \in {"createCPI", "connect", "filter"} -> GiveUp(p)
    [] OTHER -> "failed"

Fault(p) ==
  /\ faults < MaxFaults
  /\ faults' = faults + 1
  /\ UNCHANGED <<fixedVars, begun>>

Disturbed(p) == [cmd[p] EXCEPT !.alone = FALSE]

\* Calls that change nothing when they fail.
AskFails(p) ==
  /\ pc[p] \in {"resolve", "select", "checkCPI", "createCPI", "connect", "filter",
               "write", "wardenConfig", "apply", "domain", "admin", "altAdmin", "say", "exec",
               "innerIP", "innerCreds", "creds"}
  /\ pc[p] = "resolve" => ~cmd[p].given
  /\ pc[p] = "say" => cmd[p].op = "cfLogin"
  /\ Move(p, pc[p], OnError(p), Disturbed(p))
  /\ Fault(p)
  /\ IF OnError(p) \in Ended THEN Forget(p) /\ UNCHANGED stored ELSE UNCHANGED configVars
  /\ UNCHANGED <<worldVars, target>>

SelectBlind(p) ==
  \E a \in Selected(p, {}) :
    /\ Move(p, "select", AfterResolve(p), [Disturbed(p) EXCEPT !.ip = a])
    /\ Fault(p)
    /\ UNCHANGED <<worldVars, target, configVars>>

DeleteCredFails(p) ==
  /\ cmd[p].todo # <<>>
  /\ Move(p, "deleteCreds", "deleteCreds", [Disturbed(p) EXCEPT !.todo = Tail(@)])
  /\ DeleteFails(p, Head(cmd[p].todo))
  /\ Fault(p)
  /\ tampered' = (tampered \/ stored' # stored)
  /\ UNCHANGED <<deployed, innerConfig, manifest, target>>

BoshDeployFails(p) ==
  /\ Move(p, "deploy", "failed", cmd[p])
  /\ Fault(p)
  /\ IF cmd[p].op = "cfDeploy"
     THEN /\ Accepts(cmd[p].ip, {deployed.bosh}) /\ CFDeployFails(p)
          /\ UNCHANGED <<innerConfig, manifest>>
     ELSE /\ manifest' = NoIP
          /\ \/ Accepts(manifest, {CF.ip}) /\ BOSHDeployed(p)
             \/ UNCHANGED <<deployed, stored, innerConfig>>
          /\ UNCHANGED tampered
  /\ UNCHANGED <<target, token>>

BoshDeleteFails(p) ==
  /\ Move(p, "delete", "failed", cmd[p])
  /\ Fault(p)
  /\ deployed' \in {deployed, WithoutDeployment(p)}
  /\ innerConfig' = (innerConfig /\ deployed'.bosh # NoIP)
  /\ UNCHANGED <<tampered, manifest, target, configVars>>

-----------------------------------------------------------------------------
Deploy(p) ==
  \/ ResolveGiven(p) \/ GetExistingIP(p) \/ Select(p)
  \/ DeleteCred(p) \/ CredsDeleted(p)
  \/ CheckCPI(p) \/ CreateCPI(p) \/ Connect(p) \/ FilterReleases(p) \/ WriteManifest(p)
  \/ BoshDeployCF(p) \/ BoshDeployDirector(p)
  \/ GetWardenDirectorConfig(p) \/ ApplyCloudConfig(p)

Ask(p) ==
  \/ BoshDelete(p)
  \/ GetSystemDomain(p) \/ GetAdmin(p) \/ GetAltAdmin(p) \/ PrintPassword(p) \/ Authenticate(p)
  \/ PrintEnv(p) \/ GetDirectorIP(p) \/ PrintBOSHEnv(p)
  \/ CredsGet(p) \/ CredsDelete(p)

Trouble(p) ==
  \/ AskFails(p) \/ SelectBlind(p) \/ DeleteCredFails(p)
  \/ BoshDeployFails(p) \/ BoshDeleteFails(p)

Next == \E p \in Procs : Begin(p) \/ Deploy(p) \/ Ask(p) \/ Trouble(p)

Spec == Init /\ [][Next]_vars

-----------------------------------------------------------------------------
\* What should hold of the commands.
Alone == {p \in Procs : Active(p) /\ cmd[p].alone}
Ends(p, result) == pc'[p] = result /\ faults' = faults

\* A deploy without --router-ip that runs alone leaves a deployed CF where it is:
\* its address is in the system domain of everything on it.
RouterStays ==
  [][\A p \in Alone :
       /\ cmd[p].op = "cfDeploy" /\ ~cmd[p].given /\ ~cmd[p].dry
       /\ Ends(p, "done") /\ cmd[p].had # NoIP
       => deployed'.cf.ip = cmd[p].had]_vars

\* A deploy that picks its own address and runs alone gets through, whatever the
\* commands before it left, while an address is free and the director is where a command
\* without flags looks for it; a director that is deployed has its cloud-config then.
UndisturbedDeploys ==
  [][\A p \in Alone :
       cmd[p].op \in Deploys /\ ~cmd[p].given /\ Outer(p) =>
         /\ Ends(p, "failed") /\ (cmd[p].op = "boshDeploy" => kind = "incus") /\ reach = "home"
              => LowestFree(range, UsedIPs) = {}
         /\ Ends(p, "done") /\ cmd[p].op = "boshDeploy" /\ ~cmd[p].dry => innerConfig']_vars

\* "forces regeneration": when a deploy with --delete-creds that runs alone comes to
\* the deployment, none of the old credentials is stored, however long the deletions took
\* and however often the token had to be renewed; unless one failed, or came with a token
\* whose reply had been too late for the buffer to make up for.
CredsForced ==
  \A p \in Alone :
    cmd[p].delete /\ cmd[p].timely /\ pc[p] \in {"createCPI", "connect", "filter", "deploy"}
      => \A n \in CFNames : stored[n] = Absent

\* The password that is printed is the one the running CF accepts, unless credentials
\* were deleted or half replaced since it was deployed, or the config server refused a
\* token that came too late.
LoginPassword ==
  \A p \in Alone :
    pc[p] = "say" /\ cmd[p].timely /\ ~tampered
      => cmd[p].said = <<"cf_admin_password", CF.creds["cf_admin_password"]>>

\* A dry run changes nothing, with whatever other flags.
DryRunHarmless ==
  [][\A p \in Procs :
       Active(p) /\ cmd[p].dry /\ cmd'[p] # cmd[p] =>
         UNCHANGED <<deployed, stored, innerConfig, manifest>>]_vars

\* The bosh CLI deploys with the environment of the shell, and not with what ibosh set
\* for its own connection to the director: also when the shell had no proxy to restore.
DeploysAsShell ==
  \A p \in Procs : pc[p] \in {"write", "deploy"} => cmd[p].env /\ cmd[p].proxy = ShellProxy(p)

\* Selection takes the lowest address that is in the range and not in use.
SelectsLowestFree ==
  [][\A p \in Procs :
       /\ pc[p] = "select" /\ pc'[p] \in {"createCPI", "deleteCreds"} /\ Outer(p)
       /\ faults' = faults /\ ProperRange(range)
       => {cmd'[p].ip} = LowestFree(range, UsedIPs)]_vars

\* cf.go:166: "No existing deployment, select a new IP".
RedeployKeepsRouter ==
  [][\A p \in Procs :
       /\ cmd[p].op = "cfDeploy" /\ ~cmd[p].given /\ pc[p] = "deploy" /\ pc'[p] = "done"
       /\ cmd[p].had # NoIP
       => deployed'.cf.ip = cmd[p].had]_vars
=============================================================================

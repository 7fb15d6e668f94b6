------------------------------- MODULE Backends -------------------------------
(***************************************************************************)
(* Which Docker daemon or which project of which Incus server a command    *)
(* talks to.  Nothing records where `start` put the director: every        *)
(* command finds the place anew, from its flags and from the configuration *)
(* of the docker and incus CLIs, and the commands that deploy have no such *)
(* flags.                                                                  *)
(***************************************************************************)
EXTENDS Functions

CONSTANTS
  Shells,      \* what getDockerHost and client.FromEnv may find
  Configs,     \* what there may be in the configuration directory of Incus
  URLs,        \* addresses that are recognised as such
  RemoteFlags, \* values of --remote
  ProjectFlags \* values of --project

Unset == ""
DefaultSocket == "unix:///var/run/docker.sock"
LocalSocket == "unix://"
DefaultProject == "ibosh"

\* The docker CLI may be missing, and its context inspected in vain.
getDockerHost(shell) == IF shell.cli THEN shell.context ELSE Unset

\* The context comes before DOCKER_HOST.
DockerHost(shell) ==
  LET host == getDockerHost(shell) IN
  IF host # Unset THEN host ELSE IF shell.host # Unset THEN shell.host ELSE DefaultSocket

\* The name of a remote, or its address, which must be that of a remote; none is the
\* default one.  Without a configuration there is only the local socket.  Not to be able
\* to connect is the empty set.
connectUsingCLIConfig(config, remote) ==
  LET name == IF remote # Unset THEN remote
              ELSE IF config.default # Unset THEN config.default ELSE "local"
  IN  IF ~config.file THEN IF remote \in {Unset, "local"} THEN {LocalSocket} ELSE {}
      ELSE IF name \in URLs THEN Range(config.remotes) \cap {name}
      ELSE {config.remotes[n] : n \in DOMAIN config.remotes \cap {name}}

IncusClient(config, remote, project) ==
  {[server |-> server, project |-> IF project = Unset THEN DefaultProject ELSE project] :
     server \in connectUsingCLIConfig(config, remote)}

-----------------------------------------------------------------------------
\* Where a command without flags looks for a director, seen from where the director is:
\* at home, elsewhere, or nowhere at all.

SeenFrom(there, here) ==
  IF here = {} THEN "nowhere" ELSE IF here = there THEN "home" ELSE "elsewhere"

\* The shell of the start and that of the deploy may have different contexts.
DockerReaches ==
  {SeenFrom({DockerHost(started)}, {DockerHost(now)}) : started, now \in Shells}

\* A director was started: its server could be connected to.
IncusReaches ==
  UNION {{SeenFrom({there}, IncusClient(config, Unset, Unset)) :
            there \in IncusClient(config, remote, project)} :
         config \in Configs, remote \in RemoteFlags, project \in ProjectFlags}

\* print-env has the flags of start with Incus, and the user may give it other ones.
IncusPrintEnv ==
  UNION {{SeenFrom({there}, IncusClient(config, remote, project)) :
            there \in UNION {IncusClient(config, r, q) : r \in RemoteFlags, q \in ProjectFlags}} :
         config \in Configs, remote \in RemoteFlags, project \in ProjectFlags}

\* With Docker it has none, and the context of its shell.
PrintEnvReaches(kind, reach) == IF kind = "docker" THEN {reach} ELSE IncusPrintEnv

Reaches(kind) == IF kind = "docker" THEN DockerReaches ELSE IncusReaches
=============================================================================

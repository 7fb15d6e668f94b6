---------------------------- MODULE MCDeployments ----------------------------
(* Deployments for TLC: addresses of two bits, so that ranges cross a carry. *)
EXTENDS Deployments, TLC

CarryRange == <<<<0, 1>>, <<1, 0>>>>   \* two addresses
MCRanges == {CarryRange}
MCGiven == <<1, 0>>
MCNames == CFNames \cup {BOSHName}

\* Shells of one machine, with and without the docker CLI; one whose context is another.
MCShells ==
  {[cli |-> TRUE, context |-> DefaultSocket, host |-> Unset],
   [cli |-> FALSE, context |-> Unset, host |-> Unset],
   [cli |-> TRUE, context |-> "unix:///colima.sock", host |-> Unset]}
MCConfigs ==
  {[file |-> FALSE, default |-> Unset, remotes |-> <<>>],
   [file |-> TRUE, default |-> "lab", remotes |-> ("local" :> LocalSocket @@ "lab" :> "https://lab")],
   [file |-> TRUE, default |-> "gone", remotes |-> ("lab" :> "https://lab")]}
MCURLs == {"https://lab"}
MCRemoteFlags == {Unset, "local", "lab"} \cup MCURLs
MCProjectFlags == {Unset, DefaultProject, "other"}

ShellSymmetry == Permutations(Procs)
=============================================================================

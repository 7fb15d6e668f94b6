--------------------------- MODULE ManifestPipeline ---------------------------
(***************************************************************************)
(* From the manifest to the director: `cf deploy` ensures stemcells,       *)
(* interpolates, consolidates the instance groups, filters the releases    *)
(* and runs `bosh deploy`; `bosh deploy` and `cf manifest` do some of it.  *)
(* Other processes upload stemcells meanwhile (Stemcells); deploys may run *)
(* at the same time.                                                       *)
(***************************************************************************)
EXTENDS Stemcells, OpsFiles

CONSTANTS
  Docs,       \* what may be embedded: manifest, compiled releases, runtime config
  Releases    \* the releases of which it is told whether the director has them

\* The embedded manifest is for a director. All releases have a URL; those of the manifest
\* and of the runtime config have no stemcell section.
ASSUME DocsAssumption ==
  \A doc \in Docs :
    /\ doc.cf \in [groups : {doc.cf.groups}, aliases : {doc.cf.aliases},
                  releases : Seq(Unlabelled), variables : Seq(STRING),
                  stemcells : Seq(Requirement), sections : {{}}]
    /\ doc.compiled \in Seq(Fetchable)
    /\ doc.dns.releases \in Seq(Unlabelled) /\ doc.dns.variables \in Seq(STRING)

\* Groups of cf-deployment.yml that have the jobs which consolidate.go names.
Homes ==
  {<<"ssh_proxy", "scheduler">>, <<"doppler", "doppler">>, <<"reverse_log_proxy", "log-api">>,
   <<"nats-tls", "nats">>, <<"bbs", "diego-api">>, <<"smoke_tests", "smoke-tests">>,
   <<"cloud_controller_ng", "api">>}

\* A group has jobs, the jobs above are in no other group, and only a route_registrar has
\* routes.
ASSUME GroupsAssumption ==
  \A doc \in Docs :
    /\ doc.cf.groups \in Seq(ToSet(doc.cf.groups))
    /\ doc.cf.aliases \in Seq([domain : STRING, targets : Seq(STRING)])
    /\ \A group \in ToSet(doc.cf.groups) :
         /\ group.jobs \in Seq([name : STRING, routes : Seq(STRING)])
         /\ \A job \in ToSet(group.jobs) :
              /\ job.name # "route_registrar" => job.routes = <<>>
              /\ \A home \in Homes : job.name = home[1] => group.name = home[2]

VARIABLES
  embedded,   \* what is embedded in this build
  releases,   \* of the director: names and versions
  deploy      \* of every deployer: its command and what the manifest has become

vars == <<stemcellVars, embedded, releases, deploy>>

Ops == {"cf", "bosh", "manifest"}

\* What bosh-dev.yml has a director run on.
DefaultStemcell == [os |-> DefaultOS, version |-> Latest]
BOSHManifests == RenderedBOSH(DefaultStemcell)
NoManifest ==
  [groups |-> <<>>, aliases |-> <<>>, releases |-> <<>>, variables |-> <<>>,
   stemcells |-> <<>>, sections |-> {}]
NoDeploy == [op |-> "cf", out |-> NoManifest]

Init ==
  /\ StemcellsInit
  /\ embedded \in Docs /\ releases \in SUBSET Releases
  /\ deploy = [p \in Deployers |-> NoDeploy]

\* A step of a command that neither a stemcell nor a release is affected by.
Render(p, from, next, mine) ==
  /\ pc[p] = from /\ Goto(p, next)
  /\ deploy' = [deploy EXCEPT ![p] = IF next \in {"done", "failed"} THEN NoDeploy ELSE mine]
  /\ UNCHANGED <<sourceVars, stemcells, work, embedded, releases>>

\* cf deploy ensures the stemcells of the manifest as it is rendered, unless it has
\* --skip-stemcell-upload; the other commands never do.
BeginCF(p) ==
  /\ pc[p] = "begin"
  /\ \E m \in RenderedCF(embedded) : BeginEnsure(p, m.stemcells)
  /\ UNCHANGED <<embedded, releases, deploy>>

\* The files cannot be prepared, or the CLI does not render them.
BeginFails(p) == p \in Deployers /\ Render(p, "begin", "failed", NoDeploy)

BeginWithoutStemcells(p) ==
  \E op \in Ops : Render(p, "begin", "ensured", [NoDeploy EXCEPT !.op = op])

Interpolate(p) ==
  /\ pc[p] = "ensured" /\ deploy[p].op # "bosh"
  /\ \E m \in RenderedCF(embedded) :
       Render(p, "ensured", "consolidate", [deploy[p] EXCEPT !.out = m])

InterpolateBOSHManifest(p) ==
  /\ deploy[p].op = "bosh"
  /\ \E m \in BOSHManifests :
       Render(p, "ensured", "filter", [deploy[p] EXCEPT !.out = m])

InterpolateFails(p) == Render(p, "ensured", "failed", deploy[p])

\* A group that is not in the mapping is an error.
ConsolidateGroups(p) ==
  IF ValidMapping(deploy[p].out.groups)
  THEN Render(p, "consolidate", "filter",
              [deploy[p] EXCEPT !.out = ConsolidateInstanceGroups(@)])
  ELSE Render(p, "consolidate", "failed", deploy[p])

Filtered(p) == IF deploy[p].op = "manifest" THEN "done" ELSE "deploy"

FilterReleases(p) ==
  /\ FilterPatches(deploy[p].out.releases, releases)
  /\ Render(p, "filter", Filtered(p), [deploy[p] EXCEPT !.out.releases = Filter(@, releases)])

\* A patch that cannot be applied ends a deploy; cf manifest prints what it has.
FilterFails(p) ==
  /\ ~FilterPatches(deploy[p].out.releases, releases)
  /\ Render(p, "filter", IF deploy[p].op = "manifest" THEN "done" ELSE "failed", deploy[p])

\* The director cannot be asked: the manifest stays as it is.
FilterBlind(p) == Render(p, "filter", Filtered(p), deploy[p])

\* The director fetches the releases that have a URL, one after the other, and may fail.
Fetched(p, n) ==
  {<<r.name, r.version>> : r \in {r \in ToSet(SubSeq(deploy[p].out.releases, 1, n)) : r.url}}
  \cap Releases

BoshDeploy(p) ==
  \E next \in {"done", "failed"}, n \in 0 .. Len(deploy[p].out.releases) :
    /\ pc[p] = "deploy"
    /\ next = "done" => n = Len(deploy[p].out.releases)
    /\ Goto(p, next)
    /\ releases' = releases \cup Fetched(p, n)
    /\ deploy' = [deploy EXCEPT ![p] = NoDeploy]
    /\ work' = [work EXCEPT ![p] = NoWork]
    /\ UNCHANGED <<sourceVars, stemcells, embedded>>

PipelineStep(p) ==
  \/ BeginCF(p) \/ BeginFails(p) \/ BeginWithoutStemcells(p)
  \/ Interpolate(p) \/ InterpolateBOSHManifest(p) \/ InterpolateFails(p) \/ ConsolidateGroups(p)
  \/ FilterReleases(p) \/ FilterFails(p) \/ FilterBlind(p) \/ BoshDeploy(p)

Next ==
  \/ \E p \in Deployers : PipelineStep(p)
  \/ (Publishing \/ \E p \in Procs : StemcellStep(p)) /\ UNCHANGED <<embedded, releases, deploy>>

Spec == Init /\ [][Next]_vars

-----------------------------------------------------------------------------
\* What is handed to `bosh deploy`.
Handed == {p \in Deployers : pc[p] = "deploy"}
Consolidated == {p \in Handed : deploy[p].op = "cf"}

\* cf deploy without --skip-stemcell-upload. The other commands hand over what they have
\* rendered, whether its stemcells are there or not.
Ensured == {p \in Handed : work[p].required # <<>>}

\* Of what is handed over every release is at the director or has a URL; after ensuring,
\* the director holds every stemcell that the handed manifest asks for.
NothingMissing ==
  /\ \A p \in Handed : \A r \in ToSet(deploy[p].out.releases) :
       r.url \/ <<r.name, r.version>> \in releases
  /\ \A p \in Ensured : \A r \in ToSet(deploy[p].out.stemcells) : Satisfied(r, Held(stemcells))

\* What is deployed is a manifest for a director: it has stemcells and nothing that only
\* create-env knows. No stemcell section of a release names a version that the manifest
\* does not ask for; this is about cf deploy, as the releases of bosh deploy have none.
\* The ops files of bosh deploy apply to the embedded bosh.yml, one after the other.
Deployable ==
  /\ BOSHManifests # {}
  /\ \A p \in Handed :
       LET out == deploy[p].out IN
       /\ out.sections = {} /\ out.stemcells # <<>>
       /\ \A r \in ToSet(out.releases) :
            r.stemcell # NoSection => \E s \in ToSet(out.stemcells) : s.version = r.stemcell

\* Jobs that consolidate.go:29-41 keeps apart: they share a port or a package.
Apart == {{"doppler", "reverse_log_proxy"}, {"nats-tls", "bbs"},
          {"smoke_tests", "cloud_controller_ng"}}

\* Every job of every group but haproxy runs once in the group that its source is merged
\* into, ssh_proxy in router, with all its routes, on a disk if its source has one, and in
\* router at the addresses of its source; no two jobs meet that must not. Other addresses
\* are dropped, and of several disks one is kept.
EveryJobRuns ==
  \A p \in Consolidated :
    LET sources == embedded.cf.groups
        groups == deploy[p].out.groups
    IN  /\ \A s \in ToSet(sources) : s.name # "haproxy" =>
             \A job \in ToSet(s.jobs) :
               LET homes == Named(groups, IF job.name = "ssh_proxy" THEN "router"
                                          ELSE MappedTo(s.name))
               IN  /\ Cardinality(homes) = 1
                   /\ \A g \in homes :
                        /\ Cardinality(Runs(groups[g], job.name)) = 1
                        /\ ToSet(job.routes) \subseteq RoutesOf(groups[g])
                        /\ job.name # "ssh_proxy" =>
                             /\ s.disk # NoDisk => groups[g].disk # NoDisk
                             /\ groups[g].name = "router" => s.ips \subseteq groups[g].ips
        /\ \A g \in DOMAIN groups : \A pair \in Apart :
             \E name \in pair : Runs(groups[g], name) = {}

\* A name resolves to the group that now runs what it resolved to before, also if the job
\* was moved away from the other jobs of its group.
AliasesReachJobs ==
  \A p \in Consolidated :
    \A alias \in ToSet(embedded.cf.aliases) :
      \A s \in ToSet(embedded.cf.groups) :
        s.name \in ToSet(alias.targets) /\ s.name # "haproxy" =>
          \A name \in Serves(alias.domain, s) :
            \E rewritten \in ToSet(deploy[p].out.aliases) :
              /\ rewritten.domain = alias.domain
              /\ \E g \in DOMAIN deploy[p].out.groups :
                   /\ deploy[p].out.groups[g].name \in ToSet(rewritten.targets)
                   /\ Runs(deploy[p].out.groups[g], name) # {}
=============================================================================

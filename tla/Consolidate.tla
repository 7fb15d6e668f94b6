----------------------------- MODULE Consolidate -----------------------------
(***************************************************************************)
(* How cf deploy turns the instance groups of a manifest into five, and    *)
(* drops what names the groups that are gone; and how releases that the    *)
(* director has lose their URL.                                            *)
(*                                                                         *)
(* A manifest is a record of its groups (a sequence: name, jobs, disk,     *)
(* static addresses, extensions), its DNS aliases (a sequence: domain and  *)
(* groups it resolves to), its releases and its variables.  Of a job there *)
(* is its name and, of a route_registrar, its routes.                      *)
(***************************************************************************)
EXTENDS Naturals, Sequences, FiniteSets, SequencesExt

CONSTANT NoDisk   \* a group without a persistent disk

\* A sequence without the members of a set.
Without(seq, S) ==
  FoldLeft(LAMBDA kept, x : IF x \in S THEN kept ELSE Append(kept, x), <<>>, seq)

\* A sequence with only the members of a set.
Only(seq, S) == Without(seq, ToSet(seq) \ S)

-----------------------------------------------------------------------------
sourceMapping ==
  [control   |-> {"diego-api", "uaa", "api", "cc-worker", "scheduler", "log-cache",
                  "log-api", "rotate-cc-database-key", "credhub"},
   compute   |-> {"diego-cell"},
   database  |-> {"nats", "database"},
   router    |-> {"smoke-tests", "router", "tcp-router"},
   blobstore |-> {"singleton-blobstore", "doppler"},
   removed   |-> {"haproxy"}]

Known == UNION {sourceMapping[tg] : tg \in DOMAIN sourceMapping}
MappedTo(name) == CHOOSE tg \in DOMAIN sourceMapping : name \in sourceMapping[tg]

\* The order of deployment; a serial group is a fence between those before and after.
instanceGroups == <<"database", "blobstore", "control", "compute", "router">>
serialGroups == {"database", "control"}

jobsExtractedFromScheduler == {"ssh_proxy"}
SSHDomain == "ssh-proxy.service.cf.internal"
domainOverrides == [d \in {SSHDomain} |-> "router"]

\* The group that a job of a source group goes to.
JobTarget(source, job) ==
  IF source.name = "scheduler" /\ job.name \in jobsExtractedFromScheduler
  THEN "router" ELSE MappedTo(source.name)

-----------------------------------------------------------------------------
\* Mutant: of two jobs of one name the first is kept, whatever it is.
AddJobDropping(jobs, job) ==
  IF \E i \in DOMAIN jobs : jobs[i].name = job.name THEN jobs ELSE Append(jobs, job)

\* Of two jobs of one name the first is kept, but a route_registrar keeps the routes of both.
AddJob(jobs, job) ==
  IF \A i \in DOMAIN jobs : jobs[i].name # job.name THEN Append(jobs, job)
  ELSE [i \in DOMAIN jobs |->
          IF jobs[i].name = job.name /\ job.name = "route_registrar"
          THEN [jobs[i] EXCEPT !.routes = @ \o job.routes] ELSE jobs[i]]

\* The jobs of a source for a group, and those of all sources, in order.
JobsFor(tg, source) ==
  Only(source.jobs, {job \in ToSet(source.jobs) : JobTarget(source, job) = tg})

JobsSentTo(tg, sources) == FlattenSeq([i \in DOMAIN sources |-> JobsFor(tg, sources[i])])

From(tg, sources) == Only(sources, {source \in ToSet(sources) : MappedTo(source.name) = tg})

\* The first disk of the sources, the static addresses of the router, the extensions of all.
Merged(tg, sources) ==
  LET own == From(tg, sources)
      disks == {i \in DOMAIN own : own[i].disk # NoDisk}
  IN  [name |-> tg,
       serial |-> tg \in serialGroups,
       jobs |-> FoldLeft(AddJob, <<>>, JobsSentTo(tg, sources)),
       disk |-> IF disks = {} THEN NoDisk ELSE own[Min(disks)].disk,
       ips |-> IF tg = "router" THEN UNION {own[i].ips : i \in DOMAIN own} ELSE {},
       extensions |-> UNION {own[i].extensions : i \in DOMAIN own}]

BuildConsolidated(sources) ==
  LET merged == [i \in DOMAIN instanceGroups |-> Merged(instanceGroups[i], sources)]
  IN  Without(merged, {group \in ToSet(merged) : group.jobs = <<>>})

\* Mutant: domains have no group of their own.
RewriteTargetsBySource(alias) ==
  LET kept == Without(alias.targets, sourceMapping.removed)
  IN  [alias EXCEPT !.targets = [i \in DOMAIN kept |-> IF kept[i] \in Known THEN MappedTo(kept[i])
                                                       ELSE kept[i]]]

\* The override of a domain comes before the group, also before one that is removed.
RewriteTargets(alias) ==
  LET overridden == alias.domain \in DOMAIN domainOverrides
      kept == Without(alias.targets, IF overridden THEN {} ELSE sourceMapping.removed)
      Target(g) == IF overridden THEN domainOverrides[alias.domain]
                   ELSE IF g \in Known THEN MappedTo(g) ELSE g
  IN  [alias EXCEPT !.targets = [i \in DOMAIN kept |-> Target(kept[i])]]

RewriteAddonAliases(aliases) ==
  LET rewritten == [i \in DOMAIN aliases |-> RewriteTargets(aliases[i])]
  IN  Without(rewritten, {alias \in ToSet(rewritten) : alias.targets = <<>>})

FilterHaproxyReleases(releases) ==
  Without(releases, {r \in ToSet(releases) : r.name = "haproxy"})
FilterHaproxyVariables(variables) == Without(variables, {"haproxy_ca", "haproxy_ssl"})

ValidMapping(sources) == \A i \in DOMAIN sources : sources[i].name \in Known

\* Of a manifest all of whose groups are known.
ConsolidateInstanceGroups(manifest) ==
  [manifest EXCEPT !.groups = BuildConsolidated(@),
                   !.aliases = RewriteAddonAliases(@),
                   !.releases = FilterHaproxyReleases(@),
                   !.variables = FilterHaproxyVariables(@)]

-----------------------------------------------------------------------------
\* uploadedrelease.Filter: the patch finds a release by its name, and refuses two of one
\* name.
FilterPatches(releases, existing) ==
  \A i, j \in DOMAIN releases :
    i # j /\ releases[i].name = releases[j].name
      => <<releases[i].name, releases[i].version>> \notin existing

Filter(releases, existing) ==
  [i \in DOMAIN releases |->
     IF <<releases[i].name, releases[i].version>> \in existing
     THEN [releases[i] EXCEPT !.url = FALSE] ELSE releases[i]]

-----------------------------------------------------------------------------
\* What a manifest and its consolidated form have to do with each other.

Named(groups, name) == {i \in DOMAIN groups : groups[i].name = name}
Runs(group, name) == {i \in DOMAIN group.jobs : group.jobs[i].name = name}
RoutesOf(group) == UNION {ToSet(group.jobs[i].routes) : i \in DOMAIN group.jobs}

\* The jobs that a domain resolves to in one of its groups.
Serves(domain, source) ==
  {n \in {source.jobs[i].name : i \in DOMAIN source.jobs} :
     domain = SSHDomain <=> n \in jobsExtractedFromScheduler}
=============================================================================

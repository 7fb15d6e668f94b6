-------------------------- MODULE MCManifestPipeline --------------------------
(* ManifestPipeline for TLC: every manifest of up to MaxGroups of nine groups, and of   *)
(* one or two of twelve, in every order.                                                *)
EXTENDS ManifestPipeline, TLC

CONSTANTS noble, jammy, disk, MaxGroups

Job(name) == [name |-> name, routes |-> <<>>]
Registrar(routes) == [name |-> "route_registrar", routes |-> routes]
Group(name, jobs) == [name |-> name, jobs |-> jobs, disk |-> NoDisk, ips |-> {}, extensions |-> {}]

MCGroups ==
  {Group("scheduler", <<Job("cc_clock"), Job("ssh_proxy")>>),
   Group("uaa", <<Registrar(<<"uaa">>), Job("uaa")>>),
   Group("api", <<Registrar(<<"api">>), Job("cloud_controller_ng")>>),
   Group("log-api", <<Job("reverse_log_proxy")>>),
   Group("doppler", <<Job("doppler"), Registrar(<<"doppler">>)>>),
   [Group("singleton-blobstore", <<Registrar(<<"blobstore">>)>>) EXCEPT !.disk = disk],
   [Group("router", <<Job("gorouter")>>) EXCEPT !.ips = {"router"}],
   [Group("haproxy", <<Job("haproxy")>>) EXCEPT !.ips = {"haproxy"}],
   Group("unknown", <<Job("uaa")>>)}

\* With these, every job of Apart has its group.
PairedGroups ==
  MCGroups \cup {Group("nats", <<Job("nats-tls")>>), Group("diego-api", <<Job("bbs")>>),
                 Group("smoke-tests", <<Job("smoke_tests")>>)}

Aliases(groups) ==
  <<[domain |-> SSHDomain, targets |-> <<"scheduler">>],
    [domain |-> "all", targets |-> <<"haproxy", "scheduler", "api", "doppler", "singleton-blobstore">>],
    [domain |-> "haproxy", targets |-> <<"haproxy">>]>>

Labelled == [PlainRelease("capi", 1) EXCEPT !.stemcell = 1]
MCReleaseLists ==
  {<<PlainRelease("capi", 1), PlainRelease("haproxy", 1)>>,
   <<PlainRelease("capi", 2), PlainRelease("uaa", 1)>>,
   <<PlainRelease("capi", 1), PlainRelease("uaa", 1), PlainRelease("uaa", 2)>>}
MCReleases == {<<"capi", 1>>, <<"uaa", 1>>}

Req(os, version) == [os |-> os, version |-> version]
Reqs == {<<>>, <<Req(noble, Latest)>>, <<Req(jammy, 2), Req(noble, Latest)>>}

Doc(reqs, gs, rs) ==
  [cf |-> [stemcells |-> reqs, groups |-> gs, aliases |-> Aliases(gs), releases |-> rs,
           variables |-> <<"haproxy_ca", "cf_admin_password">>, sections |-> {}],
   compiled |-> <<Labelled>>,
   dns |-> [releases |-> <<PlainRelease("bosh-dns", 1)>>, variables |-> <<"dns_api_tls">>]]

UAA == <<Group("uaa", <<Job("uaa")>>)>>
OneList == <<PlainRelease("capi", 1), PlainRelease("haproxy", 1)>>

\* Lists of stemcells, of releases, and of groups in every order.
StemcellDocs == {Doc(reqs, UAA, OneList) : reqs \in Reqs}
ReleaseDocs == {Doc(<<Req(noble, Latest)>>, UAA, rs) : rs \in MCReleaseLists}
GroupDocs ==
  {Doc(<<Req(noble, Latest)>>, gs, OneList) :
     gs \in {gs \in UNION {[1 .. n -> MCGroups] : n \in 1 .. MaxGroups} \cup
                     [1 .. 1 -> PairedGroups] \cup [1 .. 2 -> PairedGroups] :
               \A i, j \in DOMAIN gs : i # j => gs[i] # gs[j]}}

MCDocs == StemcellDocs \cup ReleaseDocs \cup GroupDocs

\* Lists of releases and groups meet no other process, lists of stemcells meet all, and
\* whatever the registry and the Docker daemon have.
MCInit ==
  /\ \/ /\ embedded \in StemcellDocs /\ releases = {}
        /\ pc = [p \in Procs |-> "begin"]
     \/ /\ \/ embedded \in ReleaseDocs /\ releases \in SUBSET Releases
           \/ embedded \in GroupDocs /\ releases = {}
        /\ kind = "incus" /\ suffixed = {} /\ stemcells = {[os |-> noble, version |-> 1, image |-> 1]}
        /\ pc = [p \in Procs |-> IF p \in Deployers THEN "begin" ELSE "done"]
  /\ Init
  /\ local[jammy].image = None
MCSpec == MCInit /\ [][Next]_vars
===============================================================================

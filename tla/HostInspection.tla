--------------------------- MODULE HostInspection ---------------------------
(***************************************************************************)
(* The inspection of the domain itself, from its mail records to the tests *)
(* that are executed for it: collect_domain_mail_facts and inspect_host of *)
(* discovery/site.rs, with the lookups of dns.rs and the fetches and       *)
(* endpoint probes of surface.rs.  The host is found dead when no probe    *)
(* reaches it, or when its root page looks broken and nothing tells what   *)
(* it serves.  The steps read a host that changes: each gets an answer of  *)
(* its own.                                                                *)
(***************************************************************************)
EXTENDS EndpointProbes, Planning

CONSTANTS
  Host,           \* the domain
  DavEndpoints,   \* length of DAV_ENDPOINT_PROBES
  ApiEndpoints    \* length of API_ENDPOINT_PROBES

ASSUME HostInspectionAssumption == {DavEndpoints, ApiEndpoints} \subseteq 1..MaxSize

VARIABLES
  pc,         \* control point
  probes,     \* which of the endpoint probes are enabled
  mail,       \* the domain has a mail profile
  alive,
  dead,       \* reason of dead_host, "none" when there is none
  reached,    \* history: a liveness probe succeeded
  cname,      \* the host has a CNAME record
  addresses,  \* the host has address records
  surface,    \* SurfaceObservation
  profile,    \* site_profile
  facts

findings == <<mail, alive, dead, reached, cname, addresses, surface, profile>>
vars == <<pc, probes, findings, facts, probeVars>>

Control == {"mail", "liveness", "cname", "addresses", "surface", "dav", "verdict",
            "api", "facts", "done", "failed"}

\* A page has content; a shell is HTML without; text is not HTML. upstream:
\* the status or the text of the page is that of a failing proxy.
Bodies == {"blank", "page", "shell", "text"}
Surfaces == [scheme : {"https", "http"}, body : Bodies, upstream : BOOLEAN]
NotFetched == [scheme |-> "https", body |-> "blank", upstream |-> FALSE]

Profile(kind, provider) == [kind |-> kind, provider |-> provider]
NoProfile == Profile("none", "none")
Kinds == {"none", "api", "cms", "basic", "dav"}
Providers == {"none", "wordpress", "other"}

\* Those the configuration enables and the run asks for.
RequestedProbes == SUBSET {"dav", "api"}

Init ==
  /\ pc = "mail"
  /\ probes \in RequestedProbes
  /\ mail = FALSE /\ alive = FALSE /\ dead = "none" /\ reached = FALSE
  /\ cname = FALSE /\ addresses = FALSE
  /\ surface = NotFetched /\ profile = NoProfile
  /\ facts = {}
  /\ NoBatch

Fail ==
  /\ pc' = "failed"
  /\ UNCHANGED <<probes, findings, facts>>

-----------------------------------------------------------------------------
\* Lookups. A tool that ends badly has no records; one that cannot be started
\* is an error.

Replies == {"some", "none", "error"}

\* dig, then host, then the zone dump.
FirstOf(dig, host, zone) ==
  IF dig # "none" THEN dig
  ELSE IF host # "none" THEN host
  ELSE IF zone THEN "some" ELSE "none"

QueryTxt == {FirstOf(dig, host, zone) : dig, host \in Replies, zone \in BOOLEAN}
QueryCname == {FirstOf(dig, host, zone) : dig, host \in Replies, zone \in BOOLEAN}

\* host is asked at the same time as dig.
QueryMx ==
  {IF "error" \in {dig, host} THEN "error" ELSE FirstOf(dig, host, zone) :
     dig, host \in Replies, zone \in BOOLEAN}

QueryDkim == {IF r = "error" THEN "none" ELSE r : r \in QueryTxt}

\* The A and the AAAA records, then the system's resolver, then the zone dump.
QueryAddresses ==
  {IF "error" \in {a, aaaa} THEN "error"
   ELSE IF "some" \in {a, aaaa} \/ system \/ zone THEN "some" ELSE "none" :
     a, aaaa \in Replies, system, zone \in BOOLEAN}

\* A mail profile needs one signal: an MX or DKIM record, or a TXT record that
\* is an SPF or a DMARC policy.
CollectDomainMailFacts ==
  /\ pc = "mail"
  /\ \E mx \in QueryMx, spf, dmarc \in QueryTxt, dkim \in QueryDkim :
       IF "error" \in {mx, spf, dmarc} THEN Fail
       ELSE /\ \E isSpf, isDmarc \in BOOLEAN :
                 mail' = \/ mx = "some" \/ dkim = "some"
                         \/ spf = "some" /\ isSpf
                         \/ dmarc = "some" /\ isDmarc
            /\ pc' = "liveness"
            /\ UNCHANGED <<probes, alive, dead, reached, cname, addresses, surface,
                           profile, facts>>
  /\ UNCHANGED probeVars

\* A probe that cannot be started has failed, unlike a lookup.
ProbeResults == {"success", "failure"}

\* The three probes run at once, and one success is enough.
CheckHostLiveness ==
  /\ pc = "liveness"
  /\ \E https, http, ping \in ProbeResults :
       reached' = ("success" \in {https, http, ping})
  /\ alive' = reached'
  /\ dead' = IF reached' THEN "none" ELSE "unreachable"
  /\ pc' = "cname"
  /\ UNCHANGED <<probes, mail, cname, addresses, surface, profile, facts, probeVars>>

FindCname ==
  /\ pc = "cname"
  /\ \E reply \in QueryCname :
       IF reply = "error" THEN Fail
       ELSE /\ cname' = (reply = "some")
            /\ pc' = "addresses"
            /\ UNCHANGED <<probes, mail, alive, dead, reached, addresses, surface,
                           profile, facts>>
  /\ UNCHANGED probeVars

\* The root page of a host is fetched when it has addresses and is alive.
FindAddresses ==
  /\ pc = "addresses"
  /\ \E reply \in QueryAddresses :
       IF reply = "error" THEN Fail
       ELSE /\ addresses' = (reply = "some")
            /\ pc' = IF addresses' /\ alive THEN "surface" ELSE "facts"
            /\ UNCHANGED <<probes, mail, alive, dead, reached, cname, surface,
                           profile, facts>>
  /\ UNCHANGED probeVars

-----------------------------------------------------------------------------
\* The root page.

\* The scheme is probed again, and https is taken when neither answers.
ReachableScheme(https, http) ==
  IF https = "failure" /\ http = "success" THEN "http" ELSE "https"

\* classify_site: from the headers, the page, robots.txt and the sitemaps, of
\* which any may tell, whatever the page is. A plain site is a basic one
\* without provider.
SiteProfiles ==
  {Profile("api", "none"), Profile("cms", "wordpress"), Profile("cms", "other"),
   Profile("basic", "other"), Profile("dav", "other"), Profile("basic", "none")}

IsStrong(p) == p.kind # "none" /\ (p.kind # "basic" \/ p.provider # "none")

DetectSurfaceFailure(s) ==
  IF s.body = "blank" THEN "blank"
  ELSE IF s.upstream THEN "upstream"
  ELSE IF s.body = "shell" THEN "shell" ELSE "none"

ShouldProbeDav(p) == "dav" \in probes /\ ~IsStrong(p)
ShouldProbeApi(reason, p) == "api" \in probes /\ reason = "blank" /\ ~IsStrong(p)

FetchSurface ==
  /\ pc = "surface"
  /\ \/ Fail
     \/ /\ \E https, http \in ProbeResults, body \in Bodies, upstream \in BOOLEAN :
             surface' = [scheme |-> ReachableScheme(https, http), body |-> body,
                         upstream |-> upstream]
        /\ profile' \in SiteProfiles
        /\ pc' = IF ShouldProbeDav(profile') THEN "dav" ELSE "verdict"
        /\ UNCHANGED <<probes, mail, alive, dead, reached, cname, addresses, facts>>
  /\ UNCHANGED probeVars

-----------------------------------------------------------------------------
\* The endpoint probes, and what they tell.

\* Mutant: the host is listed as dead and remains alive.
ListOnly(reason) == dead' = reason /\ UNCHANGED alive

MarkDead(reason) == dead' = reason /\ alive' = FALSE

StartProbes ==
  /\ \/ pc = "dav" /\ StartBatch(DavEndpoints)
     \/ pc = "api" /\ StartBatch(ApiEndpoints)
  /\ UNCHANGED <<pc, probes, findings, facts>>

ProbeEndpoint ==
  /\ \E t \in Threads : Probe(t)
  /\ UNCHANGED <<pc, probes, findings, facts>>

JoinThread ==
  /\ Join
  /\ UNCHANGED <<pc, probes, findings, facts>>

ProbesFail == BatchBroken /\ EndBatch /\ Fail

\* Whatever the endpoint says, its profile has a provider.
ProbedDavProfile == Profile("dav", "other")

\* An endpoint that answers as a DAV server does replaces the profile.
DavProbed ==
  /\ pc = "dav" /\ BatchJoined /\ EndBatch
  /\ profile' = IF Chosen = -1 THEN profile ELSE ProbedDavProfile
  /\ pc' = "verdict"
  /\ UNCHANGED <<probes, mail, alive, dead, reached, cname, addresses, surface, facts>>

\* A broken root page is that of a dead host, unless the site was classified;
\* behind a blank one there may still be an API.
Verdict ==
  LET reason == DetectSurfaceFailure(surface) IN
  /\ pc = "verdict"
  /\ IF reason # "none" /\ ShouldProbeApi(reason, profile)
     THEN pc' = "api" /\ UNCHANGED <<alive, dead>>
     ELSE /\ pc' = "facts"
          /\ IF reason # "none" /\ ~IsStrong(profile)
             THEN MarkDead(reason) ELSE UNCHANGED <<alive, dead>>
  /\ UNCHANGED <<probes, mail, reached, cname, addresses, surface, profile, facts,
                 probeVars>>

ApiProbed ==
  /\ pc = "api" /\ BatchJoined /\ EndBatch
  /\ IF Chosen = -1
     THEN MarkDead(DetectSurfaceFailure(surface)) /\ UNCHANGED profile
     ELSE profile' = Profile("api", "other") /\ UNCHANGED <<alive, dead>>
  /\ pc' = "facts"
  /\ UNCHANGED <<probes, mail, reached, cname, addresses, surface, facts>>

-----------------------------------------------------------------------------
\* The facts.

Fact(entity, attrs) == [target |-> Host, entity |-> entity, attrs |-> attrs]

MailFact == Fact("service_profile", [role |-> Text("mail")])
CnameFact == Fact("dns_record", [type |-> Text("CNAME")])
AddressFact == Fact("ip_address", [host |-> Text(Host)])

LooksLikeWebsite(s) == s.body = "page"

\* A host without addresses is said to be served by https, and nothing of PSI.
WebServiceFact ==
  Fact("web_service",
       IF addresses
       THEN [scheme |-> Text(surface.scheme), alive |-> Flag(alive),
             psi_eligible |-> Flag(alive /\ LooksLikeWebsite(surface))]
       ELSE [scheme |-> Text("https"), alive |-> Flag(alive)])

SiteProfileFact ==
  Fact("site_profile",
       IF profile.provider = "none"
       THEN [kind |-> Text(profile.kind)]
       ELSE [kind |-> Text(profile.kind), provider |-> Text(profile.provider)])

WriteFacts ==
  /\ pc = "facts"
  /\ facts' = {WebServiceFact}
              \union (IF mail THEN {MailFact} ELSE {})
              \union (IF cname THEN {CnameFact} ELSE {})
              \union (IF addresses THEN {AddressFact} ELSE {})
              \union (IF profile = NoProfile THEN {} ELSE {SiteProfileFact})
  /\ pc' = "done"
  /\ UNCHANGED <<probes, findings, probeVars>>

\* Only an inspection that has returned may stop.
Returned == pc \in {"done", "failed"} /\ UNCHANGED vars

Next ==
  \/ CollectDomainMailFacts
  \/ CheckHostLiveness
  \/ FindCname
  \/ FindAddresses
  \/ FetchSurface
  \/ StartProbes
  \/ ProbeEndpoint
  \/ JoinThread
  \/ ProbesFail
  \/ DavProbed
  \/ Verdict
  \/ ApiProbed
  \/ WriteFacts
  \/ Returned

Spec == Init /\ [][Next]_vars

-----------------------------------------------------------------------------
\* Properties.

\* Every variable keeps its type, and a batch has no more threads than the
\* budget of probe_worker_count.
TypeOK ==
  /\ pc \in Control
  /\ probes \in RequestedProbes
  /\ {mail, alive, reached, cname, addresses} \subseteq BOOLEAN
  /\ dead \in {"none", "unreachable", "blank", "upstream", "shell"}
  /\ surface \in Surfaces
  /\ profile \in [kind : Kinds, provider : Providers]
  /\ \A fact \in facts : fact.target = Host
  /\ ProbeTypeOK

\* inspect_host lists a host as dead exactly when no probe reached it, or its
\* root page is blank, a proxy's error or an empty shell and neither the page
\* nor an endpoint told what it serves; and its facts say alive otherwise.
VerdictsAreSound ==
  pc = "done" =>
    LET brokenPage == surface.body \in {"blank", "shell"} \/ surface.upstream
        told == profile.kind \in {"api", "cms", "dav"} \/ profile.provider # "none"
    IN /\ dead = "unreachable" <=> ~reached
       /\ dead \in {"blank", "upstream", "shell"} <=>
            reached /\ addresses /\ brokenPage /\ ~told
       /\ alive <=> dead = "none"

\* The tests that a run that asked for all of them executes for the host: the
\* https tests when it is alive by https, PSI when that shows a page, the mail,
\* CNAME, address and site tests by what was found of it, and none when it is
\* dead, though some are planned (RulesEngine::plan, execute_one_planned_test).
PlansFollowVerdicts ==
  pc = "done" =>
    LET requested == UNION {Rules[i].run : i \in DOMAIN Rules}
        deadHosts == IF dead = "none" THEN {} ELSE {Host}
        executed == {p[1] : p \in RuntimeTests(facts, requested)
                                  \ SkippedTests(facts, requested, deadHosts)}
        overHttps == dead = "none" /\ (addresses => surface.scheme = "https")
        Executes(tests, condition) ==
          IF condition THEN tests \subseteq executed ELSE tests \intersect executed = {}
    IN /\ Executes(HttpsTests, overHttps)
       /\ Executes({"psi_web_performance"}, overHttps /\ addresses /\ surface.body = "page")
       /\ Executes(MailTests, dead = "none" /\ mail)
       /\ Executes({"dns_cname_chain"}, dead = "none" /\ cname)
       /\ Executes(IpTests, dead = "none" /\ addresses)
       /\ Executes({"web_basic_surface"}, dead = "none" /\ profile.kind = "basic")
       /\ Executes({"wp_touchpoints"}, dead = "none" /\ profile.provider = "wordpress")
=============================================================================

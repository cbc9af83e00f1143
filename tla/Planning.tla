------------------------------ MODULE Planning ------------------------------
(***************************************************************************)
(* The planner: rules match facts, matching facts schedule tests, and the  *)
(* run task keeps those that were requested and executes those whose host  *)
(* is not dead (planner.rs, rules.yaml, backend/worker.rs).                *)
(*                                                                         *)
(* A fact has a target, an entity and attributes, of which only those that *)
(* some rule asks for are kept. The value of an attribute is a pair of its *)
(* JSON type and its value, because a rule gives every value as a string.  *)
(***************************************************************************)
EXTENDS Integers, Sequences

Text(s) == <<"String", s>>
Flag(b) == <<"Bool", b>>

HttpsTests == {"web_hsts", "web_security_headers", "web_mixed_content"}
MailTests == {"dns_dmarc_policy", "mail_server_probe"}
IpTests == {"ip_reputation_dnsbl", "ip_hosting_provider", "ip_geolocation"}

Rules == <<
  [entity |-> "web_service",
   attr_equals |-> [scheme |-> "https", alive |-> "true"],
   run |-> HttpsTests],
  [entity |-> "web_service",
   attr_equals |-> [scheme |-> "https", alive |-> "true", psi_eligible |-> "true"],
   run |-> {"psi_web_performance"}],
  [entity |-> "service_profile", attr_equals |-> [role |-> "mail"], run |-> MailTests],
  [entity |-> "dns_record", attr_equals |-> [type |-> "CNAME"], run |-> {"dns_cname_chain"}],
  [entity |-> "site_profile",
   attr_equals |-> [kind |-> "cms", provider |-> "wordpress"],
   run |-> {"wp_touchpoints", "web_seo_basics"}],
  [entity |-> "site_profile", attr_equals |-> [kind |-> "basic"],
   run |-> {"web_basic_surface", "web_seo_basics"}],
  [entity |-> "ip_address", attr_equals |-> <<>>, run |-> IpTests] >>

Agrees(value, expected) ==
  \/ value[1] = "String" /\ value[2] = expected
  \/ value[1] = "Bool" /\ expected \in {"true", "false"} /\ value[2] = (expected = "true")

\* Mutant: an attribute a fact does not have agrees with everything.
AgreesIfThere(attrs, attr, expected) ==
  attr \in DOMAIN attrs => Agrees(attrs[attr], expected)

AttrAgrees(attrs, attr, expected) ==
  attr \in DOMAIN attrs /\ Agrees(attrs[attr], expected)

Matches(rule, fact) ==
  /\ fact.entity = rule.entity
  /\ \A attr \in DOMAIN rule.attr_equals :
       AttrAgrees(fact.attrs, attr, rule.attr_equals[attr])

\* What is scheduled for one fact.
TestsOf(fact) ==
  UNION {Rules[i].run : i \in {j \in DOMAIN Rules : Matches(Rules[j], fact)}}

\* RulesEngine::plan: one planned test per test and target, whatever the
\* number of facts and rules that ask for it.
PlanOf(facts) == UNION {TestsOf(fact) \X {fact.target} : fact \in facts}

\* process_run keeps the requested tests; each is executed for the target of
\* its facts.
RuntimeTests(facts, requested) == {p \in PlanOf(facts) : p[1] \in requested}

RunsOnDeadHost(test) == test \in {"web_well_known", "web_api_fuzz"}

\* execute_one_planned_test skips a test whose host discovery found dead.
SkippedTests(facts, requested, deadHosts) ==
  {p \in RuntimeTests(facts, requested) : p[2] \in deadHosts /\ ~RunsOnDeadHost(p[1])}
=============================================================================

------------------------------ MODULE Discovery ------------------------------
(***************************************************************************)
(* The discovery of one run (perform_discovery_internal of discovery.rs):  *)
(* up to MaxPasses passes over the hosts of a domain, of which the best is *)
(* kept.  A pass seeds a queue with the hosts of the mail records, of the  *)
(* configuration and of certificate transparency (CT), and inspects every  *)
(* host of the queue, which may yield more hosts, up to MaxDepth links     *)
(* from a seed.                                                            *)
(*                                                                         *)
(* The names of CT come from a cache in the database, shared with other    *)
(* runs of the domain, or from CT sources (query_ct_names of ct.rs).       *)
(***************************************************************************)
EXTENDS Integers, FiniteSets, Sequences, SequencesExt

CONSTANTS
  Hosts,      \* host names
  Apex,       \* the domain of the run
  InScope,    \* hosts that is_host_in_scope accepts
  SeedHosts,  \* gather_seed_hosts: the zone dump and the configuration
  MailHosts,  \* hosts that mail records may name
  CtNames,    \* names that CT sources, or a guess by DNS, may return
  Links,      \* Links[h]: hosts that an inspection of h may yield
  Passes,     \* configured max_passes
  MaxDepth,   \* MAX_DISCOVERY_DEPTH, 5 in the code
  Ttl,        \* ct_cache_ttl_seconds; 0 disables the cache
  MaxClock    \* bound: the clock stops here

ASSUME DiscoveryAssumption ==
  /\ IsFiniteSet(Hosts)
  /\ Apex \in Hosts
  /\ {InScope, SeedHosts, MailHosts, CtNames} \subseteq SUBSET Hosts
  /\ Links \in [Hosts -> SUBSET Hosts]
  /\ {Passes, MaxDepth, Ttl, MaxClock} \subseteq Nat

MaxPasses == IF Passes < 1 THEN 1 ELSE IF Passes > 5 THEN 5 ELSE Passes

VARIABLES
  pc,        \* control point of the discovery
  pass,      \* number of the pass
  queue,     \* hosts to inspect, each with its depth
  visited,   \* hosts inspected in this pass
  names,     \* names of CT not yet stored
  best,      \* the pass whose outcome is kept; 0 before the first
  lastCount, \* subdomains of that pass
  cache,     \* the row of ct_subdomain_cache; no names: no row
  clock,
  seeds,     \* history: hosts this pass was seeded with
  found,     \* history: links found in this pass
  counts,    \* history: subdomains of each finished pass
  stored     \* history: when this run last stored names; -1 before

queueing == <<queue, visited>>
outcome == <<pass, best, lastCount, counts>>
vars == <<pc, queueing, names, outcome, cache, clock, seeds, found, stored>>

Control == {"begin", "load", "ask", "store", "fallBack", "inspect",
            "passEnds", "sleep", "done", "failed"}

Init ==
  /\ pc = "begin"
  /\ pass = 1
  /\ queue = <<>>
  /\ visited = {}
  /\ names = {}
  /\ best = 0
  /\ lastCount = 0
  /\ cache = [names |-> {}, at |-> 0]
  /\ clock = 0
  /\ seeds = {}
  /\ found = {}
  /\ counts = <<>>
  /\ stored = -1

\* Some order of the hosts of a set, each at a depth.
Queued(hosts, depth) ==
  {[i \in 1..Len(s) |-> <<s[i], depth>>] : s \in SetToSeqs(hosts)}

-----------------------------------------------------------------------------
\* The seeds of a pass.

\* The mail hosts in scope, then the seed hosts, filtered when they leave
\* the queue.
BeginPass ==
  /\ pc = "begin"
  /\ \E mail \in SUBSET MailHosts :
       /\ \E m \in Queued(mail \intersect InScope, 0), s \in Queued(SeedHosts, 0) :
            queue' = m \o s
       /\ seeds' = mail \union SeedHosts
  /\ visited' = {}
  /\ found' = {}
  /\ pc' = "load"
  /\ UNCHANGED <<names, outcome, cache, clock, stored>>

\* The CT names in scope join the queue.
TakeNames(ct) ==
  /\ \E q \in Queued(ct \intersect InScope, 0) : queue' = queue \o q
  /\ seeds' = seeds \union ct
  /\ pc' = "inspect"

CacheIsFresh ==
  /\ cache.names # {}
  /\ clock - cache.at \in 0..Ttl

LoadCache ==
  /\ pc = "load"
  /\ IF Ttl > 0 /\ CacheIsFresh
     THEN TakeNames(cache.names)
     ELSE pc' = "ask" /\ UNCHANGED <<queue, seeds>>
  /\ UNCHANGED <<visited, names, outcome, cache, clock, found, stored>>

\* The first source with names answers, or none does.
AskSources ==
  /\ pc = "ask"
  /\ \E answer \in SUBSET CtNames :
       IF answer = {}
       THEN pc' = "fallBack" /\ UNCHANGED <<queue, seeds, names>>
       ELSE IF Ttl > 0
       THEN pc' = "store" /\ names' = answer /\ UNCHANGED <<queue, seeds>>
       ELSE TakeNames(answer) /\ UNCHANGED names
  /\ UNCHANGED <<visited, outcome, cache, clock, found, stored>>

\* Mutant: an update of the row leaves the time of its insertion.
UpsertKeepingTime(ct) ==
  cache' = [names |-> ct, at |-> IF cache.names = {} THEN clock ELSE cache.at]

\* The upsert of the row.
Upsert(ct) == cache' = [names |-> ct, at |-> clock]

StoreNames ==
  /\ pc = "store"
  /\ Upsert(names)
  /\ TakeNames(names)
  /\ names' = {}
  /\ stored' = clock
  /\ UNCHANGED <<visited, outcome, clock, found>>

\* No source has names: the cached ones, however old, or a guess by DNS.
FallBack ==
  /\ pc = "fallBack"
  /\ IF Ttl > 0 /\ cache.names # {}
     THEN TakeNames(cache.names)
     ELSE \E guess \in SUBSET CtNames : TakeNames(guess)
  /\ UNCHANGED <<visited, names, outcome, cache, clock, found, stored>>

-----------------------------------------------------------------------------
\* The hosts of the queue.

\* Mutants: the queue is used as a stack; its head stays in it.
PopBack == [next |-> Last(queue), rest |-> Front(queue)]
Peek == [next |-> Head(queue), rest |-> queue]

\* The queue is first in, first out.
PopFront == [next |-> Head(queue), rest |-> Tail(queue)]

\* Mutant: off by one.
ExpandsAtLimit(depth) == depth <= MaxDepth

\* The hosts found at this depth are queued.
Expands(depth) == depth < MaxDepth

\* What an inspection of a host may yield: some of the hosts that its CNAME,
\* its root page and its endpoints name.
Yields(host) == SUBSET Links[host]

Skipped(host) == host \notin InScope \/ host \in visited

SkipHost ==
  /\ pc = "inspect"
  /\ queue # <<>>
  /\ Skipped(PopFront.next[1])
  /\ queue' = PopFront.rest
  /\ UNCHANGED <<pc, visited, names, outcome, cache, clock, seeds, found, stored>>

InspectHost ==
  /\ pc = "inspect"
  /\ queue # <<>>
  /\ LET host == PopFront.next[1]
         depth == PopFront.next[2]
     IN /\ ~Skipped(host)
        /\ visited' = visited \union {host}
        /\ \E new \in Yields(host) :
             /\ found' = found \union ({host} \X new)
             /\ IF Expands(depth)
                THEN \E q \in Queued((new \intersect InScope) \ visited', depth + 1) :
                       queue' = PopFront.rest \o q
                ELSE queue' = PopFront.rest
  /\ UNCHANGED <<pc, names, outcome, cache, clock, seeds, stored>>

QueueEmpty ==
  /\ pc = "inspect"
  /\ queue = <<>>
  /\ pc' = "passEnds"
  /\ UNCHANGED <<queueing, names, outcome, cache, clock, seeds, found, stored>>

-----------------------------------------------------------------------------
\* The passes.

Subdomains == Cardinality(visited \ {Apex})

Better == best = 0 \/ Subdomains > lastCount

\* Mutant: a pass is compared with the one before it.
KeepLatestCount ==
  /\ best' = IF Better THEN pass ELSE best
  /\ lastCount' = Subdomains

KeepBest ==
  IF Better
  THEN best' = pass /\ lastCount' = Subdomains
  ELSE UNCHANGED <<best, lastCount>>

Converged == ~Better /\ Subdomains = lastCount

EndPass ==
  /\ pc = "passEnds"
  /\ KeepBest
  /\ counts' = Append(counts, Subdomains)
  /\ pc' = IF pass = MaxPasses \/ Converged THEN "done" ELSE "sleep"
  /\ UNCHANGED <<pass, queueing, names, cache, clock, seeds, found, stored>>

\* After pass_backoff_ms.
Wake ==
  /\ pc = "sleep"
  /\ pass' = pass + 1
  /\ pc' = "begin"
  /\ UNCHANGED <<queueing, names, best, lastCount, counts, cache, clock, seeds,
                 found, stored>>

\* A lookup of mail records, a query of the cache or the inspection of a host
\* fails: the discovery does, with what earlier passes found.
StepFails ==
  /\ pc \in {"begin", "load", "store", "fallBack", "inspect"}
  /\ pc \in {"load", "store", "fallBack"} => Ttl > 0
  /\ pc = "inspect" => queue # <<>> /\ ~Skipped(PopFront.next[1])
  /\ pc' = "failed"
  /\ UNCHANGED <<queueing, names, outcome, cache, clock, seeds, found, stored>>

Step ==
  \/ BeginPass
  \/ LoadCache
  \/ AskSources
  \/ StoreNames
  \/ FallBack
  \/ SkipHost
  \/ InspectHost
  \/ QueueEmpty
  \/ EndPass
  \/ Wake
  \/ StepFails

\* Another run of the domain stores names.
OtherRunStores ==
  /\ pc \notin {"done", "failed"}
  /\ Ttl > 0
  /\ \E ct \in (SUBSET CtNames) \ {{}} : cache' = [names |-> ct, at |-> clock]
  /\ UNCHANGED <<pc, queueing, names, outcome, clock, seeds, found, stored>>

Tick ==
  /\ pc \notin {"done", "failed"}
  /\ clock < MaxClock
  /\ clock' = clock + 1
  /\ UNCHANGED <<pc, queueing, names, outcome, cache, seeds, found, stored>>

Next == Step \/ OtherRunStores \/ Tick

Spec == Init /\ [][Next]_vars
FairSpec == Spec /\ WF_vars(Step)

-----------------------------------------------------------------------------
\* Properties.

\* Every variable keeps its type; a host is queued no deeper than MaxDepth.
TypeOK ==
  /\ pc \in Control
  /\ pass \in 1..MaxPasses
  /\ queue \in Seq(Hosts \X (0..MaxDepth))
  /\ visited \subseteq Hosts
  /\ names \subseteq CtNames
  /\ best \in 0..pass
  /\ lastCount \in 0..Cardinality(Hosts)
  /\ cache \in [names : SUBSET CtNames, at : 0..MaxClock]
  /\ clock \in 0..MaxClock
  /\ stored \in -1..clock

\* The hosts in scope within n links of a seed, by the links found.
Within[n \in 0..MaxDepth] ==
  IF n = 0
  THEN seeds \intersect InScope
  ELSE Within[n - 1] \union
         {h \in InScope : \E g \in Within[n - 1] : <<g, h>> \in found}

\* A pass has inspected exactly the hosts in scope within MaxDepth links of a
\* seed, whatever the order in which hosts were found (the loop of
\* perform_discovery_pass, which marks a host at the depth it first leaves the
\* queue).
PassesAreComplete == pc = "passEnds" => visited = Within[MaxDepth]

\* A discovery returns the outcome of its best pass, and gives up passes only
\* when the last one found as much as the best (perform_discovery_internal).
OutcomeIsBest ==
  pc = "done" =>
    /\ best \in 1..Len(counts)
    /\ \A i \in 1..Len(counts) : counts[i] <= counts[best]
    /\ Len(counts) < MaxPasses => counts[Len(counts)] = counts[best]

\* A run that has stored names asks the sources again only when they are
\* older than Ttl, whatever other runs store (the cache of query_ct_names).
SourcesAreSpared ==
  pc = "ask" /\ stored >= 0 /\ Ttl > 0 => clock - stored > Ttl

\* A discovery ends, also when hosts link to each other in a cycle.
DiscoveryEnds == <>(pc \in {"done", "failed"})
=============================================================================

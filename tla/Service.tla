------------------------------- MODULE Service ------------------------------
(***************************************************************************)
(* One process of the backend between its host and its dependencies: the   *)
(* validation of the environment (config.ts) at boot (instrumentation.ts), *)
(* at first use and in the health probe (route (17).ts); the edge check of *)
(* the origin (proxy.ts); and a rate-limited POST, nonce or verify, from   *)
(* the edge through the limiter (RateLimit) to the first table it reads.   *)
(*                                                                         *)
(* Four files read the same environment on their own: the proxy and the    *)
(* limiter straight from process.env, the handlers and the probe through   *)
(* the validated, cached configuration.  A host is a developer's machine,  *)
(* the hosting platform, which gives a process traffic once its probe has  *)
(* answered 200, or a bare production host, where the boot check does not  *)
(* run (NEXT_RUNTIME is not nodejs) and nobody waits for the probe.        *)
(***************************************************************************)
EXTENDS RateLimit

CONSTANTS
  Environments,  \* what process.env may hold
  OriginOf,      \* the Origin header of each request: "home", "foreign" or "none"
  MaxOutages,    \* bound on outages of dependencies
  MaxRestarts    \* bound on restarts and new deployments

Hosts == {"development", "platform", "bare"}
Dependencies == {"database", "indexerData", "celoSepoliaRpc", "rateLimitStore"}

\* parses: the schema accepts it; canonical: the Supabase project and the RPC
\* endpoint are the official ones; store: both Upstash variables are set; origin:
\* CELOHT_ALLOWED_ORIGIN; chain: the chain id is the supported one.
Environment ==
  [parses : BOOLEAN, canonical : BOOLEAN, store : BOOLEAN,
   origin : {"home", "foreign", None}, chain : BOOLEAN]

Results == {"pending", "healthy", "unavailable"}

ASSUME ServiceAssumption ==
  /\ Environments \subseteq Environment
  /\ OriginOf \in [Requests -> {"home", "foreign", "none"}]
  /\ MaxOutages \in Nat /\ MaxRestarts \in Nat
  /\ None \notin {"home", "foreign"} /\ None \notin Environment
  /\ None \notin [Dependencies -> Results]

VARIABLES
  host,
  environment,  \* process.env
  process,      \* "starting", "up", or "exited"
  live,         \* does the process get traffic?
  cached,       \* has getConfig cached the environment?
  up,           \* dependencies that are reachable
  outages, restarts,
  probe,        \* result of each check of the running probe, or None
  health,       \* the probe's last answer
  seen,         \* dependencies that were reachable since the last probe began (history)
  reply,        \* the answer to each request
  servedIn      \* the environment in which a handler read its table (history)

deployment == <<host, environment, process, live>>
probing == <<probe, health, seen>>
limiter == <<vars>>
serviceVars ==
  <<vars, deployment, cached, up, outages, restarts, probing, reply, servedIn>>

Replies ==
  {"none", "forbidden", "rate_limited", "service_unavailable", "internal_error", "read",
   "dropped"}

ServiceTypeOK ==
  /\ TypeOK
  /\ host \in Hosts /\ environment \in Environments
  /\ production = (host # "development") /\ shared = environment.store
  /\ process \in {"starting", "up", "exited"} /\ live \in BOOLEAN
  /\ live => process = "up"
  /\ cached \in BOOLEAN
  /\ up \subseteq Dependencies /\ seen \subseteq Dependencies
  /\ outages \in 0 .. MaxOutages /\ restarts \in 0 .. MaxRestarts
  /\ probe \in [Dependencies -> Results] \cup {None}
  /\ health \in {"none", "healthy", "unavailable", "unconfigured"}
  /\ reply \in [Requests -> Replies]
  /\ servedIn \in [Requests -> Environments \cup {None}]

ServiceInit ==
  /\ Init
  /\ host \in Hosts /\ environment \in Environments
  /\ production = (host # "development") /\ shared = environment.store
  /\ process = "starting" /\ live = FALSE /\ cached = FALSE
  /\ up = Dependencies /\ outages = 0 /\ restarts = 0
  /\ probe = None /\ health = "none" /\ seen = {}
  /\ reply = [r \in Requests |-> "none"]
  /\ servedIn = [r \in Requests |-> None]

-----------------------------------------------------------------------------
(* getConfig: a cached configuration is returned unseen, a valid one is      *)
(* cached, and an invalid one throws, every time.                            *)

MutantValidWithoutOrigin ==
  /\ environment.parses
  /\ production => environment.canonical /\ environment.store
  /\ environment.chain

Valid ==
  /\ environment.parses
  /\ production => environment.canonical /\ environment.store /\ environment.origin = "home"
  /\ environment.chain

Configured == cached \/ Valid

-----------------------------------------------------------------------------
(* Boot, probe and traffic.                                                  *)

\* register(): production on Node validates before the server accepts requests,
\* and an error ends the process.
Boot ==
  /\ process = "starting"
  /\ IF host = "platform"
       THEN process' = (IF Valid THEN "up" ELSE "exited") /\ cached' = Valid
       ELSE process' = "up" /\ UNCHANGED cached
  /\ UNCHANGED <<limiter, host, environment, live, up, outages, restarts, probing, reply,
                 servedIn>>

\* GET /health of a process that has no traffic yet.  A probe changes nothing but
\* the cache, so probes of a live process are left out.
StartProbe ==
  /\ process = "up" /\ ~live /\ probe = None /\ health # "healthy"
  /\ cached' = Configured
  /\ IF Configured
       THEN /\ probe' = [d \in Dependencies |-> "pending"]
            /\ seen' = up
            /\ health' = "none"
       ELSE health' = "unconfigured" /\ UNCHANGED <<probe, seen>>
  /\ UNCHANGED <<limiter, deployment, up, outages, restarts, reply, servedIn>>

\* The checks settle in any order.  A dependency that is down refuses, answers
\* wrongly or lets the check run into its timeout; a store that is not configured
\* is never called.
MutantReachable(d) == d \in up \/ d = "celoSepoliaRpc"
Reachable(d) == d \in up /\ (d = "rateLimitStore" => environment.store)

Settle(d) ==
  /\ probe # None /\ probe[d] = "pending"
  /\ probe' = [probe EXCEPT ![d] = IF Reachable(d) THEN "healthy" ELSE "unavailable"]
  /\ UNCHANGED <<limiter, deployment, cached, up, outages, restarts, health, seen, reply,
                 servedIn>>

AnswerProbe ==
  /\ probe # None
  /\ \A d \in Dependencies : probe[d] # "pending"
  /\ health' = IF \A d \in Dependencies : probe[d] = "healthy" THEN "healthy" ELSE "unavailable"
  /\ probe' = None
  /\ UNCHANGED <<limiter, deployment, cached, up, outages, restarts, seen, reply, servedIn>>

\* The platform routes requests to a process whose probe answered 200; elsewhere
\* the process has traffic as soon as it listens.
GoLive ==
  /\ process = "up" /\ ~live /\ probe = None
  /\ host = "platform" => health = "healthy"
  /\ live' = TRUE
  /\ UNCHANGED <<limiter, host, environment, process, cached, up, outages, restarts, probing,
                 reply, servedIn>>

Outage(d) ==
  /\ d \in up /\ outages < MaxOutages
  /\ up' = up \ {d} /\ outages' = outages + 1
  /\ UNCHANGED <<limiter, deployment, cached, restarts, probing, reply, servedIn>>

Recovery(d) ==
  /\ d \notin up
  /\ up' = up \cup {d} /\ seen' = seen \cup {d}
  /\ UNCHANGED <<limiter, deployment, cached, outages, restarts, probe, health, reply, servedIn>>

Answered(r) == reply[r] # "none"
InFlight(r) == pc[r] # "idle" /\ ~Answered(r)

\* The platform restarts a process, or a deployment replaces it, perhaps with another
\* environment.  Its requests are dropped; a script that was sent still runs.
Restart ==
  /\ host = "platform" /\ restarts < MaxRestarts
  /\ restarts' = restarts + 1
  /\ environment' \in Environments
  /\ shared' = environment'.store
  /\ process' = "starting" /\ live' = FALSE /\ cached' = FALSE
  /\ probe' = None /\ health' = "none" /\ seen' = {}
  /\ reply' = [r \in Requests |-> IF InFlight(r) THEN "dropped" ELSE reply[r]]
  /\ pc' = [r \in Requests |-> CASE pc[r] = "sent" -> "abandoned"
                                 [] pc[r] = "executed" -> "done"
                                 [] OTHER -> pc[r]]
  /\ UNCHANGED <<host, production, now, bucket, store, window, at, count, opened, blocked, up,
                 outages, servedIn>>

-----------------------------------------------------------------------------
(* A rate-limited POST: proxy, limiter, handler.                             *)

service == <<deployment, cached, up, outages, restarts, probing, reply, servedIn>>

\* The proxy refuses an unsafe method when both the Origin and the allowed origin
\* are there and differ.
CrossOrigin(r) ==
  OriginOf[r] # "none" /\ environment.origin # None /\ OriginOf[r] # environment.origin

Reply(r, code) == reply' = [reply EXCEPT ![r] = code]

Refuse(r) ==
  /\ live /\ pc[r] = "idle" /\ ~Answered(r)
  /\ CrossOrigin(r)
  /\ Reply(r, "forbidden")
  /\ UNCHANGED <<limiter, deployment, cached, up, outages, restarts, probing, servedIn>>

\* The handler parses its body and asks the limiter.
Admit(r) ==
  /\ live /\ ~Answered(r)
  /\ ~CrossOrigin(r)
  /\ FailClosed(r) \/ CheckMemory(r) \/ Send(r)
  /\ UNCHANGED service

\* The store runs the script when it is reachable, and answers or does not.
RunScript(r) == "rateLimitStore" \in up /\ Execute(r) /\ UNCHANGED service

MutantNoTimeout(r) == InFlight(r) /\ Answer(r) /\ UNCHANGED service

TakeVerdict(r) == InFlight(r) /\ (Answer(r) \/ GiveUp(r)) /\ UNCHANGED service

\* With the verdict: 429, or the first call that needs the configuration, which
\* throws without one, and then the table.
Respond(r) ==
  /\ blocked[r] # None /\ ~Answered(r)
  /\ IF blocked[r]
       THEN Reply(r, "rate_limited") /\ UNCHANGED <<cached, servedIn>>
       ELSE /\ cached' = Configured
            /\ IF Configured /\ "database" \in up
                 THEN Reply(r, "read") /\ servedIn' = [servedIn EXCEPT ![r] = environment]
                 ELSE /\ Reply(r, IF Configured THEN "internal_error" ELSE "service_unavailable")
                      /\ UNCHANGED servedIn
  /\ UNCHANGED <<limiter, deployment, up, outages, restarts, probing>>

Clock == Tick /\ UNCHANGED service

ServiceNext ==
  \/ Boot \/ StartProbe \/ AnswerProbe \/ GoLive \/ Restart \/ Clock
  \/ \E d \in Dependencies : Settle(d) \/ Outage(d) \/ Recovery(d)
  \/ \E r \in Requests : Refuse(r) \/ Admit(r) \/ RunScript(r) \/ TakeVerdict(r) \/ Respond(r)

ServiceSpec == ServiceInit /\ [][ServiceNext]_serviceVars

\* The process runs on, every check and call ends by itself or by its timeout, and
\* the platform keeps asking; nobody has to send a request, nothing has to recover.
Fairness ==
  /\ WF_serviceVars(Boot) /\ WF_serviceVars(StartProbe)
  /\ WF_serviceVars(AnswerProbe) /\ WF_serviceVars(GoLive)
  /\ WF_serviceVars(\E d \in Dependencies : Settle(d))
  /\ WF_serviceVars(\E r \in Requests : TakeVerdict(r) \/ Respond(r))

FairServiceSpec == ServiceSpec /\ Fairness

-----------------------------------------------------------------------------
(* Properties.                                                              *)

\* SECURITY.md, "Fail closed": in production a handler reads its table only in an
\* environment that is official in every part, although the proxy, the limiter and
\* the handler each look at it on their own: a request from another origin and a
\* request the store did not count within the limit never get that far, whether or
\* not the boot check ran.
FailsClosed ==
  production => \A r \in Requests : servedIn[r] # None =>
    /\ servedIn[r] = [parses |-> TRUE, canonical |-> TRUE, store |-> TRUE,
                      origin |-> "home", chain |-> TRUE]
    /\ OriginOf[r] # "foreign"
    /\ 1 <= count[r] /\ count[r] <= Limit

\* "route (17).ts", "never reports healthy while a critical dependency is
\* unreachable": the platform gives traffic only to a process that is configured
\* and that could reach every dependency at some moment of its own probe; checks
\* settle at different times, so not at one moment.
LiveMeansReady ==
  host = "platform" /\ live => cached /\ Valid /\ seen = Dependencies

\* A release with a valid environment gets traffic for good once the outages and
\* restarts are over and every dependency is reachable, whatever its earlier
\* probes said: no failed check is remembered.
GoodReleaseGoesLive ==
  (host = "platform" /\ <>[](Valid /\ up = Dependencies)) => <>[]live

\* A request the proxy let through is answered, also when the store never answers:
\* the call's timeout does.  Requests are finitely many and made once, so in the
\* end none is in flight.
EveryRequestAnswered == <>[](\A r \in Requests : ~InFlight(r))

\* Whatever is down, the process goes on: a good release gets traffic and every
\* request an answer.
KeepsGoing == GoodReleaseGoesLive /\ EveryRequestAnswered
=============================================================================

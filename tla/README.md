# Verification of the CeloHT backend

TLA+ modules of the backend in this repository (TypeScript, Next.js route
handlers over Supabase, Redis and a Celo Sepolia RPC node), the TLC
configurations that check them, and TLAPS proofs. `PROJECT.json` lists the runs,
the lines each definition models, a mutant per property, the hazards and the
theorems. Paths below are relative to the repository; the route handlers are the
files `route.ts`, `route (1).ts` ... `route (18).ts`.

## 1. Inventory

Every request handler is a sequence of awaited calls. The Node process runs one
handler at a time, but at each `await` another request may run, on this process
or on another instance; **no handler uses a transaction**, so every database
call commits on its own. What makes the system hard is therefore the same
everywhere: two handlers between each other's calls, a failed or lost call in
the middle of a handler, a value read by one call and used by a later one.

| Component | State | Operations | Talks to | Hard behaviour | What makes it correct |
|---|---|---|---|---|---|
| **Wallet sign-in and sessions** (`nonce.ts`, `session.ts`, `authorization.ts`, `auth.ts`, routes (8) (9) (10) (18)) | tables `auth_challenges`, `profiles`; signed cookie | issue nonce, verify, read session, log out | Supabase, rate limiter | two verifications of one nonce; expiry between check and update; burned challenge and failed profile insert; token expiry in seconds | a nonce is redeemed once, for a request of its owner's that came within its life; a token is backed by a redeemed nonce and a profile; a session ends |
| **Agent onboarding and administration** (`route (1)`, `(3)`, `(5)`, `(6)`, `adminUsers.ts`, `audit.ts`, `agents.ts`, `src/lib/storage/path.ts`) | `agents`, `agent_kyc`, `profiles.role`, `audit_logs` | apply, submit KYC, decide KYC, set status, change role, write log | sign-in (actor and role), Supabase storage | two reviewers; late submission; decision without log; role changed in flight | decided once; log complete for successes and truthful; a decided agent is not taken back into the queue; the last administrator is not lost without a race |
| **Rate limiter** (`rateLimit.ts`) | in-memory buckets, or a counter with expiry in Redis | `checkRateLimit` | Redis REST, called by sign-in | the call times out and the script still runs; two clocks; window edges | bounded admission, fail closed, no lockout without cause |
| **Evidence review** (`route (4)`, `(15)`, `reforestation.ts`, `reforestationAgentEvidence.ts`) | `reforestation_evidence`, `audit_logs` | list, decide | sign-in, audit log, storage | status read then updated; self-review; decision without log | decided once, by somebody else, tree count iff verified |
| **Contributions** (`reforestationContributions.ts`, `route (7)`) | none of its own; reads `reforestation_projects`, `blockchain_transactions`, `reforestation_contributions` | confirm a transaction, list history | RPC node (three calls), indexer-owned tables | chain head, indexer and contribution event advance between calls; reorganisations | never confirmed without receipt, depth, indexed row and own wallet |
| **Catalogue** (`adminCatalog.ts`, `route (14)`, `(16)`, the forms of `app/admin/page.tsx`) | `courses`, `reforestation_projects`, `audit_logs`; uncontrolled forms | list, create, edit, publish; public reads | audit log | change without log; a form older than the row; public read joins several queries | statuses change on purpose; what the public sees is accounted for; figures count confirmed and verified rows only |
| **Governance presentation** (`route (11)`, `src/lib/governance/*`, `app/governance/page.tsx`) | React state | load, connect a wallet, approve the fee, vote; `GET /governance` | RPC node, wallet | refreshes end in any order, each with the wallet its flow captured; replaced transactions; block and contract read at different times | a confirmed vote was counted; the page is never ahead of the contract, and current once it is at rest |
| **Portal, profile and admin pages** (`app/portal/PortalShell.tsx`, `app/profile/page.tsx`, `app/admin/page.tsx`) | React state, browser storage, the session cookie | sign in, sign out, load, edit, save, choose, decide | the API | answers after a sign-out or a change of wallet; older answers after newer ones; another tab changing the cookie | the profile page shows and saves for its own session only; preferences stay with their wallet; the queue is current once it is at rest |
| **Profile, progress, certificates, transactions** (`route (12)`, `(13)`, `route.ts`, `progress.ts`) | `profiles`, `progress` rows | one read or upsert each | Supabase | none beyond the database's atomic row write | owner-only rows |
| **Configuration, health, edge** (`config.ts`, `route (17)`, `proxy.ts`, `errors.ts`, `instrumentation.ts`, `server.ts`) | cached configuration | validate at boot, at first use and in the probe; refuse a foreign origin | RPC, Supabase, Redis, the rate limiter | four readers of one environment; cache for the life of the process; checks that settle at different times; outages and restarts | production serves only in an official environment; traffic only for a ready process; a good release goes live |
| **Layouts, translations, scripts** | none | rendering, tooling | - | - | - |

`PROJECT.json` "hazards" has the list of what is hard to test, at the line where
it bites.

How the parts meet: sign-in asks the **rate limiter** and creates the
**profile**; every other handler starts with `requireActor`, which checks the
**session** and reads the role from the profile, and `requireRole`; reviews and
administration end in the **audit log**; the pages call the handlers. The
interfaces are narrow, so the modules use a nondeterministic choice for the other
side: `WalletAuth` lets the limiter answer anything; `AgentReview` lets
any existing profile be the actor of a request and reads its role in its table.
(With an unreliable store `RateLimit` can in fact give either verdict at any
time, and `WalletAuth` is what justifies "the actor exists".)

## 2. Modules

### OneTimeChallenge (abstract)
What sign-in promises: a challenge belongs to one wallet, is spent at most once,
and yields at most one session, of that wallet. Three actions: `Issue`, `Spend`,
`Grant`.

### WalletAuth
The handlers of `POST /auth/nonce`, `POST /auth/verify` and `GET /auth/session`
(with `requireActor`). One step per awaited call, plus one step for what a handler
does between two awaits when the clock matters there (`CheckChallenge`,
`CheckAgain`, `Stamp`, `IssueToken`).

| State | Code |
|---|---|
| `auth_challenges`, `profiles` | the tables; the id of a profile row names the request that inserted it |
| `now` | `Date.now()`, in ticks; `TicksPerSecond` relates it to the token's seconds |
| `issuing[n]` | one run of `issueChallenge`; a nonce is 32 random bytes, so one run per nonce |
| `signed` | external: the wallet signs the message that came with a nonce |
| `pc`, `body`, `row`, `stamp`, `profileId`, `token`, `reply` | the locals of a verify request; `body.own` is whether the signature recovers to the claimed wallet over the message of the named nonce, and `body.at` (history) when the owner's request arrived |
| `session` | a session check: which token it carries, when it was verified, the reply |
| `faults` | failed calls, calls that took effect but whose answer was lost, process restarts |

`GetChallenge`, `CheckChallenge`, `SelectChallenge`, `CheckAgain`, `Stamp`,
`MarkUsed`, `SelectProfile`, `InsertProfile`, `IssueToken` are
the verify handler in its order; the signature check sits between
the two reads of the row, as in the code. `MarkUsed` is the conditional update that
makes a nonce single-use. `VerifyFails`, `IssueFails`, `SessionFails` and the second
disjuncts of the writes are failures; `withApiErrorHandling` turns each of
them into `internal_error`. Signing out only clears a cookie: it is not an
action, and `SessionStart` may carry any token that was ever delivered.

The uniqueness of `profiles.wallet_address` is decided by a schema in another
repository; `WalletUnique` says which, and the proofs hold for both.

### AgentReview
`POST /agents`, `POST /agents/kyc`, `POST /admin/kyc`, `POST /admin/agents`,
`PATCH /admin/users`. A request begins with `requireActor` and `requireRole` in one
step (the role it reads is used for the whole request: that is where stale roles
come from), then makes its calls one by one:

| Request | Calls |
|---|---|
| apply | `InsertAgent` |
| submit KYC | `SelectAgent`, `InsertKyc`, `MarkReview` |
| decide KYC | `DecideKyc`, `Audit`, `Reflect` |
| set status | `SetStatus`, `Audit` |
| change role | `ChangeRole`, `Audit` |

`Then(r, go)` is the answer of a call that took effect: the handler goes on, or
the answer is lost. `Fails` is a call without effect, `Restart` ends
all requests in flight. `committed` (history) holds the requests whose own
change is in the tables, and `body.seen` (history) those that were there when a role change
was checked: `Overtaken(r)` says that r's author lost his own role since. Storage paths and file checks of a submission depend
on no table: they pass or they do not.

### RateLimit
`checkRateLimit` for the requests of one key. The initial state chooses the
environment: production or not, shared store or not. In memory:
`CheckMemory`. With a store: `Send`, `Execute` (the INCR/PEXPIRE script, which may
run after the caller has given up), `Answer`, `GiveUp`. `FailClosed` is
production without a store. The clock of the process and the clock of
Redis are one clock here; each of the two limiters uses one of them only.

### ReviewQueue (abstract)
What a review queue promises, whatever is reviewed: an item is decided by at most one
review, for good; only that review enters the log, once; no review is reported as
successful that is not in the log. `AgentReview` (KYC submissions) and
`EvidenceReview` (planting reports) both implement it: `decided` is the request that
decided the row, `logged` the requests named by audit entries, `succeeded` those
answered `ok`.

### EvidenceReview
`POST /admin/evidence` (`SelectReport`, `DecideReport`, `Audit`) and the public reads of
verified reports (`ReadStart`, then one `ReadProject` per project, in any order).
`Accepted` is the request schema, `Outcome` what a decision writes, `Entry` what it
logs. A row's `by` names the request that decided it: the code stores the reviewer,
and the model keeps the request so that two requests of one reviewer stay apart.
Reports are inserted by `File`, from outside: the endpoint that would do it answers
that it is switched off. `Planted(p)` is what a public query of a project returns;
a read's `began` remembers what it would have returned at its start.

### Contributions
`POST /reforestation/contributions` call by call: `SelectProject`, `CheckChain`,
`ReadReceipt`, `ReadHead` (the RPC node), `FindIndexed`, `FindContribution` (the
indexer's tables); and the lists of a wallet or of a project: `ReadRows`,
`ReadConfirmed`. The backend writes nothing, so all the movement is outside: `AddBlock`
and `Reorganise` move the chain, `IndexEvent`, `IndexConfirmed` and `IndexRollback`
the indexer's tables (in either order, once the indexer's own node shows the
depth), `Publish` and `Withdraw` the project's status (what `updateAdminProject`
writes; its audit entry is not part of this module). `served` is the chain the
configured node is on. `settled` (history) are the transactions that have ever been deep
enough, `shaken` the requests between whose receipt and head a reorganisation fell.

### GovernancePage
The page's asynchronous flows and the endpoint they read. A flow (`Load`,
`Connect`, `ApproveFee`, `CastVote`) captures the wallet (`by`), the proposal (`on`)
and the option in its closure; `Submit`, `Receipt` follow the transaction
(`Mine`, `Replace`: the chain and the wallet); then `ReadBlock`, `ReadContract` are the
two reads of `GET /governance` that a status is made of, and `Deliver` is `setData`.
`Ballot` is the condition of the buttons, which is also what `castVote` checks
again. `working` is set by approvals and votes only: connecting stays possible
meanwhile. The contract (`Accepts`, `HasVoted`) is external, as its ABI and the page's
messages describe it; `allowed` is an approval of exactly the fee.

### PortalPages
One browser tab: the shell's session (`ReadSession`, `TakeSession`, `ConnectWallet`,
`Verify`, `SignOut`, `Logout`, `SignedOut`) around the profile page or the
administration page, chosen by the initial state. `SetSession` is a change of session
with the effects it triggers: the load, and the two effects on preferences. A load
goes out with the cookie of that moment (`as`) for the session of that moment
(`for`); `ServeLoad` is the server, `DeliverLoad` the answer, which the profile page
drops if the load was cancelled (`Shown`) and the administration page never drops.
`Edit`, `SaveProfile`, `SaveDone` are the form, `Choose` the preferences, `Decide`,
`ServeDecision`, `DecisionDone` a decision through `mutate()`. Text is represented by
who typed it, preferences by who chose them. `OtherTab` sets the shared cookie.

### Service
Composes the configuration, the health probe and the edge check with `RateLimit`, which
it extends: one process from boot to the first table a rate-limited POST (nonce,
verify) reads.

| State | Code |
|---|---|
| `environment` | `process.env`, by what the code tells apart: accepted by the schema, official Supabase and RPC, both store variables, allowed origin, chain id |
| `host` | where the process runs: a developer's machine; the platform, whose health check decides about traffic (`render.yaml` names it); a bare production host, where `register()` returns early because `NEXT_RUNTIME` is not `nodejs` |
| `cached` | `cached` of `config.ts`: holds the environment of this process, or nothing |
| `process`, `live` | external: the operating system and the platform |
| `up`, `seen` | dependencies that are reachable; those that were since the last probe began (history) |
| `probe`, `health` | the four promises of the running probe, and the last answer |
| `reply`, `servedIn` | what a request was answered; the environment its handler read a table in (history) |

`Boot` is `register()`, `StartProbe`, `Settle`, `AnswerProbe` the health handler (its four
checks settle in any order, before or after an outage), `Refuse` and `Admit` the proxy,
`Send`, `RunScript`, `TakeVerdict` the limiter of `RateLimit`, `Respond` the handler with the
verdict in hand: 429, 503 without a valid configuration, 500 when the table cannot be
reached, or the read. `Outage`, `Recovery`, `Restart` (with the same or another
environment) are external. A probe of a process that has traffic changes nothing but
the cache and is left out. A cached configuration is never validated again, which is
sound because a process keeps its environment; `Configured` says both.

### Catalogue
`adminCatalog.ts` call by call (`Update` or `Insert`, then `WriteAuditLog`, then the
answer), the list handler and the administration page's forms. Courses and projects
run the same code, so `Records` are of one kind. A row has a status and the number of
its status changes (history). `form[a][t]` is a mounted form: the status its select
will send, whether the administrator picked it, and the version of the row it was
mounted from. `Render` is the behaviour of an uncontrolled, keyed select: a refresh
leaves a mounted one alone, a failed load unmounts all. `Save` sends the status of the
form always, `Create` never sends one, `Call` is an API client that may or may not.
`Tell` is `mutate()`: success reloads, and `workingId` is cleared whichever request it
names. Loads overlap and are answered in any order (`pending`, `lists`, `Show`).
`requireAdmin` is the check `AgentReview` has; here a refusal is one way to `Fail`.

### MC modules
`MCWalletAuth`, `MCAgentReview`, `MCRateLimit`, `MCEvidenceReview`, `MCContributions`,
`MCGovernancePage`, `MCPortalPages`, `MCService` and `MCCatalogue` extend these with the symmetry sets and the small
tables of roles, owners and times.

## 3. Runs

| Run | Question | Bounds |
|---|---|---|
| `wallet_auth_safety` | one redemption, for a request of the owner's that came in time; every request is answered, and refused for a cause; tokens are backed; a session lasts its lifetime; the handlers refine `OneTimeChallenge` | 2 wallets, 2 nonces, 2 verify requests, 1 session check, clock to 3 with a challenge of 2 ticks and a session of one second (2 ticks), 1 fault, a table that accepts duplicate profiles |
| `wallet_auth_first_sign_in` | (violation) is find-or-create one step? | 1 wallet, 2 nonces, 2 requests, no fault |
| `agent_review` | one decision per submission; truthful and complete log; no approval without a cause; no decided agent back in the queue; does a committed decision reach the agent, or its reviewer hear of the failure | apply, submit, two reviews, a status decision, 1 fault, a reviewer and an administrator who may also apply, fairness |
| `agent_review_roles` | how can the last administrator be lost | three administrators, three role changes, 1 fault |
| `agent_review_log` | (violation) is every decision logged? | one submission, one review, 1 fault |
| `rate_limit` | admission bounds, no lockout without cause, fail closed | 5 requests, limit 2 per 2 ticks, clock to 5, every environment |
| `evidence_review` | one decision per report, by somebody else; log, count and report agree; published figures stand; the handlers refine `ReviewQueue` | 2 reports of 2 projects, 2 decisions, a public read of both projects, tree counts of 1, 1 fault; a reporter, a reviewer, an administrator |
| `contributions` | is what is confirmed the actor's own and deep enough; do answers only improve; do lists agree with confirmations | 2 confirmations, 1 list, 2 wallets, 1 transaction, 2 confirmations demanded, height to 3, 1 reorganisation, withdrawal or failed call |
| `governance_page` | was a vote reported as confirmed counted; is the page never ahead of the contract, and current at rest | 1 proposal, 2 wallets of which one can pay, 4 flows after the load, block time to 2, 1 failed step or replaced transaction |
| `portal_pages` | does anything of the profile page or the preferences cross from one session into another; is the queue current at rest | 2 wallets of which one is a reviewer's, 1 item, 3 loads, 2 decisions, 1 failed call or change by another tab |
| `service` | does production serve only in an official environment; is a process with traffic ready; does a good release go live, and is every request answered, in spite of what failed | 3 hosts, 7 environments (official, and six that miss it in one part each), 3 requests (from the app, without an Origin, from elsewhere) against a limit of 1, 4 dependencies, 1 outage, 1 restart or deployment |
| `catalogue` | does the log agree with the table; is what the public sees accounted for; do statuses change on purpose | 1 administrator's page and API clients, 2 records that may exist or not, 2 requests, 1 refresh by hand, 1 failed call or lost answer |

Why the bounds are enough: all the races here are between **two** requests
for one row (the conditional updates let one of them through), so two requests
per endpoint and a third party that changes the row in between show every
pattern; a challenge's life is at least two ticks, so each check can fall before,
on and after the expiry; one fault can hit any call of any request, and a second
fault only ends another request early. The limiter needs `2 * Limit + 1` requests
to break the bound on adjacent windows in `FixedWindowBound` (part of `AdmissionBounds`), which is why it has five,
and two windows and an edge, which
is why the clock goes to five. Three role changes of three
administrators are the longest cycle in which each removes the next one's author. In
`evidence_review` two decisions meet on one report or
act on both, and one of the three people may have filed either. In `contributions` a
height of three with a depth of two lets a transaction be mined shallow, become deep,
and be taken back; the second confirmation is the client asking again. The proposal
of `governance_page` is open for one tick out of three, so every flow can meet it before,
during and after; four flows are two refreshes that overlap an approval and a vote. In
`portal_pages` three loads are one for each of two sessions and one that a save, a
decision or the refresh button starts. In `service` one outage can fall before, between
and after the checks of a probe, and one restart ends requests at any step or changes
the environment; an environment that misses several parts is refused for each of them.
In `catalogue` two requests are a save from a form and the change that makes the form
old, in either order; a second page would be one more source of such changes, which
the API clients already are.

Requests are one-shot, so every behaviour ends when all have been used and the clock
is at its bound: the runs say `CHECK_DEADLOCK FALSE`. `AnsweredForCause` shows that a
verify request never ends unanswered, `KeepsGoing` that a rate-limited one does not hang. Symmetry is used in safety runs
only.

**Fairness.** `AgentReview` has weak fairness on the calls of a request: the event loop
runs a handler whose call has been answered, and a call is answered or fails. The
code gives the database no timeout of its own, so the last part is the client
library's and the platform's. `Service` has weak fairness on the boot, the probes and
their checks (the RPC and store checks have timeouts in the code), on the platform's
repeated health check, and on a request once the limiter was called: the call to the
store ends by its own timeout, so fairness is on "answer or give up", not on the
answer. There is no fairness on users, faults, recoveries, the store's script or the
clock.

## 4. What the checks show

The properties above hold on the instances. Two statements of the repository
do not, each shown by a run:

* `wallet_auth_first_sign_in`: AUTHENTICATION.md says verification does
  "find-or-create profiles row". The select and the insert are two calls; of two
  concurrent first sign-ins one may be refused by the table after its
  challenge was burned, and the client sees an internal error.
* `agent_review_log`: "every decision is audit-logged in the same request". The
  decision commits first; a failure before the log entry leaves it unlogged, and
  a retry is refused because the submission is no longer open. What does hold is
  `AuditLogAgrees`: a success is logged, and what is logged was done.

Met on the way, without a run: authorization.ts:26 says "a role change takes effect
immediately", but a request in flight keeps the role it read. `AdminsVanishOnlyByRace`
says what can come of it: a step that removes the last administrator is made by a role
change whose author was himself demoted between the check of his role and the update. Two
administrators who demote each other are one such case, three in a cycle another.
SECURITY.md says every route answers a misconfiguration with 503;
the nonce and verify handlers ask the limiter before the configuration, so production
without a store answers 429 (only where the boot check does not run). AUTHENTICATION.md:36 says a mismatched signature
fails before the nonce store is touched (the handler reads the row first);
AUTHORIZATION.md:18 says only `/admin/agents` changes an agent's status (a KYC
submission and a KYC decision do too). `GET /api/v1/governance` returns an object
(route (11).ts:146-158) and two pages treat it as an array: rendering throws after a load in
which that section succeeded, on the profile page (app/profile/page.tsx:178) and, for
administrators, on the administration page (app/admin/page.tsx:250). `PortalPages.DeliverLoad`
and `Catalogue.Show` keep the page alive, so what the modules do after such a load is more
than what this commit does; without it the pages go on only while that section fails. The
safety properties hold with the extra behaviour and therefore without it.

What the other runs show, and where their properties stop:

* `wallet_auth_safety`. `SpentProperly` bounds the arrival of the request that burns a
  challenge and the `used_at` it writes; it does not bound the update. The stamp is read
  before the update (nonce.ts:117-123), and an update that lands after the expiry still
  burns the row, with the earlier stamp.
* `agent_review`. `DecidedStaysDecided` is about the agent's status, which stays
  among the decided ones; two decisions may still overwrite each other, and a decision on a
  submission that is reflected late may overwrite a suspension (route (3).ts:81).
  By `DecisionReachesAgent` a decision that has committed reaches the agent's status, or its
  reviewer is told that something failed. In the second case the agent may stay in review
  for good, since the submission cannot be decided again.
* `rate_limit`. The script always returns an integer, and the module lets the store answer
  nothing else. A 2xx answer with a null, empty or false result would become the number 0
  and be admitted (rateLimit.ts:58-59).
* `contributions`. The receipt and the head are two calls. A reorganisation in between
  can make the answer "confirmed, waiting for the indexer" about a transaction that
  was never deep enough; `AnswersAreSound` shows that this is the only way, and that
  the final "confirmed" is safe from it, because it asks for the indexer's row too. `StatusNeverRegresses` and the second half of `ListsAgree` hold
  while nothing is undone: after a reorganisation a client may indeed be told less.
  The list's page limit applies before the filter on confirmed transactions, so a
  page may be short; paging is not modelled.
* `governance_page`. `SettledPageIsCurrent` excludes refreshes that overlapped: connecting
  another wallet is possible while a vote is pending, and the refresh of the vote,
  which captured the old wallet, may be the last to arrive; the page then shows the
  ballots of one wallet under the name of another until the next refresh
  (GOVERNANCE.md:30 says the page reads `hasVoted` for the connected wallet). The
  contract still refuses a second vote. An approval takes any successful receipt, also
  that of a transaction that replaced it; a vote demands its own event. One
  confirmation is final to the page: the chain of this module does not reorganise.
  `NeverAheadOfContract` compares quantities that only grow, so what it tests is the
  boundary of the voting window. `ReadContract` is one step for several calls of the
  endpoint (route (11).ts:50-91), which changes nothing for such quantities.
* `portal_pages`. The profile page cancels, so `SessionsKeepApart` holds through
  late answers without a condition on overlap. It covers that page and the preferences, and
  the cookie's part of it only while no other tab changed the cookie. The administration page
  never clears its snapshot (app/admin/page.tsx:60-81): after a change of session it holds the
  previous one's until its next load is answered. Nor does it cancel, so
  `SettledQueueIsCurrent` excludes loads that overlapped: an older answer may put a
  decided item back (the server then refuses to decide it again). A second decision
  overwrites `workingId`, which re-enables the first button early. If another tab
  changes the cookie, a name goes to that tab's wallet: the session in memory is not
  compared with the one the server sees. An empty display name is never sent, so a name
  cannot be cleared. The language is stored under one key for all wallets, though
  USER_EXPERIENCE.md:23 speaks of a key scoped to the wallet; it is not modelled.
* `service`. `FailsClosed` holds although four files read the environment on their own, and
  on a host without the boot check too: there the handler's own validation is what keeps
  the tables closed, since the proxy lets every origin pass when none is configured.
  `LiveMeansReady` stops where the probe does: a dependency was reachable at some
  moment of the probe, not all of them at one moment, and none need be so later: one that is
  lost during the probe is not noticed (route (17).ts:92).
* `catalogue`. The second half of `StatusChangesOnPurpose` is a hazard users meet: a form
  that has been open keeps its status through refreshes, though the label beside it
  changes, and sends it with every save; a corrected title may publish what another
  administrator has withdrawn, logged as a publication by the one who corrected the
  title. Only a failed load or a new session mounts the form afresh, and a status once picked
  counts as picked for every later save of that form. The update
  and its audit entry are two calls, as everywhere; `PublicationsAccounted` says what a
  reader of the log can rely on. A creation counts for any record there, because its
  request names none. A creation whose answer is lost is reported as failed
  and leaves its draft, so a second attempt makes a second record.
* The reviewers' queues sign a URL per row and fail as a whole if one path cannot be
  signed.

## 5. Proofs

Every invariant and every action property that the passing runs check, and the three
refinements, are proved here; the two liveness properties are not. Each `...Proofs` module
holds the inductive invariants (`...Inv`) that strengthen its properties; TLC has checked
those on the instances of section 3 as well.

`WalletAuthProofs` proves, for any sets of wallets, nonces and requests, any TTLs,
any clock and any number of faults:

| Theorem | Statement |
|---|---|
| `TypeCorrect` | `Spec => []TypeOK` |
| `AuthInvariant` | `Spec => []AuthInv`, the inductive invariant |
| `NonceRedeemedOnce` | `Spec => []SingleRedemption` |
| `BurnedProperly` | `Spec => []SpentProperly` |
| `TokensBacked` | `Spec => []TokenBacked` |
| `Refinement` | `Spec => ImplementsOneTimeChallenge` |
| `RefusedForCause` | `Spec => []AnsweredForCause` |
| `TokensLiveAsLong` | `Spec => []TokenLifetime` |

The argument. `SingleRedemption` is not inductive: it talks of requests that have
the answer of their update, and says nothing about the row. `AuthInv`
adds what each program counter knows about the tables: a nonce is not stored
before its insert (`NotYetStored`, so no second insert can reset a used row); past the
first check the request's row is stored for the wallet it claims and its
signature is the owner's (`ReadRow`, `Checked`, `OwnSignature`); a request
that holds the answer of its update has a used row (`RedeemedRow`); one that is about
to make a token has its profile row (`ProfileHeld`). With `RedeemedRow` a second
redemption is impossible because the update demands an unused row; with
`Checked` and `OwnSignature` the request that burns a row is its owner's. `SpentProperly`
adds when: that request arrived no later than it read its stamp (`ArrivedEarlier`), the
update demands a stamp before the expiry, and the request goes on being the row's
burner (`Burner`), since its body and the row's `used_at` no longer change. The refinement follows
with `OwnerOf`, `SpentNonces` and `GrantedSessions` as the abstract state: an insert
is `Issue`, an update that hits is `Spend`, a token is `Grant`, all else stutters.
`AnsweredForCause` needs the monotone clock: whatever made a request's answer
"unauthenticated" (a used row, an expiry passed at its stamp) stays so (`CauseInv`: rows
are never deleted or reopened, a stamp lies in the past). `TokenLifetime` is arithmetic:
an expiry is the stamp rounded down to seconds plus the lifetime (`TokenDated`), and a
check compares it with its own time rounded down (`SessionDated`); each rounding loses
less than a second.

The theorems of `WalletAuthProofs` rest on the named assumptions of `WalletAuth` only: positive
TTLs, and that `None` is no wallet, nonce, request, row, body or token. That a signature
recovers to the wallet only if its owner signed this message is not an assumption but
the guard of `VerifyStart`; the proofs are about the protocol, not the
cryptography.

`EvidenceReviewProofs` proves, for any people, roles, reports, projects, requests, tree
counts and number of faults:

| Theorem | Statement |
|---|---|
| `EvidenceTypeCorrect` | `Spec => []TypeOK` |
| `EvidenceInvariant` | `Spec => []EvidenceInv`, the inductive invariant |
| `NobodyReviewsThemselves` | `Spec => []NeverOwnReport` |
| `LogAndCountsAgree` | `Spec => [](LogMatchesReport /\ TreesIffVerified)` |
| `FiguresStand` | `Spec => []PublishedFiguresStand` |
| `EvidenceRefinesQueue` | `Spec => ImplementsReviewQueue` |

The argument. None of these is inductive alone. `NeverOwnReport` needs to know that a
request at its update has somebody else's report before it (`Screened`), which no later
step undoes because `submitted_by` is written once. `LogMatchesReport` needs that a
request about to write the log is the one the row names (`AuditsOwn`), that the row
keeps what that request decided (`RowsDecided`: a row is pending exactly when nobody has
decided it, so the conditional update cannot hit it twice), and that an entry stems
from a request that is done (`LogComplete`), so it is written once. The published
figures follow from `BeganStands`: verified rows never change, so what a project's
query returns only grows (`PlantedGrows`), and each answer of a read lies between what
was there when it began and what is there now. In the refinement an update that hits is
`Decide`, an audit entry is `Log` with or without the answer, all else stutters.

`EvidenceReviewProofs` rests on `EvidenceAssumption` (roles and projects are assigned,
the bounds are numbers, decisions and reads are different requests) and
`NoneAssumption` (`None` is no request, row, body or count).

`CatalogueProofs` proves, for any administrators, records and requests, and any number of
refreshes and faults:

| Theorem | Statement |
|---|---|
| `CatalogueTypeCorrect` | `Spec => []TypeOK` |
| `CatalogueInvariant` | `Spec => []CatalogueInv`, the inductive invariant |
| `PublicationsStandAccounted` | `Spec => []PublicationsAccounted` |
| `StatusesChangeOnPurpose` | `Spec => StatusChangesOnPurpose` |

The argument. That a status changes on purpose is a statement about steps, and what makes
it true is what the page knows: `Older(known, current)` says that a copy of a row is of an
earlier version or agrees with it. Every answer to a load is a copy of the table
(`ListsOld`), a form takes its first status from such an answer and keeps it until its
administrator picks another (`FormsOld`), and a request carries a picked status, none, or
its form's (`BodiesOld`). A write can only make copies older (`OlderStays`), because it
raises the version exactly when it changes the status. So a write that changes a status
nobody picked comes from a copy of an earlier version, or creates a draft. For the log,
`HandlersInStep` says what each program counter implies: nothing is written before the
update, what is written is what was sent unless nothing was sent, the entry is there once
the handler is past it, and a success is told only then.

`CatalogueProofs` rests on `BoundAssumption` (the bounds are numbers) and `NoneAssumption`
(`None` is no status, form, request body, administrator or record, and `"new"` is no
record's id).

`AgentReviewProofs` proves, for any profiles, roles, requests and number of faults:

| Theorem | Statement |
|---|---|
| `AgentTypeCorrect` | `Spec => []TypeOK` |
| `AgentInvariant` | `Spec => []AgentInv`, the inductive invariant |
| `LogAgrees` | `Spec => []AuditLogAgrees` |
| `ApprovalsHaveReasons` | `Spec => []ApprovedForAReason` |
| `LastAdminRemains` | `Spec => AdminsVanishOnlyByRace`, an action property |
| `DecisionsStand` | `Spec => DecidedStaysDecided` |
| `KycRefinesQueue` | `Spec => ImplementsReviewQueue` |

The argument. The log is truthful because a request that is about to write it has
committed (`LogInStep`), and for a KYC decision because the submission's row names the
request that closed it and keeps its value (`SubmissionsInStep`, `DecisionsHeld`), so a
decision reflected late into the agent's status is still the one on the row: that is the
reason an approval has. For the last administrator, `ActorsWereAdmins` follows a role
change from its check to its write: its author is still an administrator, or a change
that was not there at the check (`body.seen`) has taken his role, and nobody changes himself.
So a step that removes the last administrator is made by a change with such an author. `RequestsFit` keeps the
endpoints apart. It rests on `RequestAssumption` (a request is for one endpoint),
`InitialAssumption` and `NoneAssumption`.

`ContributionsProofs` proves, for any wallets, projects, transactions, confirmations and
lists, any depth and any number of reorganisations:

| Theorem | Statement |
|---|---|
| `ContributionsTypeCorrect` | `Spec => []TypeOK` |
| `SoundInvariant`, `ToldWhatIsSo` | `Spec => []SoundInv`, `Spec => []AnswersAreSound` |
| `AskAgainInvariant` | `Spec => []AskAgainInv` |
| `NeverToldLess` | `Spec => []StatusNeverRegresses` |
| `ListsHoldTheConfirmed` | `Spec => []ListsAgree` |

The argument. `ChainInStep` relates the moving chain to what has ever been deep enough:
a settled transaction stays in the history, and the indexer's rows are of settled ones.
`ConfirmsInStep` says what a handler knows at each call: at the head it still holds the
chain's own receipt, or a reorganisation has marked it `shaken`; from then on its
transaction has settled. The two properties about a second answer are conditional
(nothing undone), so `QuietInv` carries the condition: while it holds, everything a
confirmation has seen and everything a list has read stays true, whoever moves. It rests
on `ContributionsAssumption` and `NoneAssumption`.

`GovernancePageProofs` proves, for any proposals, options, wallets, funds, flows and
number of faults:

| Theorem | Statement |
|---|---|
| `GovernanceTypeCorrect` | `Spec => []TypeOK` |
| `PageInvariant` | `Spec => []PageInv` |
| `ConfirmedVotesAreCast` | `Spec => []ConfirmedVoteWasCast` |
| `PageNeverAhead` | `Spec => []NeverAheadOfContract` |
| `SettledInvariant`, `SettledPagesAreCurrent` | `Spec => []SettledInv`, `Spec => []SettledPageIsCurrent` |

The argument. A flow keeps what it captured (`FlowsInStep`); a transaction that succeeded
as it was signed has put its ballot into the contract (`VotesInStep`). What an endpoint
read is `Behind` the contract of any later time, since votes, finalizations and blocks
are only added; the two reads of one answer may be of different blocks, and `Behind` holds
for the mixture too. `SettledInv` follows the one flow that has the page to itself: from
its start nobody else is in flight, its answer holds every vote reported so far, and while
nothing disturbed the page it is current or that refresh is still to come. It rests on
`GovernanceAssumption`, `NoneAssumption`, and, for `PageNeverAhead` only,
`WindowAssumption`: the windows of the contract, which is external, end no earlier than
they begin. Without it a proposal could be finalized before its voting begins.

`PortalPagesProofs` proves, for any wallets, reviewers, items, loads, decisions and number
of faults:

| Theorem | Statement |
|---|---|
| `PortalTypeCorrect` | `Spec => []TypeOK` |
| `PortalInvariant`, `SessionsStayApart` | `Spec => []PortalInv`, `Spec => []SessionsKeepApart` |
| `QueueInvariant`, `SettledQueuesAreCurrent` | `Spec => []QueueInv`, `Spec => []SettledQueueIsCurrent` |

The argument. What keeps sessions apart is that the profile page waits for one load only,
the one sent for the session (`LoadsInStep`), and that without another tab the cookie is
the session's or empty whenever something goes out by it (`CookieInStep`), also after the
answer to a sign-out was lost. For the queue, a load that overlapped nothing cannot hold
an item that was decided (`AloneInStep`), the items decided are off the server's queue for
good (`DecidedInStep`), and as long as nothing disturbed it the page is current or a load
is under way (`ControlsInStep`). It rests on `PortalAssumption` and `NoneAssumption`.

`ServiceProofs` proves about `RateLimit`, for any finite set of requests, any limit and any
window:

| Theorem | Statement |
|---|---|
| `LimiterTypeCorrect` | `Spec => []TypeOK` |
| `LimiterInvariant` | `Spec => []LimiterInv`, the inductive invariant |
| `AdmitsWithinBounds` | `Spec => []AdmissionBounds` |
| `BlocksForCause` | `Spec => []BlocksBusyKeysOnly` |

and about `Service`, which runs it, for any environments, origins, outages and restarts:

| Theorem | Statement |
|---|---|
| `ServiceTypeCorrect` | `ServiceSpec => []ServiceTypeOK` |
| `ServiceInvariant` | `ServiceSpec => []ServiceInv`, the inductive invariant |
| `ServiceFailsClosed` | `ServiceSpec => []FailsClosed` |
| `TrafficOnlyWhenReady` | `ServiceSpec => []LiveMeansReady` |

The argument. The counts of a window are different numbers (`CountsInStep`) and leave no
gap (`CountsLeaveNoGap`); an admitted request has one from 1 to `Limit` (`VerdictInStep`),
so counts inject a window's admissions into `1 .. Limit`, and for a blocked request the
numbers `1 .. Limit` inject into those counted before it. The windows themselves follow
from the key's expiry: all counted in the current window lie in the `Window` ticks before
it, all earlier ones `Window` ticks further back (`StoreInStep`), so windows with another
between them are at least `Window` apart, and two adjacent ones cover any span. The sliding
window of a development process is direct: the bucket holds every attempt of the last
`Window` ticks (`MemoryInv`), and sets of earlier attempts only grow. Late scripts of
requests that gave up count like any other. In `Service` every step but a restart is a step
of the limiter or none (`LimiterRuns`), so the limiter's lemmas are used as they are; a
restart only turns waiting requests into abandoned ones, and happens on the platform only,
which is production. The cached configuration is the environment's (`ServedInStep`: a
restart empties the cache), a request past the edge was compared with the same environment
it is served in, because a restart drops it, and what a probe found healthy was reachable
since it began (`ProbeInStep`). They rest on `RateAssumption` (positive limit and window,
finitely many requests), `ServiceAssumption` and the `NoneAssumption`s.

Only model-checked: liveness, `DecisionReachesAgent` and `KeepsGoing`, which is outside
what the proof system handles, and the two statements that do not hold (section 4).

## 6. Not modelled

Rendering, translations and tooling. HMAC and ECDSA (a token is what
`issueSessionToken` made; see `own` above). The database schema, the indexer, the
contracts and the wallets, which live elsewhere and appear only as this code uses
them. Read-only listings, paging, and the audit log's own list. One-row upserts
(progress, certificates), where the database's row write is all there is. CORS and
security headers, the diagnostics of a failed probe, log lines. The in-memory limiter's
buckets are never dropped (`rateLimit.ts:11`), which is a matter of a developer's memory.

## 7. Plan

In this order, so that what moves money, identity or authority comes first:

1. **Done**: sign-in with its abstract specification and proofs; agent review and
   administration; rate limiter; evidence review with the review queue it implements and
   proofs; contributions against a moving chain and indexer; the governance page; the
   portal, profile and administration pages; configuration, health and edge composed with
   the limiter; the catalogue and its forms with their proofs.
2. **Done**: proofs of every safety and action property of the runs and of the three
   refinements (section 5).
3. Liveness of the pages: a tab at rest has released its buttons; a flow ends.

Runs: one safety run per module, with the fair specification where a liveness
property is worth it, and a violation run per real disagreement.

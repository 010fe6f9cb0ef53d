----------------------------- MODULE AgentReview ----------------------------
(***************************************************************************)
(* Agent onboarding and administration: the application (POST /agents),    *)
(* the KYC submission (POST /agents/kyc), the KYC decision (POST           *)
(* /admin/kyc), the status decision (POST /admin/agents), the role change  *)
(* (PATCH /admin/users), and the audit log they write.                     *)
(*                                                                         *)
(* No handler uses a transaction: each of its database calls commits on    *)
(* its own, other requests run in between, and a call that fails ends the  *)
(* request with what was already committed left in place.  One step per    *)
(* call.  The session is valid (WalletAuth); the role is read once, when   *)
(* the request begins.  A request is used once.                            *)
(***************************************************************************)
EXTENDS Integers

CONSTANTS
  Profiles,    \* rows of profiles; an agent row is named by its profile
  ApplyReqs, SubmitReqs, KycReqs, StatusReqs, RoleReqs,   \* requests, by endpoint
  None,
  InitialRole, \* profiles.role before the first request; None: no such profile
  Applied,     \* profiles that have applied already
  MaxFaults    \* bound on failed calls and restarts

Roles == {"user", "agent", "reviewer", "admin"}
Requests == ApplyReqs \cup SubmitReqs \cup KycReqs \cup StatusReqs \cup RoleReqs

ASSUME RequestAssumption ==
  /\ ApplyReqs \cap (SubmitReqs \cup KycReqs \cup StatusReqs \cup RoleReqs) = {}
  /\ SubmitReqs \cap (KycReqs \cup StatusReqs \cup RoleReqs) = {}
  /\ KycReqs \cap (StatusReqs \cup RoleReqs) = {}
  /\ StatusReqs \cap RoleReqs = {}
ASSUME InitialAssumption ==
  /\ InitialRole \in [Profiles -> Roles \cup {None}]
  /\ Applied \subseteq Profiles
  /\ MaxFaults \in Nat

AgentStatus == {"pending", "kyc_review", "approved", "rejected", "suspended"}
Decided == {"approved", "rejected", "suspended"}
KycDecisions == {"approved", "rejected"}
KycRow ==
  [agent : Profiles, status : {"submitted"} \cup KycDecisions, by : KycReqs \cup {None}]

\* What the request asks for: the profile it acts for, and what it acts on. Fields
\* an endpoint has no use for stay None.  seen is history, which no step reads: the
\* requests that had committed when the role behind a role change was checked.
Body ==
  [actor : Profiles, on : Profiles \cup SubmitReqs \cup {None},
   value : Decided \cup Roles \cup {None}, seen : SUBSET Requests]
LogEntry == [request : Requests, body : Body]

ASSUME NoneAssumption ==
  /\ None \notin Profiles /\ None \notin Requests
  /\ None \notin Decided /\ None \notin Roles /\ None \notin AgentStatus
  /\ None \notin KycRow /\ None \notin Body

VARIABLES
  role,        \* table profiles: role per profile
  agents,      \* table agents: off_chain_kyc_status per profile, or None
  agent_kyc,   \* table agent_kyc: row per submission, or None
  audit_logs,  \* table audit_logs; an entry also names the request that wrote it
  pc, body, reply,
  committed,   \* requests whose state change has been committed (history)
  faults

tables == <<role, agents, agent_kyc, audit_logs>>
vars == <<tables, pc, body, reply, committed, faults>>

\* The calls of the handlers, in the order each handler makes them.
Calls ==
  {"insertAgent", "selectAgent", "insertKyc", "markReview", "decideKyc", "setStatus",
   "changeRole", "audit", "reflect"}
Reply ==
  {"none", "ok", "unauthorized", "not_found", "conflict", "validation_error",
   "internal_error", "dropped"}

TypeOK ==
  /\ role \in [Profiles -> Roles \cup {None}]
  /\ agents \in [Profiles -> AgentStatus \cup {None}]
  /\ agent_kyc \in [SubmitReqs -> KycRow \cup {None}]
  /\ audit_logs \subseteq LogEntry
  /\ pc \in [Requests -> Calls \cup {"idle", "done"}]
  /\ body \in [Requests -> Body \cup {None}]
  /\ \A r \in Requests : pc[r] = "idle" <=> body[r] = None
  /\ reply \in [Requests -> Reply]
  /\ committed \subseteq Requests
  /\ faults \in Nat

Init ==
  /\ role = InitialRole
  /\ agents = [p \in Profiles |-> IF p \in Applied THEN "pending" ELSE None]
  /\ agent_kyc = [s \in SubmitReqs |-> None]
  /\ audit_logs = {}
  /\ pc = [r \in Requests |-> "idle"]
  /\ body = [r \in Requests |-> None]
  /\ reply = [r \in Requests |-> "none"]
  /\ committed = {}
  /\ faults = 0

Answer(r, code) ==
  /\ pc' = [pc EXCEPT ![r] = "done"]
  /\ reply' = [reply EXCEPT ![r] = code]

Goto(r, call) == pc' = [pc EXCEPT ![r] = call] /\ UNCHANGED reply

\* The answer of a call that took effect: the handler goes on, or the answer is
\* lost and the handler throws.
Then(r, go) ==
  \/ go /\ UNCHANGED faults
  \/ /\ faults < MaxFaults
     /\ faults' = faults + 1
     /\ Answer(r, "internal_error")

-----------------------------------------------------------------------------
(* requireActor and requireRole, then the request body.                     *)

Begin(r, b) ==
  /\ pc[r] = "idle"
  /\ role[b.actor] # None
  /\ body' = [body EXCEPT ![r] = b]
  /\ UNCHANGED <<tables, committed, faults>>

Apply(r) ==
  \E p \in Profiles :
    /\ Begin(r, [actor |-> p, on |-> None, value |-> None, seen |-> {}])
    /\ Goto(r, "insertAgent")

Submit(r) ==
  \E p \in Profiles :
    /\ Begin(r, [actor |-> p, on |-> None, value |-> None, seen |-> {}])
    /\ Goto(r, "selectAgent")

MutantAdmittedByCachedRole(r, p, roles, call) ==
  IF InitialRole[p] \in roles THEN Goto(r, call) ELSE Answer(r, "unauthorized")

Admitted(r, p, roles, call) ==
  IF role[p] \in roles THEN Goto(r, call) ELSE Answer(r, "unauthorized")

ReviewKyc(r) ==
  \E p \in Profiles, s \in SubmitReqs, d \in KycDecisions :
    /\ Begin(r, [actor |-> p, on |-> s, value |-> d, seen |-> {}])
    /\ Admitted(r, p, {"reviewer", "admin"}, "decideKyc")

ReviewAgent(r) ==
  \E p, a \in Profiles, d \in Decided :
    /\ Begin(r, [actor |-> p, on |-> a, value |-> d, seen |-> {}])
    /\ Admitted(r, p, {"admin"}, "setStatus")

\* Administrators cannot change their own role.
UpdateRole(r) ==
  \E p, q \in Profiles, d \in Roles :
    /\ Begin(r, [actor |-> p, on |-> q, value |-> d, seen |-> committed])
    /\ IF role[p] = "admin" /\ p = q
         THEN Answer(r, "conflict")
         ELSE Admitted(r, p, {"admin"}, "changeRole")

-----------------------------------------------------------------------------
(* POST /agents and POST /agents/kyc.                                       *)

\* One application per profile: the table refuses a second row (23505).
InsertAgent(r) ==
  LET p == body[r].actor IN
  /\ pc[r] = "insertAgent"
  /\ IF agents[p] # None
       THEN Answer(r, "conflict") /\ UNCHANGED <<agents, committed, faults>>
       ELSE /\ agents' = [agents EXCEPT ![p] = "pending"]
            /\ committed' = committed \cup {r}
            /\ Then(r, Answer(r, "ok"))
  /\ UNCHANGED <<role, agent_kyc, audit_logs, body>>

\* The path and storage checks after the select depend on no table: they pass or
\* they do not.
SelectAgent(r) ==
  /\ pc[r] = "selectAgent"
  /\ IF agents[body[r].actor] = None
       THEN Answer(r, "not_found")
       ELSE Answer(r, "validation_error") \/ Goto(r, "insertKyc")
  /\ UNCHANGED <<tables, body, committed, faults>>

MutantInsertKycPending(r) ==
  /\ pc[r] = "insertKyc"
  /\ agent_kyc' =
       [agent_kyc EXCEPT ![r] = [agent |-> body[r].actor, status |-> "pending", by |-> None]]
  /\ committed' = committed \cup {r}
  /\ Then(r, Goto(r, "markReview"))
  /\ UNCHANGED <<role, agents, audit_logs, body>>

InsertKyc(r) ==
  /\ pc[r] = "insertKyc"
  /\ agent_kyc' =
       [agent_kyc EXCEPT ![r] = [agent |-> body[r].actor, status |-> "submitted", by |-> None]]
  /\ committed' = committed \cup {r}
  /\ Then(r, Goto(r, "markReview"))
  /\ UNCHANGED <<role, agents, audit_logs, body>>

\* update agents .. where off_chain_kyc_status = 'pending'
MutantInReviewAlways(status) == IF status = None THEN None ELSE "kyc_review"
InReview(status) == IF status = "pending" THEN "kyc_review" ELSE status

MarkReview(r) ==
  LET p == body[r].actor IN
  /\ pc[r] = "markReview"
  /\ agents' = [agents EXCEPT ![p] = InReview(agents[p])]
  /\ Then(r, Answer(r, "ok"))
  /\ UNCHANGED <<role, agent_kyc, audit_logs, body, committed>>

-----------------------------------------------------------------------------
(* POST /admin/kyc: decide, audit, reflect in the agent.                    *)

\* update agent_kyc .. where status in ('submitted', 'under_review').  Nothing in
\* the backend sets under_review.
MutantOpenIfFiled(row) == row # None
Open(row) == row # None /\ row.status = "submitted"

DecideKyc(r) ==
  LET s == body[r].on IN
  /\ pc[r] = "decideKyc"
  /\ IF Open(agent_kyc[s])
       THEN /\ agent_kyc' =
                 [agent_kyc EXCEPT ![s] = [agent |-> agent_kyc[s].agent,
                                           status |-> body[r].value, by |-> r]]
            /\ committed' = committed \cup {r}
            /\ Then(r, Goto(r, "audit"))
       ELSE Answer(r, "conflict") /\ UNCHANGED <<agent_kyc, committed, faults>>
  /\ UNCHANGED <<role, agents, audit_logs, body>>

MutantReflectApproved(r) ==
  LET p == agent_kyc[body[r].on].agent IN
  /\ pc[r] = "reflect"
  /\ agents' = [agents EXCEPT ![p] = "approved"]
  /\ Then(r, Answer(r, "ok"))
  /\ UNCHANGED <<role, agent_kyc, audit_logs, body, committed>>

MutantReflectNothing(r) ==
  /\ pc[r] = "reflect"
  /\ Then(r, Answer(r, "ok"))
  /\ UNCHANGED <<tables, body, committed>>

Reflect(r) ==
  LET p == agent_kyc[body[r].on].agent IN
  /\ pc[r] = "reflect"
  /\ agents' = [agents EXCEPT ![p] = body[r].value]
  /\ Then(r, Answer(r, "ok"))
  /\ UNCHANGED <<role, agent_kyc, audit_logs, body, committed>>

-----------------------------------------------------------------------------
(* POST /admin/agents and PATCH /admin/users: change, audit.                *)

\* .single() fails when there is no such agent.
SetStatus(r) ==
  LET p == body[r].on IN
  /\ pc[r] = "setStatus"
  /\ IF agents[p] = None
       THEN Answer(r, "internal_error") /\ UNCHANGED <<agents, committed, faults>>
       ELSE /\ agents' = [agents EXCEPT ![p] = body[r].value]
            /\ committed' = committed \cup {r}
            /\ Then(r, Goto(r, "audit"))
  /\ UNCHANGED <<role, agent_kyc, audit_logs, body>>

ChangeRole(r) ==
  /\ pc[r] = "changeRole"
  /\ IF role[body[r].on] = None
       THEN Answer(r, "not_found") /\ UNCHANGED <<role, committed, faults>>
       ELSE /\ role' = [role EXCEPT ![body[r].on] = body[r].value]
            /\ committed' = committed \cup {r}
            /\ Then(r, Goto(r, "audit"))
  /\ UNCHANGED <<agents, agent_kyc, audit_logs, body>>

-----------------------------------------------------------------------------

\* writeAuditLog: a KYC decision goes on to the agent's row, the others answer.
AfterAudit(r) == IF r \in KycReqs THEN Goto(r, "reflect") ELSE Answer(r, "ok")

MutantAuditFireAndForget(r) ==
  /\ pc[r] = "audit"
  /\ \/ audit_logs' = audit_logs \cup {[request |-> r, body |-> body[r]]} /\ UNCHANGED faults
     \/ faults < MaxFaults /\ faults' = faults + 1 /\ UNCHANGED audit_logs
  /\ AfterAudit(r)
  /\ UNCHANGED <<role, agents, agent_kyc, body, committed>>

Audit(r) ==
  /\ pc[r] = "audit"
  /\ audit_logs' = audit_logs \cup {[request |-> r, body |-> body[r]]}
  /\ Then(r, AfterAudit(r))
  /\ UNCHANGED <<role, agents, agent_kyc, body, committed>>

\* A call that does nothing and reports an error.
Fails(r) ==
  /\ pc[r] \in Calls
  /\ faults < MaxFaults
  /\ faults' = faults + 1
  /\ Answer(r, "internal_error")
  /\ UNCHANGED <<tables, body, committed>>

\* The process restarts: requests in flight are dropped, the tables remain.
Restart ==
  /\ faults < MaxFaults
  /\ faults' = faults + 1
  /\ pc' = [r \in Requests |-> IF pc[r] = "idle" THEN "idle" ELSE "done"]
  /\ reply' = [r \in Requests |-> IF pc[r] \in Calls THEN "dropped" ELSE reply[r]]
  /\ UNCHANGED <<tables, body, committed>>

Call(r) ==
  \/ InsertAgent(r) \/ SelectAgent(r) \/ InsertKyc(r) \/ MarkReview(r) \/ DecideKyc(r)
  \/ Reflect(r) \/ SetStatus(r) \/ ChangeRole(r) \/ Audit(r)

Next ==
  \/ \E r \in ApplyReqs : Apply(r)
  \/ \E r \in SubmitReqs : Submit(r)
  \/ \E r \in KycReqs : ReviewKyc(r)
  \/ \E r \in StatusReqs : ReviewAgent(r)
  \/ \E r \in RoleReqs : UpdateRole(r)
  \/ \E r \in Requests : Call(r) \/ Fails(r)
  \/ Restart

Spec == Init /\ [][Next]_vars

\* A handler whose call has been answered runs on; nobody has to ask or to fail.
FairSpec == Spec /\ \A r \in Requests : WF_vars(Call(r))

-----------------------------------------------------------------------------
(* Properties.                                                              *)

Reviews == KycReqs \cup StatusReqs \cup RoleReqs

Logged(r) == \E e \in audit_logs : e.request = r /\ e.body = body[r]

KycDecidedBy ==
  [s \in SubmitReqs |-> IF agent_kyc[s] = None THEN None ELSE agent_kyc[s].by]
KycLogged == {r \in KycReqs : \E e \in audit_logs : e.request = r}
KycSucceeded == {r \in KycReqs : reply[r] = "ok"}

KycQueue ==
  INSTANCE ReviewQueue WITH
    Items <- SubmitReqs, Reviews <- KycReqs,
    decided <- KycDecidedBy, logged <- KycLogged, succeeded <- KycSucceeded

\* The KYC handlers implement the review queue: however many reviewers act on a
\* submission at once, one of them decides it, for good; only that one is in the
\* log, and no success is reported that is not logged, whatever fails.
ImplementsReviewQueue == KycQueue!Spec

\* ADMIN.md, "Audit trail guarantee": a decision or change that was answered as
\* successful is in the audit log, also when calls fail or the process restarts.
SuccessIsLogged ==
  \A r \in Reviews : reply[r] = "ok" => Logged(r)

\* The audit log is truthful: it only holds changes that were committed, and a
\* logged KYC decision is the one the submission's row still carries.
LogIsTruthful ==
  \A e \in audit_logs :
    /\ e.request \in committed
    /\ e.request \in KycReqs =>
         /\ agent_kyc[e.body.on] # None
         /\ agent_kyc[e.body.on].by = e.request
         /\ agent_kyc[e.body.on].status = e.body.value

\* The log holds every change that was reported as done, and none that was not made.
AuditLogAgrees == SuccessIsLogged /\ LogIsTruthful

\* An agent is approved only because a reviewer approved one of its submissions,
\* or an administrator approved the agent: no interleaving of decisions makes an
\* approval out of rejections.
ApprovedForAReason ==
  \A p \in Profiles : agents[p] = "approved" =>
    \/ \E s \in SubmitReqs :
         agent_kyc[s] # None /\ agent_kyc[s].agent = p /\ agent_kyc[s].status = "approved"
    \/ \E r \in StatusReqs \cap committed : body[r].on = p /\ body[r].value = "approved"

\* A late submission never takes an agent that was decided back into the queue:
\* the submission's update of the status races with decisions of reviewers.
DecidedStaysDecided ==
  [][\A p \in Profiles : agents[p] \in Decided => agents'[p] \in Decided]_vars

\* Has the author of role change r lost his own role while r was under way, by another
\* change that committed after r was checked?
Overtaken(r) ==
  \E other \in (RoleReqs \cap committed) \ body[r].seen :
    body[other].on = body[r].actor /\ body[other].value # "admin"

\* Administrators cannot change their own role, so a role change whose author is still
\* one leaves one: the last administrator is removed only by a change whose author was
\* demoted between the check of his role and the update.
AdminsVanishOnlyByRace ==
  [][(\E p \in Profiles : role[p] = "admin") /\ (\A p \in Profiles : role'[p] # "admin")
     => \E r \in RoleReqs \cap (committed' \ committed) : Overtaken(r)]_vars

\* A decision on a submission reaches the agent's status, or the reviewer is told that
\* his request failed: a call that fails after the decision has committed is not
\* swallowed, and an answered request does not hang.
DecisionReachesAgent ==
  \A s \in SubmitReqs, p \in Profiles, r \in KycReqs :
    (agent_kyc[s] # None /\ agent_kyc[s].agent = p /\ agent_kyc[s].by = r)
      ~> (agents[p] \in Decided \/ reply[r] \in {"internal_error", "dropped"})

\* "route (3).ts", the comment on POST: every KYC decision is audit-logged in the
\* same request.  The decision commits before the log entry is written.
EveryKycDecisionLogged ==
  \A r \in KycReqs \cap committed : pc[r] = "done" => Logged(r)
=============================================================================

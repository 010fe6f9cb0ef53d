---------------------------- MODULE EvidenceReview --------------------------
(***************************************************************************)
(* Planting evidence: the decision on a report (POST /admin/evidence) and  *)
(* the public reads of verified reports (GET /reforestation/projects and   *)
(* GET /reforestation/evidence).                                           *)
(*                                                                         *)
(* A decision makes three calls: it selects the report, updates it where   *)
(* it is still pending, and writes the audit log.  A public read asks for  *)
(* the reports of each project in calls of their own, answered in any      *)
(* order.  Every call commits, or reads, on its own.  Reports are inserted *)
(* by other software: the endpoint for it is switched off in this backend. *)
(***************************************************************************)
EXTENDS Integers

CONSTANTS
  Profiles, Reports, Projects,
  DecideReqs,  \* POST /admin/evidence requests
  ReadReqs,    \* public reads
  None,
  Role,        \* profiles.role of each profile
  ProjectOf,   \* the project each report is about
  MaxTrees,    \* bound on tree counts
  MaxFaults    \* bound on failed calls and restarts

Roles == {"user", "agent", "reviewer", "admin"}
Trees == 1 .. MaxTrees
Decisions == {"verified", "rejected"}
Row ==
  [submitted_by : Profiles, status : {"pending"} \cup Decisions,
   trees : Trees \cup {None}, by : DecideReqs \cup {None}]
Body ==
  [actor : Profiles, on : Reports, decision : Decisions, trees : Trees \cup {None}]
LogEntry == [request : DecideReqs, on : Reports, decision : Decisions, trees : Trees \cup {None}]
Planting == [report : Reports, trees : Trees]

ASSUME EvidenceAssumption ==
  /\ Role \in [Profiles -> Roles]
  /\ ProjectOf \in [Reports -> Projects]
  /\ MaxTrees \in Nat /\ MaxFaults \in Nat
  /\ DecideReqs \cap ReadReqs = {}
ASSUME NoneAssumption ==
  /\ None \notin Trees /\ None \notin DecideReqs
  /\ None \notin Row /\ None \notin Body

VARIABLES
  evidence,    \* table reforestation_evidence: row per report, or None
  audit_logs,
  pc, body, reply,
  faults,
  reading,     \* public reads that have begun
  answered,    \* public read: the projects whose query has been answered
  figures,     \* public read: the plantings it was given so far
  began        \* public read: the plantings to be seen when it began (history)

reviewVars == <<evidence, audit_logs, pc, body, reply>>
readVars == <<reading, answered, figures, began>>
vars == <<reviewVars, faults, readVars>>

Calls == {"select", "decide", "audit"}
Reply ==
  {"none", "ok", "unauthorized", "conflict", "internal_error", "dropped"}

TypeOK ==
  /\ evidence \in [Reports -> Row \cup {None}]
  /\ audit_logs \subseteq LogEntry
  /\ pc \in [DecideReqs -> Calls \cup {"idle", "done"}]
  /\ body \in [DecideReqs -> Body \cup {None}]
  /\ \A r \in DecideReqs : pc[r] = "idle" <=> body[r] = None
  /\ reply \in [DecideReqs -> Reply]
  /\ faults \in Nat
  /\ reading \subseteq ReadReqs
  /\ answered \in [ReadReqs -> SUBSET Projects]
  /\ figures \in [ReadReqs -> SUBSET Planting]
  /\ began \in [ReadReqs -> SUBSET Planting]

Init ==
  /\ evidence = [e \in Reports |-> None]
  /\ audit_logs = {}
  /\ pc = [r \in DecideReqs |-> "idle"]
  /\ body = [r \in DecideReqs |-> None]
  /\ reply = [r \in DecideReqs |-> "none"]
  /\ faults = 0
  /\ reading = {}
  /\ answered = [q \in ReadReqs |-> {}]
  /\ figures = [q \in ReadReqs |-> {}]
  /\ began = [q \in ReadReqs |-> {}]

\* A report is filed; trees_verified may hold a claim.
File(e) ==
  /\ evidence[e] = None
  /\ \E p \in Profiles, n \in Trees \cup {None} :
       evidence' = [evidence EXCEPT ![e] =
         [submitted_by |-> p, status |-> "pending", trees |-> n, by |-> None]]
  /\ UNCHANGED <<audit_logs, pc, body, reply, faults, readVars>>

-----------------------------------------------------------------------------
(* POST /admin/evidence.                                                    *)

Answer(r, code) ==
  /\ pc' = [pc EXCEPT ![r] = "done"]
  /\ reply' = [reply EXCEPT ![r] = code]

Goto(r, call) == pc' = [pc EXCEPT ![r] = call] /\ UNCHANGED reply

\* The answer of a call that took effect: the handler goes on, or the answer is
\* lost and the handler throws.
Then(r, go) ==
  \/ go /\ UNCHANGED faults
  \/ /\ faults < MaxFaults
     /\ faults' = faults + 1
     /\ Answer(r, "internal_error")

\* A body the schema accepts: a verified report needs a tree count, a rejected
\* one may carry one.
Accepted(b) == b.decision = "verified" => b.trees # None

Review(r) ==
  /\ pc[r] = "idle"
  /\ \E b \in Body :
       /\ Accepted(b)
       /\ body' = [body EXCEPT ![r] = b]
       /\ IF Role[b.actor] \in {"reviewer", "admin"}
            THEN Goto(r, "select") ELSE Answer(r, "unauthorized")
  /\ UNCHANGED <<evidence, audit_logs, faults, readVars>>

Pending(e) == evidence[e] # None /\ evidence[e].status = "pending"

MutantSelectReportOfAnyone(r) ==
  /\ pc[r] = "select"
  /\ IF ~Pending(body[r].on) THEN Answer(r, "conflict") ELSE Goto(r, "decide")
  /\ UNCHANGED <<evidence, audit_logs, body, faults, readVars>>

SelectReport(r) ==
  LET e == body[r].on IN
  /\ pc[r] = "select"
  /\ IF ~Pending(e)
       THEN Answer(r, "conflict")
       ELSE IF evidence[e].submitted_by = body[r].actor
         THEN Answer(r, "unauthorized")
         ELSE Goto(r, "decide")
  /\ UNCHANGED <<evidence, audit_logs, body, faults, readVars>>

\* The row after the decision; verified_by is the actor of the request `by`.
MutantOutcomeZeroCount(r) ==
  [evidence[body[r].on] EXCEPT
     !.status = body[r].decision, !.by = r,
     !.trees = IF body[r].decision = "verified" THEN body[r].trees ELSE 0]
Outcome(r) ==
  [evidence[body[r].on] EXCEPT
     !.status = body[r].decision, !.by = r,
     !.trees = IF body[r].decision = "verified" THEN body[r].trees ELSE None]

MutantDecideReportUnguarded(r) ==
  LET e == body[r].on IN
  /\ pc[r] = "decide"
  /\ evidence' = [evidence EXCEPT ![e] = Outcome(r)]
  /\ Then(r, Goto(r, "audit"))
  /\ UNCHANGED <<audit_logs, body, readVars>>

\* update .. where status = 'pending'
DecideReport(r) ==
  LET e == body[r].on IN
  /\ pc[r] = "decide"
  /\ IF Pending(e)
       THEN /\ evidence' = [evidence EXCEPT ![e] = Outcome(r)]
            /\ Then(r, Goto(r, "audit"))
       ELSE Answer(r, "conflict") /\ UNCHANGED <<evidence, faults>>
  /\ UNCHANGED <<audit_logs, body, readVars>>

Entry(r) ==
  [request |-> r, on |-> body[r].on, decision |-> body[r].decision,
   trees |-> evidence[body[r].on].trees]

Audit(r) ==
  /\ pc[r] = "audit"
  /\ audit_logs' = audit_logs \cup {Entry(r)}
  /\ Then(r, Answer(r, "ok"))
  /\ UNCHANGED <<evidence, body, readVars>>

\* A call that does nothing and reports an error.
MutantFailsAsOk(r) ==
  /\ pc[r] \in Calls
  /\ faults < MaxFaults
  /\ faults' = faults + 1
  /\ Answer(r, IF pc[r] = "audit" THEN "ok" ELSE "internal_error")
  /\ UNCHANGED <<evidence, audit_logs, body, readVars>>

Fails(r) ==
  /\ pc[r] \in Calls
  /\ faults < MaxFaults
  /\ faults' = faults + 1
  /\ Answer(r, "internal_error")
  /\ UNCHANGED <<evidence, audit_logs, body, readVars>>

Restart ==
  /\ faults < MaxFaults
  /\ faults' = faults + 1
  /\ pc' = [r \in DecideReqs |-> IF pc[r] = "idle" THEN "idle" ELSE "done"]
  /\ reply' = [r \in DecideReqs |-> IF pc[r] \in Calls THEN "dropped" ELSE reply[r]]
  /\ UNCHANGED <<evidence, audit_logs, body, readVars>>

-----------------------------------------------------------------------------
(* The public reads.                                                        *)

\* select .. where project_id = p and status = 'verified'
MutantPlantedClaims(p) ==
  {[report |-> e, trees |-> evidence[e].trees] :
     e \in {f \in Reports : ProjectOf[f] = p /\ evidence[f] # None /\ evidence[f].trees # None}}

Planted(p) ==
  {[report |-> e, trees |-> evidence[e].trees] :
     e \in {f \in Reports : /\ ProjectOf[f] = p
                            /\ evidence[f] # None
                            /\ evidence[f].status = "verified"}}

ReadStart(q) ==
  /\ q \notin reading
  /\ reading' = reading \cup {q}
  /\ began' = [began EXCEPT ![q] = UNION {Planted(p) : p \in Projects}]
  /\ UNCHANGED <<reviewVars, faults, answered, figures>>

ReadProject(q, p) ==
  /\ q \in reading
  /\ p \notin answered[q]
  /\ answered' = [answered EXCEPT ![q] = @ \cup {p}]
  /\ figures' = [figures EXCEPT ![q] = @ \cup Planted(p)]
  /\ UNCHANGED <<reviewVars, faults, reading, began>>

-----------------------------------------------------------------------------

Decision(r) ==
  Review(r) \/ SelectReport(r) \/ DecideReport(r) \/ Audit(r) \/ Fails(r)

Next ==
  \/ \E e \in Reports : File(e)
  \/ \E r \in DecideReqs : Decision(r)
  \/ Restart
  \/ \E q \in ReadReqs : ReadStart(q) \/ \E p \in Projects : ReadProject(q, p)

Spec == Init /\ [][Next]_vars

-----------------------------------------------------------------------------
(* Properties.                                                              *)

DecidedBy ==
  [e \in Reports |-> IF evidence[e] = None THEN None ELSE evidence[e].by]
Logged == {r \in DecideReqs : \E entry \in audit_logs : entry.request = r}
Succeeded == {r \in DecideReqs : reply[r] = "ok"}

Abstract ==
  INSTANCE ReviewQueue WITH
    Items <- Reports, Reviews <- DecideReqs,
    decided <- DecidedBy, logged <- Logged, succeeded <- Succeeded

\* However many reviewers act on a report, one of them decides it, for good; only
\* that one is in the audit log, and only a logged one is told it succeeded.
ImplementsReviewQueue == Abstract!Spec

\* Nobody decides a report of their own, though who submitted the report is
\* checked by one call and the decision is made by another.
NeverOwnReport ==
  \A e \in Reports : evidence[e] # None /\ evidence[e].by # None =>
    body[evidence[e].by].actor # evidence[e].submitted_by

\* A verified report carries a positive tree count and a rejected one carries
\* none, whatever the report claimed and whichever of several reviewers won.
TreesIffVerified ==
  \A e \in Reports : evidence[e] # None =>
    /\ evidence[e].status = "verified" => evidence[e].trees # None
    /\ evidence[e].status = "rejected" => evidence[e].trees = None

\* The audit log agrees with the report for good: decision, count and reviewer.
LogMatchesReport ==
  \A entry \in audit_logs :
    /\ evidence[entry.on] # None
    /\ evidence[entry.on].by = entry.request
    /\ evidence[entry.on].status = entry.decision
    /\ evidence[entry.on].trees = entry.trees

\* A public read, though made of several queries, misses no planting that was
\* verified before it began and shows none that is not verified now: published
\* figures are never taken back.
PublishedFiguresStand ==
  \A q \in ReadReqs :
    /\ \A x \in began[q] : ProjectOf[x.report] \in answered[q] => x \in figures[q]
    /\ \A x \in figures[q] : x \in Planted(ProjectOf[x.report])
=============================================================================

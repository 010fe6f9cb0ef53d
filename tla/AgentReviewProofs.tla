-------------------------- MODULE AgentReviewProofs -------------------------
(***************************************************************************)
(* Theorems about AgentReview, for every set of profiles and requests,     *)
(* every assignment of roles and every number of faults.                   *)
(***************************************************************************)
EXTENDS AgentReview, TLAPS

USE NoneAssumption, InitialAssumption
USE DEF Calls, Reply, AgentStatus, Decided, KycDecisions, Roles

-----------------------------------------------------------------------------
(* The inductive invariant behind the safety properties.                    *)

\* A request asks for what its endpoint accepts, and makes the calls of its handler.
RequestsFit ==
  \A r \in Requests :
    /\ r \in KycReqs /\ body[r] # None => body[r].on \in SubmitReqs /\ body[r].value \in KycDecisions
    /\ r \in StatusReqs /\ body[r] # None => body[r].on \in Profiles /\ body[r].value \in Decided
    /\ r \in RoleReqs /\ body[r] # None => body[r].on \in Profiles /\ body[r].value \in Roles
    /\ pc[r] = "insertAgent" => r \in ApplyReqs
    /\ pc[r] \in {"selectAgent", "insertKyc", "markReview"} => r \in SubmitReqs
    /\ pc[r] \in {"decideKyc", "reflect"} => r \in KycReqs
    /\ pc[r] = "setStatus" => r \in StatusReqs
    /\ pc[r] = "changeRole" => r \in RoleReqs
    /\ pc[r] = "audit" => r \in Reviews

\* A submission is filed once, and its row names the decision that closed it.
SubmissionsInStep ==
  \A s \in SubmitReqs :
    /\ pc[s] \in {"idle", "selectAgent", "insertKyc"} => agent_kyc[s] = None
    /\ agent_kyc[s] # None =>
         LET row == agent_kyc[s] IN
         /\ row.by = None <=> row.status = "submitted"
         /\ row.by # None =>
              /\ pc[row.by] \in {"audit", "reflect", "done"}
              /\ body[row.by].on = s /\ body[row.by].value = row.status

\* A decision that is to be logged, or reflected, is the one the row carries.
DecisionsHeld ==
  \A r \in KycReqs : pc[r] \in {"audit", "reflect"} =>
    agent_kyc[body[r].on] # None /\ agent_kyc[body[r].on].by = r

\* What each program counter says of the log and of the answer.
LogInStep ==
  /\ \A r \in Requests :
       /\ pc[r] \in {"audit", "reflect"} => r \in committed
       /\ pc[r] = "reflect" => Logged(r)
       /\ r \in committed => pc[r] # "idle"
       /\ reply[r] = "ok" => pc[r] = "done"
  /\ \A e \in audit_logs : pc[e.request] \in {"reflect", "done"} /\ e.body = body[e.request]

\* Who is about to change a role has not changed it yet and is an administrator still,
\* or was demoted since his role was checked; nobody changes his own.
ActorsWereAdmins ==
  /\ \A r \in Requests : body[r] # None => body[r].seen \subseteq committed
  /\ \A r \in RoleReqs : pc[r] = "changeRole" =>
       /\ r \notin committed
       /\ body[r].on # body[r].actor
       /\ role[body[r].actor] = "admin" \/ Overtaken(r)

AgentInv ==
  /\ TypeOK /\ RequestsFit /\ SubmissionsInStep /\ DecisionsHeld /\ LogInStep
  /\ AuditLogAgrees /\ ApprovedForAReason
  /\ ActorsWereAdmins

-----------------------------------------------------------------------------
-----------------------------------------------------------------------------
(* How a request goes on.                                                   *)

\* A request that has begun has a body; its fields fit its endpoint.
LEMMA BodyType ==
  ASSUME TypeOK, RequestsFit, NEW r \in Requests, pc[r] # "idle"
  PROVE  /\ body[r] \in Body /\ body[r] # None /\ body[r].actor \in Profiles
         /\ r \in KycReqs => body[r].on \in SubmitReqs /\ body[r].value \in KycDecisions
         /\ r \in StatusReqs => body[r].on \in Profiles /\ body[r].value \in Decided
         /\ r \in RoleReqs => body[r].on \in Profiles /\ body[r].value \in Roles
BY DEF TypeOK, RequestsFit, Body

\* One request goes on to one of these calls, or is answered with one of these codes.
Advance(r, calls, codes) ==
  /\ pc' \in [Requests -> Calls \cup {"idle", "done"}]
  /\ reply' \in [Requests -> Reply]
  /\ \A q \in Requests : q # r => pc'[q] = pc[q] /\ reply'[q] = reply[q]
  /\ \/ pc'[r] = "done" /\ reply'[r] \in codes
     \/ pc'[r] \in calls /\ reply'[r] = reply[r]

\* An answer advances its request.
LEMMA AnswerAdvances ==
  ASSUME TypeOK, NEW r \in Requests, NEW code \in Reply, Answer(r, code)
  PROVE  Advance(r, {}, {code})
BY DEF TypeOK, Answer, Advance

\* So does a call.
LEMMA GotoAdvances ==
  ASSUME TypeOK, NEW r \in Requests, NEW call \in Calls, Goto(r, call)
  PROVE  Advance(r, {call}, {})
BY DEF TypeOK, Goto, Advance

\* The first steps admit a request by the role of its actor, or refuse it.
LEMMA AdmittedAdvances ==
  ASSUME TypeOK, NEW r \in Requests, NEW p, NEW roles, NEW call \in Calls,
         Admitted(r, p, roles, call)
  PROVE  /\ Advance(r, {call}, {"unauthorized"})
         /\ pc'[r] = call => role[p] \in roles
<1>1. CASE role[p] \in roles
  BY <1>1, GotoAdvances DEF Admitted, Advance
<1>2. CASE role[p] \notin roles
  BY <1>2, AnswerAdvances DEF Admitted, Advance
<1>3. QED
  BY <1>1, <1>2

\* After a call that took effect the handler goes on, or its answer is lost.
LEMMA ThenGoesOn ==
  ASSUME TypeOK, NEW r \in Requests, NEW call \in Calls, Then(r, Goto(r, call))
  PROVE  Advance(r, {call}, {"internal_error"}) /\ faults' \in Nat
<1>1. CASE Goto(r, call) /\ UNCHANGED faults
  BY <1>1, GotoAdvances DEF Advance, TypeOK
<1>2. CASE Answer(r, "internal_error") /\ faults' = faults + 1
  BY <1>2, AnswerAdvances DEF Advance, TypeOK
<1>3. QED
  BY <1>1, <1>2 DEF Then

\* The same for a last call: the request is answered either way.
LEMMA ThenAnswers ==
  ASSUME TypeOK, NEW r \in Requests, Then(r, Answer(r, "ok"))
  PROVE  Advance(r, {}, {"ok", "internal_error"}) /\ faults' \in Nat
<1>1. CASE Answer(r, "ok") /\ UNCHANGED faults
  BY <1>1, AnswerAdvances DEF Advance, TypeOK
<1>2. CASE Answer(r, "internal_error") /\ faults' = faults + 1
  BY <1>2, AnswerAdvances DEF Advance, TypeOK
<1>3. QED
  BY <1>1, <1>2 DEF Then

-----------------------------------------------------------------------------
(* Steps that write no table.                                               *)

\* A request that begins or ends, or goes from the select to the insert, leaves the
\* invariant as it is: nothing it could deny has been written.
LEMMA MoveStep ==
  ASSUME AgentInv, NEW r \in Requests,
         UNCHANGED <<tables, committed>>, faults' \in Nat,
         NEW calls \in SUBSET Calls,
         Advance(r, calls, Reply \ {"ok"}),
         body' \in [Requests -> Body \cup {None}], body'[r] # None,
         \A q \in Requests : q # r \/ pc[r] # "idle" => body'[q] = body[q],
         pc[r] # "done",
         RequestsFit',
         calls \subseteq {"insertAgent", "selectAgent", "insertKyc", "decideKyc", "setStatus",
                          "changeRole"},
         pc'[r] # "done" => pc[r] \in {"idle", "selectAgent"},
         pc'[r] = "changeRole" =>
           body'[r].on # body'[r].actor /\ role[body'[r].actor] = "admin",
         body'[r].seen \subseteq committed
  PROVE  AgentInv'
<1> USE DEF AgentInv, Advance, tables
<1>1. TypeOK'
  BY DEF TypeOK
<1>2. SubmissionsInStep'
  <2> SUFFICES ASSUME NEW s \in SubmitReqs
               PROVE  /\ pc'[s] \in {"idle", "selectAgent", "insertKyc"} => agent_kyc[s] = None
                      /\ agent_kyc[s] # None =>
                           LET row == agent_kyc[s] IN
                           /\ row.by = None <=> row.status = "submitted"
                           /\ row.by # None =>
                                /\ pc'[row.by] \in {"audit", "reflect", "done"}
                                /\ body'[row.by].on = s /\ body'[row.by].value = row.status
    BY DEF SubmissionsInStep
  <2>1. pc'[s] \in {"idle", "selectAgent", "insertKyc"} => agent_kyc[s] = None
    BY DEF SubmissionsInStep, Requests
  <2>2. ASSUME agent_kyc[s] # None, agent_kyc[s].by # None
        PROVE  /\ agent_kyc[s].by \in Requests
               /\ pc'[agent_kyc[s].by] \in {"audit", "reflect", "done"}
               /\ body'[agent_kyc[s].by] = body[agent_kyc[s].by]
    <3>1. agent_kyc[s].by \in Requests
      BY <2>2 DEF TypeOK, KycRow, Requests
    <3>2. pc[agent_kyc[s].by] \in {"audit", "reflect", "done"}
      BY <2>2 DEF SubmissionsInStep
    <3>3. QED
      BY <3>1, <3>2
  <2>3. QED
    BY <2>1, <2>2 DEF SubmissionsInStep
<1>3. DecisionsHeld'
  BY DEF TypeOK, DecisionsHeld, Requests
<1>4. LogInStep'
  <2>1. \A e \in audit_logs : e.request \in Requests
    BY DEF TypeOK, LogEntry
  <2>2. \A e \in audit_logs : /\ pc'[e.request] \in {"reflect", "done"}
                             /\ e.body = body'[e.request]
    BY <2>1 DEF LogInStep
  <2>3. \A q \in Requests : pc'[q] = "reflect" => Logged(q)'
    BY DEF LogInStep, Logged
  <2>4. \A q \in Requests : /\ pc'[q] \in {"audit", "reflect"} => q \in committed'
                            /\ q \in committed' => pc'[q] # "idle"
                            /\ reply'[q] = "ok" => pc'[q] = "done"
    BY DEF LogInStep
  <2>5. QED
    BY <2>2, <2>3, <2>4 DEF LogInStep
<1>5. AuditLogAgrees'
  BY DEF TypeOK, AuditLogAgrees, SuccessIsLogged, LogIsTruthful, Logged, LogEntry, Reviews,
         Requests, LogInStep
<1>6. ApprovedForAReason'
  BY DEF TypeOK, ApprovedForAReason, LogInStep, Requests
<1>7. ActorsWereAdmins'
  <2>1. \A q \in Requests : body'[q] # None => body'[q].seen \subseteq committed'
    BY DEF ActorsWereAdmins
  <2>2. ASSUME NEW q \in RoleReqs, pc'[q] = "changeRole"
        PROVE  /\ q \notin committed'
               /\ body'[q].on # body'[q].actor
               /\ role'[body'[q].actor] = "admin" \/ Overtaken(q)'
    <3>1. CASE q = r
      <4>1. pc[r] = "idle"
        BY <2>2, <3>1, RequestAssumption DEF RequestsFit
      <4>2. QED
        BY <2>2, <3>1, <4>1 DEF LogInStep
    <3>2. CASE q # r
      <4>1. pc[q] = "changeRole" /\ q \in Requests
        BY <2>2, <3>2 DEF Requests
      <4>2. CASE role[body[q].actor] = "admin"
        BY <3>2, <4>1, <4>2 DEF ActorsWereAdmins
      <4>3. CASE Overtaken(q)
        <5>1. PICK other \in (RoleReqs \cap committed) \ body[q].seen :
                body[other].on = body[q].actor /\ body[other].value # "admin"
          BY <4>3 DEF Overtaken
        <5>2. body'[other] = body[other]
          BY <5>1 DEF LogInStep, Requests
        <5>3. QED
          BY <3>2, <4>1, <5>1, <5>2 DEF ActorsWereAdmins, Overtaken
      <4>4. QED
        BY <4>1, <4>2, <4>3 DEF ActorsWereAdmins
    <3>3. QED
      BY <3>1, <3>2
  <2>3. QED
    BY <2>1, <2>2 DEF ActorsWereAdmins
<1>9. QED
  BY <1>1, <1>2, <1>3, <1>4, <1>5, <1>6, <1>7

\* Requests fit their endpoints after every step: a body is written once, as its
\* endpoint parses it, and a handler makes its own calls only.
LEMMA FitStep ==
  ASSUME TypeOK, RequestsFit, [Next]_vars
  PROVE  RequestsFit'
<1> USE RequestAssumption DEF RequestsFit
<1>1. ASSUME NEW r \in ApplyReqs, Apply(r) PROVE RequestsFit'
  BY <1>1 DEF Apply, Begin, Goto, TypeOK, Requests, Reviews
<1>2. ASSUME NEW r \in SubmitReqs, Submit(r) PROVE RequestsFit'
  BY <1>2 DEF Submit, Begin, Goto, TypeOK, Requests, Reviews
<1>3. ASSUME NEW r \in KycReqs, ReviewKyc(r) PROVE RequestsFit'
  BY <1>3 DEF ReviewKyc, Begin, Admitted, Goto, Answer, TypeOK, Requests, Reviews
<1>4. ASSUME NEW r \in StatusReqs, ReviewAgent(r) PROVE RequestsFit'
  BY <1>4 DEF ReviewAgent, Begin, Admitted, Goto, Answer, TypeOK, Requests, Reviews
<1>5. ASSUME NEW r \in RoleReqs, UpdateRole(r) PROVE RequestsFit'
  BY <1>5 DEF UpdateRole, Begin, Admitted, Goto, Answer, TypeOK, Requests, Reviews
<1>6. ASSUME NEW r \in Requests, Call(r) PROVE RequestsFit'
  <2>1. UNCHANGED body
    BY <1>6 DEF Call, InsertAgent, SelectAgent, InsertKyc, MarkReview, DecideKyc, Reflect,
                SetStatus, ChangeRole, Audit, tables
  <2>2. CASE pc' = [pc EXCEPT ![r] = "done"]
    BY <2>1, <2>2 DEF TypeOK, Requests, Reviews
  <2>3. CASE SelectAgent(r)
    BY <2>1, <2>3 DEF SelectAgent, Goto, Answer, TypeOK, Requests, Reviews
  <2>4. CASE InsertKyc(r)
    BY <2>1, <2>4 DEF InsertKyc, Then, Goto, Answer, TypeOK, Requests, Reviews
  <2>5. CASE DecideKyc(r)
    BY <2>1, <2>5 DEF DecideKyc, Then, Goto, Answer, TypeOK, Requests, Reviews
  <2>6. CASE SetStatus(r)
    BY <2>1, <2>6 DEF SetStatus, Then, Goto, Answer, TypeOK, Requests, Reviews
  <2>7. CASE ChangeRole(r)
    BY <2>1, <2>7 DEF ChangeRole, Then, Goto, Answer, TypeOK, Requests, Reviews
  <2>8. CASE Audit(r)
    BY <2>1, <2>8 DEF Audit, Then, AfterAudit, Goto, Answer, TypeOK, Requests, Reviews
  <2>9. QED
    BY <1>6, <2>2, <2>3, <2>4, <2>5, <2>6, <2>7, <2>8
    DEF Call, InsertAgent, MarkReview, Reflect, Then, Answer
<1>7. ASSUME NEW r \in Requests, Fails(r) PROVE RequestsFit'
  BY <1>7 DEF Fails, Answer, TypeOK, Requests, Reviews
<1>8. CASE Restart
  BY <1>8 DEF Restart, TypeOK, Requests, Reviews
<1>9. CASE UNCHANGED vars
  BY <1>9 DEF vars
<1>10. QED
  BY <1>1, <1>2, <1>3, <1>4, <1>5, <1>6, <1>7, <1>8, <1>9 DEF Next

-----------------------------------------------------------------------------
(* The first step of each request.                                          *)

\* A request begins with the body its endpoint parsed.
LEMMA BeginStep ==
  ASSUME AgentInv, NEW r \in Requests, NEW b \in Body, Begin(r, b), NEW call \in Calls,
         Advance(r, {call}, Reply \ {"ok"}), RequestsFit',
         call \in {"insertAgent", "selectAgent", "decideKyc", "setStatus", "changeRole"},
         b.seen \subseteq committed,
         pc'[r] = "changeRole" => b.on # b.actor /\ role[b.actor] = "admin"
  PROVE  AgentInv'
<1>1. pc[r] = "idle" /\ body' = [body EXCEPT ![r] = b] /\ b # None
  BY DEF Begin
<1>2. UNCHANGED <<tables, committed, faults>>
  BY DEF Begin
<1>3. body' \in [Requests -> Body \cup {None}] /\ body'[r] = b
      /\ \A q \in Requests : q # r => body'[q] = body[q]
  BY <1>1 DEF AgentInv, TypeOK
<1>4. faults' \in Nat
  BY <1>2 DEF AgentInv, TypeOK
<1>5. /\ pc'[r] = "changeRole" =>
           body'[r].on # body'[r].actor /\ role[body'[r].actor] = "admin"
      /\ body'[r].seen \subseteq committed
  BY <1>3
<1>6. {call} \in SUBSET Calls
  OBVIOUS
<1> DEFINE calls == {call}
<1>7. calls \subseteq {"insertAgent", "selectAgent", "insertKyc", "decideKyc", "setStatus",
                       "changeRole"}
  OBVIOUS
<1>8. Advance(r, calls, Reply \ {"ok"}) /\ calls \in SUBSET Calls
  BY <1>6
<1> HIDE DEF calls
<1>9. QED
  BY <1>1, <1>2, <1>3, <1>4, <1>5, <1>7, <1>8, MoveStep

\* An application begins; its body names its author only.
LEMMA ApplyStep ==
  ASSUME AgentInv, NEW r \in ApplyReqs, Apply(r), RequestsFit'
  PROVE  AgentInv'
<1>1. PICK p \in Profiles : Begin(r, [actor |-> p, on |-> None, value |-> None, seen |-> {}])
                            /\ Goto(r, "insertAgent")
  BY DEF Apply
<1> DEFINE b == [actor |-> p, on |-> None, value |-> None, seen |-> {}]
<1>2. b \in Body
  BY DEF Body
<1>3. r \in Requests /\ TypeOK
  BY DEF Requests, AgentInv
<1>4. Advance(r, {"insertAgent"}, Reply \ {"ok"}) /\ pc'[r] = "insertAgent"
  BY <1>1, <1>3, GotoAdvances DEF Advance
<1> HIDE DEF b
<1>5. QED
  BY <1>1, <1>2, <1>3, <1>4, BeginStep DEF b

\* A submission begins; it has filed nothing yet.
LEMMA SubmitStep ==
  ASSUME AgentInv, NEW r \in SubmitReqs, Submit(r), RequestsFit'
  PROVE  AgentInv'
<1>1. PICK p \in Profiles : Begin(r, [actor |-> p, on |-> None, value |-> None, seen |-> {}])
                            /\ Goto(r, "selectAgent")
  BY DEF Submit
<1> DEFINE b == [actor |-> p, on |-> None, value |-> None, seen |-> {}]
<1>2. b \in Body
  BY DEF Body
<1>3. r \in Requests /\ TypeOK
  BY DEF Requests, AgentInv
<1>4. Advance(r, {"selectAgent"}, Reply \ {"ok"}) /\ pc'[r] = "selectAgent"
  BY <1>1, <1>3, GotoAdvances DEF Advance
<1>5. QED
  BY <1>1, <1>2, <1>3, <1>4, BeginStep

\* A KYC review begins, or its actor is refused.
LEMMA ReviewKycStep ==
  ASSUME AgentInv, NEW r \in KycReqs, ReviewKyc(r), RequestsFit'
  PROVE  AgentInv'
<1>1. PICK p \in Profiles, s \in SubmitReqs, d \in KycDecisions :
        /\ Begin(r, [actor |-> p, on |-> s, value |-> d, seen |-> {}])
        /\ Admitted(r, p, {"reviewer", "admin"}, "decideKyc")
  BY DEF ReviewKyc
<1> DEFINE b == [actor |-> p, on |-> s, value |-> d, seen |-> {}]
<1>2. b \in Body
  BY DEF Body
<1>3. r \in Requests /\ TypeOK
  BY DEF Requests, AgentInv
<1>4. Advance(r, {"decideKyc"}, Reply \ {"ok"}) /\ pc'[r] # "changeRole"
  BY <1>1, <1>3, AdmittedAdvances DEF Advance
<1>5. QED
  BY <1>1, <1>2, <1>3, <1>4, BeginStep

\* A status decision begins, or its actor is refused.
LEMMA ReviewAgentStep ==
  ASSUME AgentInv, NEW r \in StatusReqs, ReviewAgent(r), RequestsFit'
  PROVE  AgentInv'
<1>1. PICK p, a \in Profiles, d \in Decided :
        /\ Begin(r, [actor |-> p, on |-> a, value |-> d, seen |-> {}])
        /\ Admitted(r, p, {"admin"}, "setStatus")
  BY DEF ReviewAgent
<1> DEFINE b == [actor |-> p, on |-> a, value |-> d, seen |-> {}]
<1>2. b \in Body
  BY DEF Body
<1>3. r \in Requests /\ TypeOK
  BY DEF Requests, AgentInv
<1>4. Advance(r, {"setStatus"}, Reply \ {"ok"}) /\ pc'[r] # "changeRole"
  BY <1>1, <1>3, AdmittedAdvances DEF Advance
<1>5. QED
  BY <1>1, <1>2, <1>3, <1>4, BeginStep

\* A role change begins only for an administrator, and not on himself.
LEMMA UpdateRoleStep ==
  ASSUME AgentInv, NEW r \in RoleReqs, UpdateRole(r), RequestsFit'
  PROVE  AgentInv'
<1>1. PICK p, q \in Profiles, d \in Roles :
        /\ Begin(r, [actor |-> p, on |-> q, value |-> d, seen |-> committed])
        /\ IF role[p] = "admin" /\ p = q
             THEN Answer(r, "conflict")
             ELSE Admitted(r, p, {"admin"}, "changeRole")
  BY DEF UpdateRole
<1> DEFINE b == [actor |-> p, on |-> q, value |-> d, seen |-> committed]
<1>2. b \in Body
  BY DEF Body, AgentInv, TypeOK
<1>3. r \in Requests /\ TypeOK
  BY DEF Requests, AgentInv
<1>4. /\ Advance(r, {"changeRole"}, Reply \ {"ok"})
      /\ pc'[r] = "changeRole" => q # p /\ role[p] = "admin"
  <2>1. CASE role[p] = "admin" /\ p = q
    BY <1>1, <1>3, <2>1, AnswerAdvances DEF Advance
  <2>2. CASE ~(role[p] = "admin" /\ p = q)
    BY <1>1, <1>3, <2>2, AdmittedAdvances DEF Advance
  <2>3. QED
    BY <2>1, <2>2
<1>5. QED
  BY <1>1, <1>2, <1>3, <1>4, BeginStep

-----------------------------------------------------------------------------
(* Calls that find nothing to do, fail, or are cut off.                     *)

\* A request that is under way and is answered without having written anything.
LEMMA EndStep ==
  ASSUME AgentInv, NEW r \in Requests, pc[r] \notin {"idle", "done"},
         UNCHANGED <<tables, body, committed>>, faults' \in Nat,
         NEW code \in Reply \ {"ok"}, Answer(r, code), RequestsFit'
  PROVE  AgentInv'
<1> USE DEF AgentInv
<1>1. Advance(r, {}, Reply \ {"ok"}) /\ pc'[r] = "done"
  BY AnswerAdvances DEF Advance
<1>2. body' \in [Requests -> Body \cup {None}] /\ body'[r] # None
      /\ \A q \in Requests : body'[q] = body[q]
      /\ body'[r].seen \subseteq committed
  BY DEF TypeOK, ActorsWereAdmins
<1> HIDE DEF AgentInv
<1>3. QED
  BY <1>1, <1>2, MoveStep

\* The select finds an agent to file for, or ends the submission.
LEMMA SelectAgentStep ==
  ASSUME AgentInv, NEW r \in Requests, SelectAgent(r), RequestsFit'
  PROVE  AgentInv'
<1>1. pc[r] = "selectAgent" /\ UNCHANGED <<tables, body, committed, faults>> /\ TypeOK
  BY DEF SelectAgent, AgentInv
<1>2. faults' \in Nat /\ body' \in [Requests -> Body \cup {None}] /\ body'[r] # None
      /\ \A q \in Requests : body'[q] = body[q]
      /\ body'[r].seen \subseteq committed
  BY <1>1 DEF TypeOK, AgentInv, ActorsWereAdmins
<1>3. CASE Goto(r, "insertKyc")
  <2>1. Advance(r, {"insertKyc"}, Reply \ {"ok"}) /\ pc'[r] = "insertKyc"
    BY <1>1, <1>3, GotoAdvances DEF Advance
  <2>2. QED
    BY <1>1, <1>2, <2>1, MoveStep
<1>4. CASE \E code \in {"not_found", "validation_error"} : Answer(r, code)
  BY <1>1, <1>2, <1>4, EndStep
<1>5. QED
  BY <1>3, <1>4 DEF SelectAgent

\* A call that fails ends its request; what was committed before stays as it is.
LEMMA FailsStep ==
  ASSUME AgentInv, NEW r \in Requests, Fails(r), RequestsFit'
  PROVE  AgentInv'
<1>1. faults' \in Nat
  BY DEF Fails, AgentInv, TypeOK
<1>2. pc[r] \notin {"idle", "done"} /\ UNCHANGED <<tables, body, committed>>
      /\ Answer(r, "internal_error")
  BY DEF Fails
<1>3. QED
  BY <1>1, <1>2, EndStep

\* A restart ends every request in flight and leaves the tables alone.
LEMMA RestartStep ==
  ASSUME AgentInv, Restart, RequestsFit'
  PROVE  AgentInv'
<1> USE DEF AgentInv, Restart, tables
<1>1. TypeOK'
  BY DEF TypeOK
<1>2. \A r \in Requests : /\ pc'[r] = IF pc[r] = "idle" THEN "idle" ELSE "done"
                          /\ reply'[r] \in {reply[r], "dropped"}
  BY DEF TypeOK
<1>3. SubmissionsInStep'
  <2> SUFFICES ASSUME NEW s \in SubmitReqs
               PROVE  /\ pc'[s] \in {"idle", "selectAgent", "insertKyc"} => agent_kyc[s] = None
                      /\ agent_kyc[s] # None =>
                           LET row == agent_kyc[s] IN
                           /\ row.by = None <=> row.status = "submitted"
                           /\ row.by # None =>
                                /\ pc'[row.by] \in {"audit", "reflect", "done"}
                                /\ body[row.by].on = s /\ body[row.by].value = row.status
    BY DEF SubmissionsInStep
  <2>1. pc'[s] \in {"idle", "selectAgent", "insertKyc"} => agent_kyc[s] = None
    BY <1>2 DEF SubmissionsInStep, Requests
  <2>2. agent_kyc[s] # None /\ agent_kyc[s].by # None => agent_kyc[s].by \in Requests
    BY DEF TypeOK, KycRow, Requests
  <2>3. QED
    BY <1>2, <2>1, <2>2 DEF SubmissionsInStep
<1>4. DecisionsHeld' /\ ActorsWereAdmins'
  BY <1>2 DEF DecisionsHeld, ActorsWereAdmins, Requests
<1>5. LogInStep'
  <2>1. \A e \in audit_logs : e.request \in Requests
    BY DEF TypeOK, LogEntry
  <2>2. \A e \in audit_logs : pc'[e.request] = "done"
    BY <1>2, <2>1 DEF LogInStep
  <2>3. QED
    BY <1>2, <2>2 DEF LogInStep
<1>6. AuditLogAgrees'
  BY <1>2 DEF AuditLogAgrees, SuccessIsLogged, LogIsTruthful, Logged, Reviews, Requests
<1>7. ApprovedForAReason'
  BY DEF ApprovedForAReason
<1>8. QED
  BY <1>1, <1>3, <1>4, <1>5, <1>6, <1>7

-----------------------------------------------------------------------------
(* Calls that write a table.                                                *)

\* What the program counters say of submissions, decisions and the log does not
\* depend on agents and roles: a request under way that writes one of these only, and
\* goes on to its log entry or ends, leaves it as it is.
LEMMA OtherTablesStep ==
  ASSUME AgentInv, NEW r \in Requests,
         pc[r] \in {"insertAgent", "markReview", "setStatus", "changeRole", "reflect"},
         UNCHANGED <<agent_kyc, audit_logs, body>>,
         committed \subseteq committed', committed' \subseteq committed \cup {r},
         \A q \in Requests : q # r => pc'[q] = pc[q] /\ reply'[q] = reply[q],
         pc'[r] \in {"audit", "done"},
         pc'[r] = "audit" => r \in Reviews \ KycReqs /\ r \in committed',
         reply'[r] = "ok" => pc'[r] = "done" /\ (r \notin Reviews \/ pc[r] = "reflect")
  PROVE  SubmissionsInStep' /\ DecisionsHeld' /\ LogInStep' /\ AuditLogAgrees'
<1> USE DEF AgentInv
<1>1. SubmissionsInStep'
  <2> SUFFICES ASSUME NEW s \in SubmitReqs
               PROVE  /\ pc'[s] \in {"idle", "selectAgent", "insertKyc"} => agent_kyc[s] = None
                      /\ agent_kyc[s] # None =>
                           LET row == agent_kyc[s] IN
                           /\ row.by = None <=> row.status = "submitted"
                           /\ row.by # None =>
                                /\ pc'[row.by] \in {"audit", "reflect", "done"}
                                /\ body[row.by].on = s /\ body[row.by].value = row.status
    BY DEF SubmissionsInStep
  <2>1. pc'[s] \in {"idle", "selectAgent", "insertKyc"} => agent_kyc[s] = None
    BY DEF SubmissionsInStep, Requests
  <2>2. agent_kyc[s] # None /\ agent_kyc[s].by # None => agent_kyc[s].by \in Requests
    BY DEF TypeOK, KycRow, Requests
  <2>3. QED
    BY <2>1, <2>2 DEF SubmissionsInStep
<1>2. DecisionsHeld'
  BY DEF DecisionsHeld, Requests
<1>3. \A e \in audit_logs : e.request \in Requests
  BY DEF TypeOK, LogEntry
<1>4. LogInStep'
  <2>1. \A e \in audit_logs : pc'[e.request] \in {"reflect", "done"}
    <3> SUFFICES ASSUME NEW e \in audit_logs PROVE pc'[e.request] \in {"reflect", "done"}
      OBVIOUS
    <3>1. e.request \in Requests /\ pc[e.request] \in {"reflect", "done"}
      BY <1>3 DEF LogInStep
    <3>2. e.request = r => pc[r] = "reflect" /\ r \in KycReqs
      BY <3>1 DEF RequestsFit
    <3>3. QED
      BY <3>1, <3>2
  <2>2. \A q \in Requests : /\ pc'[q] \in {"audit", "reflect"} => q \in committed'
                            /\ pc'[q] = "reflect" => Logged(q)'
                            /\ q \in committed' => pc'[q] # "idle"
                            /\ reply'[q] = "ok" => pc'[q] = "done"
    <3>1. \A q \in Requests : q # r => (Logged(q)' <=> Logged(q)) /\ (q \in committed' <=> q \in committed)
      BY DEF Logged
    <3>2. QED
      BY <3>1 DEF LogInStep
  <2>3. QED
    BY <2>1, <2>2 DEF LogInStep
<1>5. SuccessIsLogged'
  <2> SUFFICES ASSUME NEW q \in Reviews, reply'[q] = "ok" PROVE Logged(q)
    BY DEF SuccessIsLogged, Logged
  <2>1. q \in Requests
    BY DEF Reviews, Requests
  <2>2. CASE q # r
    BY <2>1, <2>2 DEF AuditLogAgrees, SuccessIsLogged
  <2>3. CASE q = r
    BY <2>3, <2>1 DEF AuditLogAgrees, SuccessIsLogged, LogInStep
  <2>4. QED
    BY <2>2, <2>3
<1>6. LogIsTruthful'
  BY DEF AuditLogAgrees, LogIsTruthful
<1>7. QED
  BY <1>1, <1>2, <1>4, <1>5, <1>6 DEF AuditLogAgrees

\* An application inserts a pending agent, or finds one.
LEMMA InsertAgentStep ==
  ASSUME AgentInv, NEW r \in Requests, InsertAgent(r), RequestsFit'
  PROVE  AgentInv'
<1> USE DEF AgentInv
<1> DEFINE p == body[r].actor
<1>1. CASE agents[p] # None
  <2>1. pc[r] = "insertAgent" /\ UNCHANGED <<tables, body, committed>> /\ faults' \in Nat
        /\ Answer(r, "conflict")
    BY <1>1 DEF InsertAgent, tables, TypeOK
  <2> HIDE DEF AgentInv
  <2>2. QED
    BY <2>1, EndStep
<1>2. CASE agents[p] = None
  <2>1. /\ pc[r] = "insertAgent" /\ agents' = [agents EXCEPT ![p] = "pending"]
        /\ committed' = committed \cup {r}
        /\ UNCHANGED <<role, agent_kyc, audit_logs, body>>
        /\ Then(r, Answer(r, "ok"))
    BY <1>2 DEF InsertAgent
  <2>2. Advance(r, {}, {"ok", "internal_error"}) /\ faults' \in Nat
    BY <2>1, ThenAnswers
  <2>3. r \in ApplyReqs /\ r \notin Reviews
    BY <2>1, RequestAssumption DEF RequestsFit, Reviews
  <2>4. SubmissionsInStep' /\ DecisionsHeld' /\ LogInStep' /\ AuditLogAgrees'
    <3>1. pc'[r] = "done" /\ \A q \in Requests : q # r => pc'[q] = pc[q] /\ reply'[q] = reply[q]
      BY <2>2 DEF Advance
    <3> HIDE DEF AgentInv
    <3>2. QED
      BY <2>1, <2>3, <3>1, OtherTablesStep
  <2>5. TypeOK'
    BY <2>1, <2>2 DEF TypeOK, Advance
  <2>6. ApprovedForAReason'
    BY <2>1 DEF ApprovedForAReason, TypeOK
  <2>7. ActorsWereAdmins'
    BY <2>1, <2>2, <2>3 DEF ActorsWereAdmins, Overtaken, Advance, Requests, Reviews
  <2>8. QED
    BY <2>4, <2>5, <2>6, <2>7
<1>3. QED
  BY <1>1, <1>2

\* Marking the agent as under review approves nobody.
LEMMA MarkReviewStep ==
  ASSUME AgentInv, NEW r \in Requests, MarkReview(r), RequestsFit'
  PROVE  AgentInv'
<1> USE DEF AgentInv
<1> DEFINE p == body[r].actor
<1>1. /\ pc[r] = "markReview" /\ agents' = [agents EXCEPT ![p] = InReview(agents[p])]
      /\ UNCHANGED <<role, agent_kyc, audit_logs, body, committed>>
      /\ Then(r, Answer(r, "ok"))
  BY DEF MarkReview
<1>2. Advance(r, {}, {"ok", "internal_error"}) /\ faults' \in Nat
  BY <1>1, ThenAnswers
<1>3. r \in SubmitReqs /\ r \notin Reviews
  BY <1>1, RequestAssumption DEF RequestsFit, Reviews
<1>4. SubmissionsInStep' /\ DecisionsHeld' /\ LogInStep' /\ AuditLogAgrees'
  BY <1>1, <1>2, <1>3, OtherTablesStep DEF Advance
<1>5. p \in Profiles
  BY <1>1, BodyType
<1>6. TypeOK'
  BY <1>1, <1>2, <1>5 DEF TypeOK, Advance, InReview
<1>7. ApprovedForAReason'
  BY <1>1, <1>5 DEF ApprovedForAReason, TypeOK, InReview
<1>8. ActorsWereAdmins'
  BY <1>1, <1>2, <1>3 DEF ActorsWereAdmins, Overtaken, Advance, Requests, Reviews
<1>9. QED
  BY <1>4, <1>6, <1>7, <1>8

\* The status a decision leaves the agent with is the one its submission carries.
LEMMA ReflectStep ==
  ASSUME AgentInv, NEW r \in Requests, Reflect(r), RequestsFit'
  PROVE  AgentInv'
<1> USE DEF AgentInv
<1> DEFINE s == body[r].on
           p == agent_kyc[s].agent
<1>1. /\ pc[r] = "reflect" /\ agents' = [agents EXCEPT ![p] = body[r].value]
      /\ UNCHANGED <<role, agent_kyc, audit_logs, body, committed>>
      /\ Then(r, Answer(r, "ok"))
  BY DEF Reflect
<1>2. Advance(r, {}, {"ok", "internal_error"}) /\ faults' \in Nat
  BY <1>1, ThenAnswers
<1>3. r \in KycReqs /\ r \notin RoleReqs
  BY <1>1, RequestAssumption DEF RequestsFit
<1>4. SubmissionsInStep' /\ DecisionsHeld' /\ LogInStep' /\ AuditLogAgrees'
  BY <1>1, <1>2, OtherTablesStep DEF Advance
<1>5. s \in SubmitReqs /\ body[r].value \in KycDecisions
  BY <1>1, <1>3, BodyType
<1>6. agent_kyc[s] # None /\ agent_kyc[s].by = r /\ agent_kyc[s].status = body[r].value
  BY <1>1, <1>3, <1>5 DEF DecisionsHeld, SubmissionsInStep, Requests
<1>7. TypeOK'
  BY <1>1, <1>2, <1>5 DEF TypeOK, Advance
<1>8. ApprovedForAReason'
  BY <1>1, <1>5, <1>6 DEF ApprovedForAReason, TypeOK
<1>9. ActorsWereAdmins'
  BY <1>1, <1>2, <1>3 DEF ActorsWereAdmins, Overtaken, Advance, Requests
<1>10. QED
  BY <1>4, <1>7, <1>8, <1>9

\* An administrator's decision is committed before its log entry; an approval names it
\* as its reason.
LEMMA SetStatusStep ==
  ASSUME AgentInv, NEW r \in Requests, SetStatus(r), RequestsFit'
  PROVE  AgentInv'
<1> USE DEF AgentInv
<1> DEFINE p == body[r].on
<1>1. CASE agents[p] = None
  <2>1. pc[r] = "setStatus" /\ UNCHANGED <<tables, body, committed>> /\ faults' \in Nat
        /\ Answer(r, "internal_error")
    BY <1>1 DEF SetStatus, tables, TypeOK
  <2> HIDE DEF AgentInv
  <2>2. QED
    BY <2>1, EndStep
<1>2. CASE agents[p] # None
  <2>1. /\ pc[r] = "setStatus" /\ agents' = [agents EXCEPT ![p] = body[r].value]
        /\ committed' = committed \cup {r}
        /\ UNCHANGED <<role, agent_kyc, audit_logs, body>>
        /\ Then(r, Goto(r, "audit"))
    BY <1>2 DEF SetStatus
  <2>2. Advance(r, {"audit"}, {"internal_error"}) /\ faults' \in Nat
    BY <2>1, ThenGoesOn
  <2>3. r \in StatusReqs /\ r \notin KycReqs /\ r \notin RoleReqs /\ r \in Reviews
    BY <2>1, RequestAssumption DEF RequestsFit, Reviews
  <2>4. SubmissionsInStep' /\ DecisionsHeld' /\ LogInStep' /\ AuditLogAgrees'
    <3>1. pc'[r] \in {"audit", "done"} /\ reply'[r] # "ok" /\ r \in committed'
      BY <2>1, <2>2 DEF Advance, LogInStep
    <3>2. \A q \in Requests : q # r => pc'[q] = pc[q] /\ reply'[q] = reply[q]
      BY <2>2 DEF Advance
    <3> HIDE DEF AgentInv
    <3>3. QED
      BY <2>1, <2>3, <3>1, <3>2, OtherTablesStep
  <2>5. p \in Profiles /\ body[r].value \in Decided
    BY <2>1, <2>3, BodyType
  <2>6. TypeOK'
    BY <2>1, <2>2, <2>5 DEF TypeOK, Advance
  <2>7. ApprovedForAReason'
    BY <2>1, <2>3, <2>5 DEF ApprovedForAReason, TypeOK
  <2>8. ActorsWereAdmins'
    BY <2>1, <2>2, <2>3 DEF ActorsWereAdmins, Overtaken, Advance, Requests
  <2>9. QED
    BY <2>4, <2>6, <2>7, <2>8
<1>3. QED
  BY <1>1, <1>2

\* A role change keeps the invariant: whoever it demotes counts as overtaken in the
\* changes he has under way.
LEMMA ChangeRoleStep ==
  ASSUME AgentInv, NEW r \in Requests, ChangeRole(r), RequestsFit'
  PROVE  AgentInv'
<1> USE DEF AgentInv
<1> DEFINE p == body[r].on
<1>1. CASE role[p] = None
  <2>1. pc[r] = "changeRole" /\ UNCHANGED <<tables, body, committed>> /\ faults' \in Nat
        /\ Answer(r, "not_found")
    BY <1>1 DEF ChangeRole, tables, TypeOK
  <2> HIDE DEF AgentInv
  <2>2. QED
    BY <2>1, EndStep
<1>2. CASE role[p] # None
  <2>1. /\ pc[r] = "changeRole" /\ role' = [role EXCEPT ![p] = body[r].value]
        /\ committed' = committed \cup {r}
        /\ UNCHANGED <<agents, agent_kyc, audit_logs, body>>
        /\ Then(r, Goto(r, "audit"))
    BY <1>2 DEF ChangeRole
  <2>2. Advance(r, {"audit"}, {"internal_error"}) /\ faults' \in Nat
    BY <2>1, ThenGoesOn
  <2>3. r \in RoleReqs /\ r \notin KycReqs /\ r \notin StatusReqs /\ r \in Reviews
    BY <2>1, RequestAssumption DEF RequestsFit, Reviews
  <2>4. SubmissionsInStep' /\ DecisionsHeld' /\ LogInStep' /\ AuditLogAgrees'
    <3>1. pc'[r] \in {"audit", "done"} /\ reply'[r] # "ok" /\ r \in committed'
      BY <2>1, <2>2 DEF Advance, LogInStep
    <3>2. \A q \in Requests : q # r => pc'[q] = pc[q] /\ reply'[q] = reply[q]
      BY <2>2 DEF Advance
    <3> HIDE DEF AgentInv
    <3>3. QED
      BY <2>1, <2>3, <3>1, <3>2, OtherTablesStep
  <2>5. p \in Profiles /\ body[r].value \in Roles /\ body[r].actor \in Profiles
    BY <2>1, <2>3, BodyType
  <2>6. TypeOK'
    BY <2>1, <2>2, <2>5 DEF TypeOK, Advance
  <2>7. ApprovedForAReason'
    BY <2>1, <2>3 DEF ApprovedForAReason
  <2>8. role' = [role EXCEPT ![p] = body[r].value] /\ \A q \in Profiles : q # p => role'[q] = role[q]
    BY <2>1 DEF TypeOK
  <2>9. ActorsWereAdmins'
    <3>1. \A q \in Requests : body'[q] # None => body'[q].seen \subseteq committed'
      BY <2>1 DEF ActorsWereAdmins
    <3>2. ASSUME NEW q \in RoleReqs, pc'[q] = "changeRole"
          PROVE  /\ q \notin committed' /\ body'[q].on # body'[q].actor
                 /\ role'[body'[q].actor] = "admin" \/ Overtaken(q)'
      <4>1. q # r /\ pc[q] = "changeRole" /\ q \in Requests
        BY <2>2, <3>2 DEF Advance, Requests
      <4>2. /\ body[q].actor \in Profiles /\ body[q] # None /\ body'[q] = body[q]
            /\ q \notin committed' /\ body[q].on # body[q].actor
        BY <2>1, <4>1, BodyType DEF ActorsWereAdmins
      <4>3. CASE Overtaken(q)
        BY <2>1, <4>2, <4>3 DEF Overtaken
      <4>4. CASE role[body[q].actor] = "admin" /\ body[q].actor = p /\ body[r].value # "admin"
        <5>1. r \in RoleReqs \cap committed' /\ r \notin body[q].seen
          BY <2>1, <2>3, <4>1, <4>2 DEF ActorsWereAdmins
        <5>2. body'[r].on = body'[q].actor /\ body'[r].value # "admin"
          BY <2>1, <4>2, <4>4
        <5>3. QED
          BY <4>2, <5>1, <5>2 DEF Overtaken
      <4>5. CASE /\ role[body[q].actor] = "admin"
                 /\ body[q].actor # p \/ body[r].value = "admin"
        BY <2>1, <2>8, <4>2, <4>5 DEF TypeOK
      <4>6. QED
        BY <4>1, <4>2, <4>3, <4>4, <4>5 DEF ActorsWereAdmins
    <3>3. QED
      BY <3>1, <3>2 DEF ActorsWereAdmins
  <2>10. QED
    BY <2>4, <2>6, <2>7, <2>9
<1>3. QED
  BY <1>1, <1>2

\* A submission is filed under its own request, which has filed nothing before.
LEMMA InsertKycStep ==
  ASSUME AgentInv, NEW r \in Requests, InsertKyc(r), RequestsFit'
  PROVE  AgentInv'
<1> USE DEF AgentInv
<1> DEFINE row == [agent |-> body[r].actor, status |-> "submitted", by |-> None]
<1>1. /\ pc[r] = "insertKyc" /\ agent_kyc' = [agent_kyc EXCEPT ![r] = row]
      /\ committed' = committed \cup {r}
      /\ UNCHANGED <<role, agents, audit_logs, body>>
      /\ Then(r, Goto(r, "markReview"))
  BY DEF InsertKyc
<1>2. Advance(r, {"markReview"}, {"internal_error"}) /\ faults' \in Nat
  BY <1>1, ThenGoesOn
<1>3. pc'[r] \in {"markReview", "done"} /\ reply'[r] # "ok"
      /\ \A q \in Requests : q # r => pc'[q] = pc[q] /\ reply'[q] = reply[q]
  BY <1>1, <1>2 DEF Advance, LogInStep
<1>4. r \in SubmitReqs /\ r \notin KycReqs /\ r \notin StatusReqs /\ r \notin RoleReqs
      /\ r \notin Reviews
  BY <1>1, RequestAssumption DEF RequestsFit, Reviews
<1>5. agent_kyc[r] = None
  BY <1>1, <1>4 DEF SubmissionsInStep
<1>6. row \in KycRow /\ row # None /\ row.by = None
  BY <1>1, BodyType DEF KycRow
<1>7. agent_kyc'[r] = row /\ \A s \in SubmitReqs : s # r => agent_kyc'[s] = agent_kyc[s]
  BY <1>1, <1>4 DEF TypeOK
<1>8. TypeOK'
  BY <1>1, <1>2, <1>6 DEF TypeOK, Advance
<1>9. SubmissionsInStep'
  <2> SUFFICES ASSUME NEW s \in SubmitReqs
               PROVE  /\ pc'[s] \in {"idle", "selectAgent", "insertKyc"} => agent_kyc'[s] = None
                      /\ agent_kyc'[s] # None =>
                           LET kyc == agent_kyc'[s] IN
                           /\ kyc.by = None <=> kyc.status = "submitted"
                           /\ kyc.by # None =>
                                /\ pc'[kyc.by] \in {"audit", "reflect", "done"}
                                /\ body[kyc.by].on = s /\ body[kyc.by].value = kyc.status
    BY <1>1 DEF SubmissionsInStep
  <2>1. CASE s = r
    BY <1>3, <1>6, <1>7, <2>1
  <2>2. CASE s # r
    <3>1. agent_kyc[s] # None /\ agent_kyc[s].by # None => agent_kyc[s].by \in KycReqs
      BY DEF TypeOK, KycRow
    <3>2. agent_kyc[s] # None /\ agent_kyc[s].by # None =>
            pc'[agent_kyc[s].by] = pc[agent_kyc[s].by]
      BY <1>3, <1>4, <3>1 DEF Requests
    <3>3. pc'[s] = pc[s]
      BY <1>3, <2>2 DEF Requests
    <3>4. QED
      BY <1>7, <2>2, <3>2, <3>3 DEF SubmissionsInStep
  <2>3. QED
    BY <2>1, <2>2
<1>10. DecisionsHeld'
  <2> SUFFICES ASSUME NEW q \in KycReqs, pc'[q] \in {"audit", "reflect"}
               PROVE  agent_kyc'[body[q].on] # None /\ agent_kyc'[body[q].on].by = q
    BY <1>1 DEF DecisionsHeld
  <2>1. q \in Requests /\ q # r /\ pc[q] \in {"audit", "reflect"}
    BY <1>3, <1>4 DEF Requests
  <2>2. body[q].on \in SubmitReqs
    BY <2>1, BodyType
  <2>3. QED
    BY <1>5, <1>7, <2>1, <2>2 DEF DecisionsHeld
<1>11. LogInStep'
  BY <1>1, <1>3, <1>4 DEF LogInStep, Logged, RequestsFit, TypeOK, LogEntry
<1>12. SuccessIsLogged'
  BY <1>1, <1>3, <1>4 DEF AuditLogAgrees, SuccessIsLogged, Logged, Reviews, Requests
<1>13. LogIsTruthful'
  <2> SUFFICES ASSUME NEW e \in audit_logs
               PROVE  /\ e.request \in committed'
                      /\ e.request \in KycReqs =>
                           /\ agent_kyc'[e.body.on] # None
                           /\ agent_kyc'[e.body.on].by = e.request
                           /\ agent_kyc'[e.body.on].status = e.body.value
    BY <1>1 DEF LogIsTruthful
  <2>1. e.request \in Requests /\ pc[e.request] # "idle" /\ e.body = body[e.request]
    BY DEF TypeOK, LogEntry, LogInStep
  <2>2. e.request \in KycReqs => e.body.on \in SubmitReqs
    BY <2>1, BodyType
  <2>3. QED
    BY <1>1, <1>5, <1>7, <2>2 DEF AuditLogAgrees, LogIsTruthful
<1>14. ApprovedForAReason'
  BY <1>1, <1>4, <1>5, <1>7 DEF ApprovedForAReason
<1>15. ActorsWereAdmins'
  BY <1>1, <1>3, <1>4 DEF ActorsWereAdmins, Overtaken, Requests
<1>16. QED
  BY <1>8, <1>9, <1>10, <1>11, <1>12, <1>13, <1>14, <1>15 DEF AuditLogAgrees

\* An open submission is decided by the one request that finds it open; every decision
\* held or logged before is about another one.
LEMMA DecideKycStep ==
  ASSUME AgentInv, NEW r \in Requests, DecideKyc(r), RequestsFit'
  PROVE  AgentInv'
<1> USE DEF AgentInv
<1> DEFINE s == body[r].on
           row == [agent |-> agent_kyc[s].agent, status |-> body[r].value, by |-> r]
<1>1. CASE ~Open(agent_kyc[s])
  <2>1. pc[r] = "decideKyc" /\ UNCHANGED <<tables, body, committed>> /\ faults' \in Nat
        /\ Answer(r, "conflict")
    BY <1>1 DEF DecideKyc, tables, TypeOK
  <2> HIDE DEF AgentInv
  <2>2. QED
    BY <2>1, EndStep
<1>2. CASE Open(agent_kyc[s])
  <2>1. /\ pc[r] = "decideKyc" /\ agent_kyc' = [agent_kyc EXCEPT ![s] = row]
        /\ committed' = committed \cup {r}
        /\ UNCHANGED <<role, agents, audit_logs, body>>
        /\ Then(r, Goto(r, "audit"))
    BY <1>2 DEF DecideKyc
  <2>2. Advance(r, {"audit"}, {"internal_error"}) /\ faults' \in Nat
    BY <2>1, ThenGoesOn
  <2>3. pc'[r] \in {"audit", "done"} /\ reply'[r] # "ok"
        /\ \A q \in Requests : q # r => pc'[q] = pc[q] /\ reply'[q] = reply[q]
    BY <2>1, <2>2 DEF Advance, LogInStep
  <2>4. r \in KycReqs /\ r \notin SubmitReqs /\ r \notin StatusReqs /\ r \notin RoleReqs
    BY <2>1, RequestAssumption DEF RequestsFit
  <2>5. s \in SubmitReqs /\ body[r].value \in KycDecisions
    BY <2>1, <2>4, BodyType
  <2>6. agent_kyc[s] # None /\ agent_kyc[s].status = "submitted" /\ agent_kyc[s].by = None
    BY <1>2, <2>5 DEF Open, SubmissionsInStep
  <2>7. row \in KycRow /\ row # None
    BY <2>4, <2>5, <2>6 DEF TypeOK, KycRow
  <2>8. agent_kyc'[s] = row /\ \A t \in SubmitReqs : t # s => agent_kyc'[t] = agent_kyc[t]
    BY <2>1, <2>5 DEF TypeOK
  <2>9. TypeOK'
    BY <2>1, <2>2, <2>7 DEF TypeOK, Advance
  <2>10. SubmissionsInStep'
    <3> SUFFICES ASSUME NEW t \in SubmitReqs
                 PROVE  /\ pc'[t] \in {"idle", "selectAgent", "insertKyc"} => agent_kyc'[t] = None
                        /\ agent_kyc'[t] # None =>
                             LET kyc == agent_kyc'[t] IN
                             /\ kyc.by = None <=> kyc.status = "submitted"
                             /\ kyc.by # None =>
                                  /\ pc'[kyc.by] \in {"audit", "reflect", "done"}
                                  /\ body[kyc.by].on = t /\ body[kyc.by].value = kyc.status
      BY <2>1 DEF SubmissionsInStep
    <3>1. pc'[t] = pc[t]
      BY <2>3, <2>4 DEF Requests
    <3>2. CASE t = s
      <4>1. row.by = r /\ row.status = body[r].value /\ r # None
        BY DEF Requests
      <4>2. pc[t] \notin {"idle", "selectAgent", "insertKyc"}
        BY <2>5, <2>6, <3>2 DEF SubmissionsInStep
      <4>3. QED
        BY <2>3, <2>5, <2>8, <3>1, <3>2, <4>1, <4>2
    <3>3. CASE t # s
      <4>1. agent_kyc[t] # None /\ agent_kyc[t].by # None =>
              agent_kyc[t].by \in Requests /\ pc[agent_kyc[t].by] \in {"audit", "reflect", "done"}
        BY DEF TypeOK, KycRow, SubmissionsInStep, Requests
      <4>2. agent_kyc[t] # None /\ agent_kyc[t].by # None =>
              pc'[agent_kyc[t].by] = pc[agent_kyc[t].by]
        BY <2>1, <2>3, <4>1
      <4>3. QED
        BY <2>8, <3>1, <3>3, <4>2 DEF SubmissionsInStep
    <3>4. QED
      BY <3>2, <3>3
  <2>11. DecisionsHeld'
    <3> SUFFICES ASSUME NEW q \in KycReqs, pc'[q] \in {"audit", "reflect"}
                 PROVE  agent_kyc'[body[q].on] # None /\ agent_kyc'[body[q].on].by = q
      BY <2>1 DEF DecisionsHeld
    <3>1. CASE q = r
      BY <2>7, <2>8, <3>1
    <3>2. CASE q # r
      <4>1. q \in Requests /\ pc[q] \in {"audit", "reflect"} /\ q # None
        BY <2>3, <3>2 DEF Requests
      <4>2. body[q].on \in SubmitReqs
        BY <4>1, BodyType
      <4>3. QED
        BY <2>6, <2>8, <4>1, <4>2 DEF DecisionsHeld
    <3>3. QED
      BY <3>1, <3>2
  <2>12. LogInStep'
    BY <2>1, <2>3 DEF LogInStep, Logged, TypeOK, LogEntry
  <2>13. SuccessIsLogged'
    BY <2>1, <2>3 DEF AuditLogAgrees, SuccessIsLogged, Logged, Reviews, Requests
  <2>14. LogIsTruthful'
    <3> SUFFICES ASSUME NEW e \in audit_logs
                 PROVE  /\ e.request \in committed'
                        /\ e.request \in KycReqs =>
                             /\ agent_kyc'[e.body.on] # None
                             /\ agent_kyc'[e.body.on].by = e.request
                             /\ agent_kyc'[e.body.on].status = e.body.value
      BY <2>1 DEF LogIsTruthful
    <3>1. e.request \in Requests /\ pc[e.request] # "idle" /\ e.body = body[e.request]
          /\ e.request # None
      BY DEF TypeOK, LogEntry, LogInStep
    <3>2. e.request \in KycReqs => e.body.on \in SubmitReqs
      BY <3>1, BodyType
    <3>3. QED
      BY <2>1, <2>6, <2>8, <3>1, <3>2 DEF AuditLogAgrees, LogIsTruthful
  <2>15. ApprovedForAReason'
    <3> SUFFICES ASSUME NEW p \in Profiles, agents[p] = "approved"
                 PROVE  \/ \E t \in SubmitReqs : /\ agent_kyc'[t] # None /\ agent_kyc'[t].agent = p
                                                 /\ agent_kyc'[t].status = "approved"
                        \/ \E q \in StatusReqs \cap committed' :
                             body[q].on = p /\ body[q].value = "approved"
      BY <2>1 DEF ApprovedForAReason
    <3>1. ASSUME NEW t \in SubmitReqs, agent_kyc[t] # None, agent_kyc[t].agent = p,
                 agent_kyc[t].status = "approved"
          PROVE  agent_kyc'[t] = agent_kyc[t]
      BY <2>6, <2>8, <3>1
    <3>2. QED
      BY <2>1, <3>1 DEF ApprovedForAReason
  <2>16. ActorsWereAdmins'
    BY <2>1, <2>3, <2>4 DEF ActorsWereAdmins, Overtaken, Requests
  <2>17. QED
    BY <2>9, <2>10, <2>11, <2>12, <2>13, <2>14, <2>15, <2>16 DEF AuditLogAgrees
<1>3. QED
  BY <1>1, <1>2

\* What is written to the log is the change its request has committed.
LEMMA AuditStep ==
  ASSUME AgentInv, NEW r \in Requests, Audit(r), RequestsFit'
  PROVE  AgentInv'
<1> USE DEF AgentInv
<1> DEFINE entry == [request |-> r, body |-> body[r]]
<1>1. /\ pc[r] = "audit" /\ audit_logs' = audit_logs \cup {entry}
      /\ UNCHANGED <<role, agents, agent_kyc, body, committed>>
      /\ Then(r, AfterAudit(r))
  BY DEF Audit
<1>2. r \in Reviews /\ r \notin SubmitReqs /\ r \in committed
  BY <1>1, RequestAssumption DEF RequestsFit, Reviews, LogInStep
<1>3. /\ pc' \in [Requests -> Calls \cup {"idle", "done"}] /\ reply' \in [Requests -> Reply]
      /\ \A q \in Requests : q # r => pc'[q] = pc[q] /\ reply'[q] = reply[q]
      /\ pc'[r] \in {"done", "reflect"} /\ (pc'[r] = "reflect" => r \in KycReqs)
      /\ pc'[r] = "reflect" => reply'[r] # "ok"
      /\ faults' \in Nat
  <2>1. CASE r \in KycReqs
    <3>1. Then(r, Goto(r, "reflect"))
      BY <1>1, <2>1 DEF AfterAudit, Then
    <3>2. QED
      BY <1>1, <2>1, <3>1, ThenGoesOn DEF Advance, LogInStep
  <2>2. CASE r \notin KycReqs
    <3>1. Then(r, Answer(r, "ok"))
      BY <1>1, <2>2 DEF AfterAudit, Then
    <3>2. QED
      BY <3>1, ThenAnswers DEF Advance
  <2>3. QED
    BY <2>1, <2>2
<1>4. entry \in LogEntry
  BY <1>1, BodyType DEF LogEntry
<1>5. TypeOK'
  BY <1>1, <1>3, <1>4 DEF TypeOK
<1>6. SubmissionsInStep'
  <2> SUFFICES ASSUME NEW s \in SubmitReqs
               PROVE  /\ pc'[s] \in {"idle", "selectAgent", "insertKyc"} => agent_kyc[s] = None
                      /\ agent_kyc[s] # None =>
                           LET kyc == agent_kyc[s] IN
                           /\ kyc.by = None <=> kyc.status = "submitted"
                           /\ kyc.by # None =>
                                /\ pc'[kyc.by] \in {"audit", "reflect", "done"}
                                /\ body[kyc.by].on = s /\ body[kyc.by].value = kyc.status
    BY <1>1 DEF SubmissionsInStep
  <2>1. pc'[s] = pc[s]
    BY <1>2, <1>3 DEF Requests
  <2>2. agent_kyc[s] # None /\ agent_kyc[s].by # None => agent_kyc[s].by \in Requests
    BY DEF TypeOK, KycRow, Requests
  <2>3. QED
    BY <1>3, <2>1, <2>2 DEF SubmissionsInStep
<1>7. DecisionsHeld'
  BY <1>1, <1>3 DEF DecisionsHeld, Requests
<1>8. \A q \in Requests : Logged(q) => Logged(q)'
  BY <1>1 DEF Logged
<1>9. Logged(r)'
  <2>1. entry \in audit_logs' /\ entry.request = r /\ entry.body = body'[r]
    BY <1>1
  <2>2. QED
    BY <2>1 DEF Logged
<1>10. LogInStep'
  <2>1. \A e \in audit_logs' : /\ pc'[e.request] \in {"reflect", "done"}
                              /\ e.body = body[e.request]
    <3>1. entry.request = r /\ entry.body = body[r]
      OBVIOUS
    <3>2. ASSUME NEW e \in audit_logs
          PROVE  e.request \in Requests /\ pc'[e.request] \in {"reflect", "done"}
                 /\ e.body = body[e.request]
      <4>1. e.request \in Requests /\ pc[e.request] \in {"reflect", "done"}
            /\ e.body = body[e.request]
        BY DEF TypeOK, LogEntry, LogInStep
      <4>2. QED
        BY <1>3, <4>1
    <3>3. QED
      BY <1>1, <1>3, <3>1, <3>2
  <2>2. \A q \in Requests : /\ pc'[q] \in {"audit", "reflect"} => q \in committed
                            /\ pc'[q] = "reflect" => Logged(q)'
                            /\ q \in committed => pc'[q] # "idle"
                            /\ reply'[q] = "ok" => pc'[q] = "done"
    BY <1>2, <1>3, <1>8, <1>9 DEF LogInStep
  <2>3. QED
    BY <1>1, <2>1, <2>2 DEF LogInStep
<1>11. SuccessIsLogged'
  BY <1>3, <1>8, <1>9 DEF AuditLogAgrees, SuccessIsLogged, Reviews, Requests
<1>12. LogIsTruthful'
  <2> SUFFICES ASSUME NEW e \in audit_logs \cup {entry}
               PROVE  /\ e.request \in committed
                      /\ e.request \in KycReqs =>
                           /\ agent_kyc[e.body.on] # None
                           /\ agent_kyc[e.body.on].by = e.request
                           /\ agent_kyc[e.body.on].status = e.body.value
    BY <1>1 DEF LogIsTruthful
  <2>1. CASE e = entry
    <3>1. ASSUME r \in KycReqs
          PROVE  /\ agent_kyc[body[r].on] # None /\ agent_kyc[body[r].on].by = r
                 /\ agent_kyc[body[r].on].status = body[r].value
      <4>1. body[r].on \in SubmitReqs /\ r # None
        BY <1>1, <3>1, BodyType DEF Requests
      <4>2. QED
        BY <1>1, <3>1, <4>1 DEF DecisionsHeld, SubmissionsInStep
    <3>2. QED
      BY <1>2, <2>1, <3>1
  <2>2. CASE e \in audit_logs
    BY <2>2 DEF AuditLogAgrees, LogIsTruthful
  <2>3. QED
    BY <2>1, <2>2
<1>13. ApprovedForAReason'
  BY <1>1 DEF ApprovedForAReason
<1>14. ActorsWereAdmins'
  BY <1>1, <1>3 DEF ActorsWereAdmins, Overtaken, Requests
<1>15. QED
  BY <1>5, <1>6, <1>7, <1>10, <1>11, <1>12, <1>13, <1>14 DEF AuditLogAgrees

-----------------------------------------------------------------------------
(* The invariant and what follows from it.                                  *)

\* Every state the server reaches satisfies the inductive invariant.
THEOREM AgentInvariant == Spec => []AgentInv
<1>1. Init => AgentInv
  <2> SUFFICES ASSUME Init PROVE AgentInv
    OBVIOUS
  <2> USE DEF Init
  <2>1. TypeOK
    BY DEF TypeOK
  <2>2. RequestsFit /\ SubmissionsInStep /\ DecisionsHeld /\ LogInStep /\ ActorsWereAdmins
    BY DEF RequestsFit, SubmissionsInStep, DecisionsHeld, LogInStep, ActorsWereAdmins, Requests
  <2>3. AuditLogAgrees /\ ApprovedForAReason
    BY DEF AuditLogAgrees, SuccessIsLogged, LogIsTruthful, ApprovedForAReason,
           Reviews, Requests
  <2>4. QED
    BY <2>1, <2>2, <2>3 DEF AgentInv
<1>2. AgentInv /\ [Next]_vars => AgentInv'
  <2> SUFFICES ASSUME AgentInv, [Next]_vars PROVE AgentInv'
    OBVIOUS
  <2>1. RequestsFit'
    BY FitStep DEF AgentInv
  <2>2. ASSUME NEW r \in Requests, Call(r) PROVE AgentInv'
    BY <2>1, <2>2, InsertAgentStep, SelectAgentStep, InsertKycStep, MarkReviewStep,
       DecideKycStep, ReflectStep, SetStatusStep, ChangeRoleStep, AuditStep DEF Call
  <2>3. CASE UNCHANGED vars
    BY <2>3 DEF vars, tables, AgentInv, TypeOK, RequestsFit, SubmissionsInStep, DecisionsHeld,
                LogInStep, ActorsWereAdmins, AuditLogAgrees, SuccessIsLogged, LogIsTruthful,
                Logged, ApprovedForAReason, Overtaken
  <2>4. QED
    BY <2>1, <2>2, <2>3, ApplyStep, SubmitStep, ReviewKycStep, ReviewAgentStep, UpdateRoleStep,
       FailsStep, RestartStep DEF Next
<1>3. QED
  BY <1>1, <1>2, PTL DEF Spec

\* Every table and request keeps its type.
THEOREM AgentTypeCorrect == Spec => []TypeOK
BY AgentInvariant, PTL DEF AgentInv

\* The audit log holds every change reported as done, and only changes that were made.
THEOREM LogAgrees == Spec => []AuditLogAgrees
BY AgentInvariant, PTL DEF AgentInv

\* No agent is approved unless a reviewer approved a submission of his, or an
\* administrator the agent.
THEOREM ApprovalsHaveReasons == Spec => []ApprovedForAReason
BY AgentInvariant, PTL DEF AgentInv

\* The last administrator is removed only by a role change whose author was demoted
\* between the check of his role and the update.
THEOREM LastAdminRemains == Spec => AdminsVanishOnlyByRace
<1> DEFINE Raced ==
      (\E p \in Profiles : role[p] = "admin") /\ (\A p \in Profiles : role'[p] # "admin")
        => \E r \in RoleReqs \cap (committed' \ committed) : Overtaken(r)
<1>1. AgentInv /\ [Next]_vars => [Raced]_vars
  <2> SUFFICES ASSUME AgentInv, Next,
                      NEW x \in Profiles, role[x] = "admin",
                      \A p \in Profiles : role'[p] # "admin"
               PROVE  \E r \in RoleReqs \cap (committed' \ committed) : Overtaken(r)
    OBVIOUS
  <2>1. PICK r \in Requests : ChangeRole(r)
    BY DEF Next, Call, Apply, Submit, ReviewKyc, ReviewAgent, UpdateRole, Begin, InsertAgent,
           SelectAgent, InsertKyc, MarkReview, DecideKyc, Reflect, SetStatus, Audit, Fails,
           Restart, tables
  <2>2. /\ pc[r] = "changeRole" /\ role' = [role EXCEPT ![body[r].on] = body[r].value]
        /\ committed' = committed \cup {r}
    BY <2>1 DEF ChangeRole
  <2>3. r \in RoleReqs
    BY <2>2 DEF AgentInv, RequestsFit
  <2>4. body[r].actor \in Profiles
    BY <2>2, BodyType DEF AgentInv
  <2>5. r \notin committed /\ body[r].on # body[r].actor
        /\ (role[body[r].actor] = "admin" \/ Overtaken(r))
    BY <2>2, <2>3 DEF AgentInv, ActorsWereAdmins
  <2>6. role'[body[r].actor] = role[body[r].actor]
    BY <2>2, <2>4, <2>5 DEF AgentInv, TypeOK
  <2>7. QED
    BY <2>2, <2>3, <2>4, <2>5, <2>6
<1>2. QED
  BY <1>1, AgentInvariant, PTL DEF Spec, AdminsVanishOnlyByRace

\* An agent that was decided is never taken back into the queue.
THEOREM DecisionsStand == Spec => DecidedStaysDecided
<1> DEFINE Stands == \A p \in Profiles : agents[p] \in Decided => agents'[p] \in Decided
<1>1. AgentInv /\ [Next]_vars => [Stands]_vars
  <2> SUFFICES ASSUME AgentInv, Next PROVE Stands
    OBVIOUS
  <2>1. CASE UNCHANGED agents
    BY <2>1
  <2>2. ASSUME NEW r \in Requests, InsertAgent(r) PROVE Stands
    BY <2>2 DEF InsertAgent, AgentInv, TypeOK
  <2>3. ASSUME NEW r \in Requests, MarkReview(r) PROVE Stands
    BY <2>3 DEF MarkReview, InReview, AgentInv, TypeOK
  <2>4. ASSUME NEW r \in Requests, Reflect(r) PROVE Stands
    <3>1. body[r].value \in KycDecisions
      BY <2>4, BodyType DEF Reflect, AgentInv, RequestsFit
    <3>2. QED
      BY <2>4, <3>1 DEF Reflect, AgentInv, TypeOK
  <2>5. ASSUME NEW r \in Requests, SetStatus(r) PROVE Stands
    <3>1. body[r].value \in Decided
      BY <2>5, BodyType DEF SetStatus, AgentInv, RequestsFit
    <3>2. QED
      BY <2>5, <3>1 DEF SetStatus, AgentInv, TypeOK
  <2>6. QED
    BY <2>1, <2>2, <2>3, <2>4, <2>5
    DEF Next, Call, Apply, Submit, ReviewKyc, ReviewAgent, UpdateRole, Begin, SelectAgent,
        InsertKyc, DecideKyc, ChangeRole, Audit, Fails, Restart, tables
<1>2. QED
  BY <1>1, AgentInvariant, PTL DEF Spec, DecidedStaysDecided

-----------------------------------------------------------------------------
(* The KYC handlers implement the review queue.                             *)

\* Unless the reply of a KYC request becomes "ok", no review has succeeded.
LEMMA NoSuccess ==
  ASSUME AgentInv, NEW r \in Requests, pc[r] # "done",
         \/ UNCHANGED reply
         \/ \E code \in Reply : /\ reply' = [reply EXCEPT ![r] = code]
                                /\ code = "ok" => r \notin KycReqs
  PROVE  KycSucceeded' = KycSucceeded
<1>1. \A q \in KycReqs : reply'[q] = "ok" <=> reply[q] = "ok"
  BY DEF AgentInv, TypeOK, LogInStep, Requests
<1>2. QED
  BY <1>1 DEF KycSucceeded

\* The steps that decide no submission and log and end no KYC review.
LEMMA UnseenStep ==
  ASSUME AgentInv, NEW r \in Requests,
         \/ Apply(r) \/ Submit(r) \/ ReviewKyc(r) \/ ReviewAgent(r) \/ UpdateRole(r)
         \/ InsertAgent(r) \/ SelectAgent(r) \/ InsertKyc(r) \/ MarkReview(r)
         \/ DecideKyc(r) /\ ~Open(agent_kyc[body[r].on])
         \/ SetStatus(r) \/ ChangeRole(r) \/ (Audit(r) /\ r \notin KycReqs) \/ Fails(r)
  PROVE  UNCHANGED <<KycDecidedBy, KycLogged, KycSucceeded>>
<1> USE DEF AgentInv
<1>1. pc[r] # "done"
  BY DEF Apply, Submit, ReviewKyc, ReviewAgent, UpdateRole, Begin, InsertAgent, SelectAgent,
         InsertKyc, MarkReview, DecideKyc, SetStatus, ChangeRole, Audit, Fails
<1>2. MarkReview(r) \/ InsertAgent(r) => r \notin KycReqs
  BY RequestAssumption DEF MarkReview, InsertAgent, RequestsFit
<1>3. \/ UNCHANGED reply
      \/ \E code \in Reply : /\ reply' = [reply EXCEPT ![r] = code]
                             /\ code = "ok" => r \notin KycReqs
  BY <1>2 DEF Apply, Submit, ReviewKyc, ReviewAgent, UpdateRole, Admitted, InsertAgent,
         SelectAgent, InsertKyc, MarkReview, DecideKyc, SetStatus, ChangeRole, Audit, AfterAudit,
         Fails, Then, Goto, Answer
<1>4. KycSucceeded' = KycSucceeded
  BY <1>1, <1>3, NoSuccess
<1>5. CASE UNCHANGED <<agent_kyc, audit_logs>>
  BY <1>4, <1>5 DEF KycDecidedBy, KycLogged
<1>6. CASE InsertKyc(r)
  <2>1. r \in SubmitReqs /\ agent_kyc[r] = None /\ UNCHANGED audit_logs
    BY <1>6 DEF InsertKyc, RequestsFit, SubmissionsInStep
  <2>2. \A s \in SubmitReqs : KycDecidedBy'[s] = KycDecidedBy[s]
    BY <1>6, <2>1 DEF InsertKyc, KycDecidedBy, TypeOK
  <2>3. QED
    BY <1>4, <2>1, <2>2 DEF KycDecidedBy, KycLogged
<1>7. CASE Audit(r) /\ r \notin KycReqs
  <2>1. KycLogged' = KycLogged /\ UNCHANGED agent_kyc
    BY <1>7 DEF Audit, KycLogged
  <2>2. QED
    BY <1>4, <2>1 DEF KycDecidedBy
<1>8. QED
  BY <1>5, <1>6, <1>7
  DEF Apply, Submit, ReviewKyc, ReviewAgent, UpdateRole, Begin, InsertAgent, SelectAgent,
      MarkReview, DecideKyc, SetStatus, ChangeRole, Fails, tables

\* A review that finds its submission open decides it.
LEMMA DecideIsDecide ==
  ASSUME AgentInv, NEW r \in Requests, DecideKyc(r), Open(agent_kyc[body[r].on])
  PROVE  r \in KycReqs /\ body[r].on \in SubmitReqs /\ KycQueue!Decide(body[r].on, r)
<1> USE DEF AgentInv
<1> DEFINE s == body[r].on
           row == [agent |-> agent_kyc[s].agent, status |-> body[r].value, by |-> r]
<1>1. pc[r] = "decideKyc" /\ agent_kyc' = [agent_kyc EXCEPT ![s] = row] /\ UNCHANGED audit_logs
      /\ Then(r, Goto(r, "audit"))
  BY DEF DecideKyc
<1>2. r \in KycReqs /\ s \in SubmitReqs
  BY <1>1, BodyType DEF RequestsFit
<1>3. agent_kyc[s] # None /\ agent_kyc[s].by = None
  BY <1>2 DEF Open, SubmissionsInStep
<1>4. KycDecidedBy[s] = None
  BY <1>2, <1>3 DEF KycDecidedBy
<1>5. \A t \in SubmitReqs : KycDecidedBy[t] # r
  BY <1>1 DEF KycDecidedBy, SubmissionsInStep
<1>6. row # None
  <2>1. row \in KycRow
    BY <1>1, <1>2, <1>3, BodyType DEF KycRow, TypeOK
  <2>2. QED
    BY <2>1
<1>7. KycDecidedBy' = [KycDecidedBy EXCEPT ![s] = r]
  BY <1>1, <1>2, <1>6 DEF KycDecidedBy, TypeOK
<1>8. KycSucceeded' = KycSucceeded
  BY <1>1, NoSuccess DEF Then, Goto, Answer
<1>9. KycLogged' = KycLogged
  BY <1>1 DEF KycLogged
<1>10. QED
  BY <1>2, <1>4, <1>5, <1>7, <1>8, <1>9 DEF KycQueue!Decide

\* A review enters the log once, after it has decided.
LEMMA AuditIsLog ==
  ASSUME AgentInv, NEW r \in KycReqs, Audit(r)
  PROVE  KycQueue!Log(r)
<1> USE DEF AgentInv
<1> DEFINE entry == [request |-> r, body |-> body[r]]
<1>1. /\ r \in Requests /\ pc[r] = "audit" /\ audit_logs' = audit_logs \cup {entry}
      /\ UNCHANGED agent_kyc /\ Then(r, Goto(r, "reflect"))
  BY DEF Audit, Then, AfterAudit, Requests
<1>2. body[r].on \in SubmitReqs
  BY <1>1, BodyType
<1>3. KycDecidedBy[body[r].on] = r
  BY <1>1, <1>2 DEF DecisionsHeld, KycDecidedBy
<1>4. r \notin KycLogged
  BY <1>1 DEF KycLogged, LogInStep
<1>5. KycLogged' = KycLogged \cup {r}
  <2>1. entry.request = r
    OBVIOUS
  <2>2. QED
    BY <1>1, <2>1 DEF KycLogged
<1>6. KycDecidedBy' = KycDecidedBy
  BY <1>1 DEF KycDecidedBy
<1>7. KycSucceeded' = KycSucceeded
  BY <1>1, NoSuccess DEF Then, Goto, Answer
<1>8. QED
  BY <1>2, <1>3, <1>4, <1>5, <1>6, <1>7 DEF KycQueue!Log

\* The last call of a logged review answers it as successful, or its answer is lost.
LEMMA ReflectIsSucceed ==
  ASSUME AgentInv, NEW r \in Requests, Reflect(r)
  PROVE  \/ r \in KycReqs /\ KycQueue!Succeed(r)
         \/ UNCHANGED <<KycDecidedBy, KycLogged, KycSucceeded>>
<1> USE DEF AgentInv
<1>1. pc[r] = "reflect" /\ r \in KycReqs /\ UNCHANGED <<agent_kyc, audit_logs>>
      /\ Then(r, Answer(r, "ok"))
  BY DEF Reflect, RequestsFit
<1>2. UNCHANGED <<KycDecidedBy, KycLogged>>
  BY <1>1 DEF KycDecidedBy, KycLogged
<1>3. CASE Answer(r, "ok")
  <2>1. KycSucceeded' = KycSucceeded \cup {r}
    BY <1>1, <1>3 DEF Answer, KycSucceeded, TypeOK
  <2>2. r \in KycLogged
    BY <1>1 DEF KycLogged, LogInStep, Logged
  <2>3. QED
    BY <1>1, <1>2, <2>1, <2>2 DEF KycQueue!Succeed
<1>4. CASE Answer(r, "internal_error")
  <2>1. KycSucceeded' = KycSucceeded
    BY <1>1, <1>4, NoSuccess DEF Answer
  <2>2. QED
    BY <1>2, <2>1
<1>5. QED
  BY <1>1, <1>3, <1>4 DEF Then

\* The KYC handlers implement the review queue, for any number of reviewers,
\* submissions and faults.
THEOREM KycRefinesQueue == Spec => ImplementsReviewQueue
<1>1. Init => KycQueue!Init
  BY DEF Init, KycQueue!Init, KycDecidedBy, KycLogged, KycSucceeded, Requests
<1>2. AgentInv /\ [Next]_vars => [KycQueue!Next]_(KycQueue!vars)
  <2> SUFFICES ASSUME AgentInv, [Next]_vars
               PROVE  KycQueue!Next \/ UNCHANGED <<KycDecidedBy, KycLogged, KycSucceeded>>
    BY DEF KycQueue!vars
  <2>1. ASSUME NEW r \in Requests, Call(r) \/ Fails(r)
        PROVE  KycQueue!Next \/ UNCHANGED <<KycDecidedBy, KycLogged, KycSucceeded>>
    <3>1. CASE DecideKyc(r) /\ Open(agent_kyc[body[r].on])
      BY <3>1, DecideIsDecide DEF KycQueue!Next
    <3>2. CASE Audit(r) /\ r \in KycReqs
      BY <3>2, AuditIsLog DEF KycQueue!Next
    <3>3. CASE Reflect(r)
      BY <3>3, ReflectIsSucceed DEF KycQueue!Next
    <3>4. QED
      BY <2>1, <3>1, <3>2, <3>3, UnseenStep DEF Call
  <2>2. CASE Restart
    <3>1. \A q \in KycReqs : reply'[q] = "ok" <=> reply[q] = "ok"
      BY <2>2 DEF Restart, AgentInv, TypeOK, LogInStep, Requests
    <3>2. QED
      BY <2>2, <3>1 DEF Restart, tables, KycDecidedBy, KycLogged, KycSucceeded
  <2>3. CASE UNCHANGED vars
    BY <2>3 DEF vars, tables, KycDecidedBy, KycLogged, KycSucceeded
  <2>4. QED
    BY <2>1, <2>2, <2>3, UnseenStep DEF Next, Requests
<1>3. QED
  BY <1>1, <1>2, AgentInvariant, PTL DEF Spec, ImplementsReviewQueue, KycQueue!Spec
=============================================================================

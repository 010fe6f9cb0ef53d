------------------------ MODULE EvidenceReviewProofs ------------------------
(***************************************************************************)
(* Theorems about EvidenceReview, for every set of profiles, reports,      *)
(* projects and requests, every assignment of roles and every number of    *)
(* faults.                                                                 *)
(***************************************************************************)
EXTENDS EvidenceReview, TLAPS

USE DEF Calls, Reply, Goto, Answer

-----------------------------------------------------------------------------
(* The inductive invariant behind the properties: what each program counter   *)
(* and each row say about each other.                                        *)

\* The schema accepted the body, and past the first call the report is somebody
\* else's.
Screened ==
  \A r \in DecideReqs : pc[r] # "idle" =>
    /\ Accepted(body[r])
    /\ pc[r] = "decide" =>
         /\ evidence[body[r].on] # None
         /\ evidence[body[r].on].submitted_by # body[r].actor

\* A row is pending as long as nobody has decided it; the request that decided it
\* named it, is past its update, and its outcome stands.
RowsDecided ==
  \A e \in Reports : evidence[e] # None =>
    /\ evidence[e].status = "pending" <=> evidence[e].by = None
    /\ evidence[e].by # None =>
         LET r == evidence[e].by
         IN  /\ pc[r] \in {"audit", "done"}
             /\ body[r].on = e
             /\ evidence[e].status = body[r].decision

\* A request that is about to write the log decided its report.
AuditsOwn ==
  \A r \in DecideReqs : pc[r] = "audit" =>
    evidence[body[r].on] # None /\ evidence[body[r].on].by = r

\* The log knows the requests that have written it.
LogComplete ==
  /\ \A entry \in audit_logs :
       /\ pc[entry.request] = "done"
       /\ entry.on = body[entry.request].on
  /\ \A r \in DecideReqs : reply[r] = "ok" => r \in Logged /\ pc[r] = "done"

\* What was verified when a read began is verified now; a read that has not begun
\* has no answers.
BeganStands ==
  /\ \A q \in ReadReqs : \A x \in began[q] : x \in Planted(ProjectOf[x.report])
  /\ \A q \in ReadReqs \ reading : answered[q] = {}

EvidenceInv ==
  /\ TypeOK
  /\ Screened /\ RowsDecided /\ AuditsOwn /\ LogComplete /\ BeganStands
  /\ NeverOwnReport /\ TreesIffVerified /\ LogMatchesReport /\ PublishedFiguresStand

-----------------------------------------------------------------------------
\* The row that a decision leaves behind is a row.
LEMMA OutcomeType ==
  ASSUME TypeOK, NEW r \in DecideReqs, body[r] # None, evidence[body[r].on] # None
  PROVE  /\ Outcome(r) \in Row
         /\ Outcome(r).submitted_by = evidence[body[r].on].submitted_by
         /\ Outcome(r).status = body[r].decision
         /\ Outcome(r).by = r
         /\ Outcome(r).trees = IF body[r].decision = "verified" THEN body[r].trees ELSE None
<1>1. body[r] \in Body /\ body[r].on \in Reports /\ body[r].decision \in Decisions
      /\ body[r].trees \in Trees \cup {None}
  BY DEF TypeOK, Body
<1>2. evidence[body[r].on] \in Row
  BY <1>1 DEF TypeOK
<1>3. QED
  BY <1>1, <1>2 DEF Outcome, Row

\* What Planted lists, report by report.
LEMMA PlantedMember ==
  ASSUME NEW p, NEW x
  PROVE  x \in Planted(p) <=>
           \E e \in Reports :
             /\ ProjectOf[e] = p /\ evidence[e] # None /\ evidence[e].status = "verified"
             /\ x = [report |-> e, trees |-> evidence[e].trees]
BY DEF Planted

\* Verified reports are plantings.
LEMMA PlantedType ==
  ASSUME TypeOK, TreesIffVerified, NEW p \in Projects
  PROVE  Planted(p) \subseteq Planting
BY DEF TypeOK, TreesIffVerified, Planted, Planting, Row

\* Every step of a request, a read or a restart keeps the types.
LEMMA TypeStep == TypeOK /\ TreesIffVerified /\ AuditsOwn /\ [Next]_vars => TypeOK'
<1> SUFFICES ASSUME TypeOK, TreesIffVerified, AuditsOwn, [Next]_vars
             PROVE  TypeOK'
  OBVIOUS
<1> USE NoneAssumption, EvidenceAssumption
<1>1. ASSUME NEW e \in Reports, File(e)
      PROVE  TypeOK'
  BY <1>1 DEF TypeOK, File, Row, readVars
<1>2. ASSUME NEW r \in DecideReqs, Decision(r)
      PROVE  TypeOK'
  <2>1. CASE Review(r)
    <3>1. PICK b \in Body : body' = [body EXCEPT ![r] = b]
      BY <2>1 DEF Review
    <3>2. b # None
      OBVIOUS
    <3>3. QED
      BY <2>1, <3>1, <3>2 DEF TypeOK, Review, readVars
  <2>2. CASE SelectReport(r)
    BY <2>2 DEF TypeOK, SelectReport, readVars
  <2>3. CASE DecideReport(r)
    <3>1. evidence' \in [Reports -> Row \cup {None}]
      BY <2>3, OutcomeType DEF TypeOK, DecideReport, Pending, Body
    <3>2. QED
      BY <2>3, <3>1 DEF TypeOK, DecideReport, Then, readVars
  <2>4. CASE Audit(r)
    <3>1. body[r] \in Body
      BY <2>4 DEF TypeOK, Audit
    <3>2. evidence[body[r].on] # None
      BY <2>4 DEF AuditsOwn, Audit
    <3>3. Entry(r) \in LogEntry
      BY <3>1, <3>2 DEF TypeOK, Entry, LogEntry, Body, Row
    <3>4. QED
      BY <2>4, <3>3 DEF TypeOK, Audit, Then, readVars
  <2>5. CASE Fails(r)
    BY <2>5 DEF TypeOK, Fails, readVars
  <2>6. QED
    BY <1>2, <2>1, <2>2, <2>3, <2>4, <2>5 DEF Decision
<1>3. CASE Restart
  BY <1>3 DEF TypeOK, Restart, readVars
<1>4. ASSUME NEW q \in ReadReqs, ReadStart(q)
      PROVE  TypeOK'
  BY <1>4, PlantedType DEF TypeOK, ReadStart, reviewVars
<1>5. ASSUME NEW q \in ReadReqs, NEW p \in Projects, ReadProject(q, p)
      PROVE  TypeOK'
  BY <1>5, PlantedType DEF TypeOK, ReadProject, reviewVars
<1>6. CASE UNCHANGED vars
  BY <1>6 DEF TypeOK, vars, reviewVars, readVars
<1>7. QED
  BY <1>1, <1>2, <1>3, <1>4, <1>5, <1>6 DEF Next

-----------------------------------------------------------------------------
(* The inductive invariant: the conjuncts about reviews first.              *)

ReviewInv ==
  /\ Screened /\ RowsDecided /\ AuditsOwn /\ LogComplete
  /\ NeverOwnReport /\ TreesIffVerified /\ LogMatchesReport

\* A report that is filed was not there: no row, request or entry is about it.
LEMMA FileStep ==
  ASSUME TypeOK, ReviewInv, NEW e \in Reports, File(e)
  PROVE  ReviewInv'
<1> USE DEF ReviewInv
<1>1. PICK p \in Profiles, n \in Trees \cup {None} :
        evidence' = [evidence EXCEPT ![e] =
          [submitted_by |-> p, status |-> "pending", trees |-> n, by |-> None]]
  BY DEF File
<1>2. /\ evidence[e] = None
      /\ UNCHANGED <<audit_logs, pc, body, reply>>
  BY DEF File
<1>3. evidence'[e] # None
  BY <1>1, NoneAssumption DEF TypeOK, Row
<1>4. \A f \in Reports : f # e => evidence'[f] = evidence[f]
  BY <1>1 DEF TypeOK
<1>5. evidence'[e].status = "pending" /\ evidence'[e].by = None
  BY <1>1 DEF TypeOK
<1>6. \A r \in DecideReqs : pc[r] # "idle" => body[r] \in Body /\ body[r].on \in Reports
  BY DEF TypeOK, Body
<1>7. Screened'
  BY <1>2, <1>4, <1>6 DEF Screened, Accepted
<1>8. RowsDecided'
  BY <1>2, <1>4, <1>5 DEF RowsDecided
<1>9. AuditsOwn'
  BY <1>2, <1>4, <1>6 DEF AuditsOwn
<1>10. LogComplete'
  BY <1>2 DEF LogComplete, Logged
<1>11. NeverOwnReport' /\ TreesIffVerified'
  BY <1>2, <1>4, <1>5 DEF NeverOwnReport, TreesIffVerified
<1>12. LogMatchesReport'
  BY <1>2, <1>4 DEF LogMatchesReport, TypeOK, LogEntry
<1>13. QED
  BY <1>7, <1>8, <1>9, <1>10, <1>11, <1>12

\* A request that moves on without touching a table, and not into its log write,
\* its success or, unscreened, its update.
LEMMA MoveStep ==
  ASSUME TypeOK, ReviewInv, NEW r \in DecideReqs, NEW label \in {"select", "decide", "done"},
         UNCHANGED <<evidence, audit_logs>>,
         pc' = [pc EXCEPT ![r] = label],
         reply' = reply \/ \E c \in Reply \ {"ok"} : reply' = [reply EXCEPT ![r] = c],
         \A q \in DecideReqs : q # r => body'[q] = body[q],
         pc[r] # "idle" => body'[r] = body[r],
         Accepted(body'[r]),
         pc[r] # "done",
         pc[r] = "audit" => label = "done",
         label = "decide" =>
           evidence[body[r].on] # None /\ evidence[body[r].on].submitted_by # body[r].actor,
         label = "decide" => pc[r] = "select"
  PROVE  ReviewInv'
<1> USE DEF ReviewInv
<1>1. Screened'
  BY DEF Screened, TypeOK, Accepted
<1>2. RowsDecided'
  BY DEF RowsDecided, TypeOK, Row
<1>3. AuditsOwn'
  BY DEF AuditsOwn, TypeOK
<1>4. LogComplete'
  BY DEF LogComplete, Logged, TypeOK, LogEntry
<1>5. NeverOwnReport' /\ TreesIffVerified'
  BY DEF NeverOwnReport, TreesIffVerified, RowsDecided, TypeOK, Row
<1>6. LogMatchesReport'
  BY DEF LogMatchesReport
<1>7. QED
  BY <1>1, <1>2, <1>3, <1>4, <1>5, <1>6

\* A restart ends the requests in flight and leaves reports and log as they are.
LEMMA RestartStep ==
  ASSUME TypeOK, ReviewInv, Restart
  PROVE  ReviewInv'
<1> USE DEF ReviewInv, Restart
<1>1. Screened' /\ AuditsOwn' /\ LogMatchesReport'
  BY DEF Screened, AuditsOwn, LogMatchesReport, TypeOK, Accepted
<1>2. RowsDecided'
  BY DEF RowsDecided, TypeOK, Row
<1>3. LogComplete'
  BY DEF LogComplete, Logged, TypeOK, LogEntry
<1>4. NeverOwnReport' /\ TreesIffVerified'
  BY DEF NeverOwnReport, TreesIffVerified
<1>5. QED
  BY <1>1, <1>2, <1>3, <1>4

\* The update: a pending report has no decision, no entry and no other request
\* that is about to log one.
LEMMA DecideStep ==
  ASSUME TypeOK, ReviewInv, NEW r \in DecideReqs, DecideReport(r), Pending(body[r].on)
  PROVE  ReviewInv'
<1> DEFINE e == body[r].on
<1> USE DEF ReviewInv
<1>1. /\ body[r] \in Body /\ e \in Reports
      /\ body[r] # None /\ evidence[e] # None /\ evidence[e] \in Row
      /\ pc[r] = "decide"
      /\ UNCHANGED <<audit_logs, body>>
  BY DEF DecideReport, TypeOK, Body, Pending
<1>2. /\ evidence' = [evidence EXCEPT ![e] = Outcome(r)]
      /\ \E label \in {"audit", "done"} : pc' = [pc EXCEPT ![r] = label]
      /\ reply' = reply \/ reply' = [reply EXCEPT ![r] = "internal_error"]
  BY DEF DecideReport, Then
<1>3. /\ \A f \in Reports : f # e => evidence'[f] = evidence[f]
      /\ evidence'[e] = Outcome(r)
      /\ Outcome(r) # None
  BY <1>1, <1>2, OutcomeType, NoneAssumption DEF TypeOK
<1>4. /\ evidence'[e].submitted_by = evidence[e].submitted_by
      /\ evidence'[e].status = body[r].decision
      /\ evidence'[e].by = r
      /\ evidence'[e].trees = IF body[r].decision = "verified" THEN body[r].trees ELSE None
  BY <1>1, <1>3, OutcomeType
<1>5. evidence[e].by = None
  BY <1>1 DEF Pending, RowsDecided
<1>6. \A q \in DecideReqs : q # r => pc'[q] = pc[q] /\ reply'[q] = reply[q]
  BY <1>2 DEF TypeOK
<1>7. pc'[r] \in {"audit", "done"} /\ reply'[r] \in {reply[r], "internal_error"}
  BY <1>2 DEF TypeOK
<1>8. \A f \in Reports : evidence[f] # None => evidence[f].by # r
  BY <1>1, NoneAssumption DEF RowsDecided
<1>9. \A entry \in audit_logs : entry.request # r /\ entry.on # e
  <2>1. ASSUME NEW entry \in audit_logs
        PROVE  entry.request # r /\ entry.on # e
    BY <1>1, <1>5, NoneAssumption DEF LogComplete, LogMatchesReport, TypeOK, LogEntry
  <2>2. QED
    BY <2>1
<1>10. Screened'
  BY <1>1, <1>3, <1>4, <1>6, <1>7 DEF Screened, Accepted, TypeOK, Body
<1>11. RowsDecided'
  <2>1. ASSUME NEW f \in Reports, f # e, evidence[f] # None, evidence[f].by # None
        PROVE  evidence[f].by \in DecideReqs /\ evidence[f].by # r
    BY <2>1, <1>8 DEF TypeOK, Row
  <2>2. body[r].decision \in Decisions /\ r # None
    BY <1>1, NoneAssumption DEF Body
  <2>3. QED
    BY <1>1, <1>3, <1>4, <1>6, <1>7, <2>1, <2>2 DEF RowsDecided, Decisions
<1>12. AuditsOwn'
  BY <1>1, <1>3, <1>4, <1>5, <1>6, NoneAssumption DEF AuditsOwn, TypeOK, Body
<1>13. LogComplete'
  BY <1>1, <1>6, <1>7, <1>9 DEF LogComplete, Logged, TypeOK, LogEntry
<1>14. NeverOwnReport'
  BY <1>1, <1>3, <1>4 DEF NeverOwnReport, Screened
<1>15. TreesIffVerified'
  BY <1>1, <1>3, <1>4 DEF TreesIffVerified, Screened, Accepted
<1>16. LogMatchesReport'
  BY <1>1, <1>3, <1>9 DEF LogMatchesReport, TypeOK, LogEntry
<1>17. QED
  BY <1>10, <1>11, <1>12, <1>13, <1>14, <1>15, <1>16

\* The log write: the entry is the row's own.
LEMMA AuditStep ==
  ASSUME TypeOK, ReviewInv, NEW r \in DecideReqs, Audit(r)
  PROVE  ReviewInv'
<1> USE DEF ReviewInv
<1>1. /\ pc[r] = "audit" /\ body[r] \in Body /\ body[r].on \in Reports
      /\ evidence[body[r].on] # None
      /\ evidence[body[r].on].by = r
      /\ evidence[body[r].on].status = body[r].decision
      /\ UNCHANGED <<evidence, body>>
  <2>1. pc[r] = "audit" /\ body[r] \in Body /\ UNCHANGED <<evidence, body>>
    BY DEF Audit, TypeOK
  <2>2. body[r].on \in Reports
    BY <2>1 DEF Body
  <2>3. evidence[body[r].on] # None /\ evidence[body[r].on].by = r
    BY <2>1 DEF AuditsOwn
  <2>4. QED
    BY <2>1, <2>2, <2>3, NoneAssumption DEF RowsDecided
<1>2. /\ audit_logs' = audit_logs \cup {Entry(r)}
      /\ pc' = [pc EXCEPT ![r] = "done"]
      /\ \E c \in {"ok", "internal_error"} : reply' = [reply EXCEPT ![r] = c]
  BY DEF Audit, Then
<1>3. Entry(r).request = r /\ Entry(r).on = body[r].on
      /\ Entry(r).decision = body[r].decision /\ Entry(r).trees = evidence[body[r].on].trees
  BY DEF Entry
<1>4. Screened' /\ AuditsOwn'
  BY <1>1, <1>2 DEF Screened, AuditsOwn, TypeOK, Accepted
<1>5. RowsDecided'
  BY <1>1, <1>2 DEF RowsDecided, TypeOK, Row
<1>6. Logged' = Logged \cup {r}
  BY <1>2, <1>3 DEF Logged
<1>7. LogComplete'
  BY <1>1, <1>2, <1>3, <1>6 DEF LogComplete, TypeOK, LogEntry
<1>8. NeverOwnReport' /\ TreesIffVerified'
  BY <1>1 DEF NeverOwnReport, TreesIffVerified
<1>9. LogMatchesReport'
  BY <1>1, <1>2, <1>3 DEF LogMatchesReport
<1>10. QED
  BY <1>4, <1>5, <1>7, <1>8, <1>9

\* Every step keeps the part of the invariant about reports, decisions and the log.
LEMMA ReviewInvStep ==
  ASSUME TypeOK, ReviewInv, [Next]_vars
  PROVE  ReviewInv'
<1>1. ASSUME NEW r \in DecideReqs, Decision(r)
      PROVE  ReviewInv'
  <2>1. CASE Review(r)
    <3>1. PICK b \in Body : Accepted(b) /\ body' = [body EXCEPT ![r] = b]
      BY <2>1 DEF Review
    <3>2. /\ body'[r] = b
          /\ \A q \in DecideReqs : q # r => body'[q] = body[q]
      BY <3>1 DEF TypeOK
    <3>3. PICK label \in {"select", "done"} :
            /\ pc' = [pc EXCEPT ![r] = label]
            /\ reply' = reply \/ \E c \in Reply \ {"ok"} : reply' = [reply EXCEPT ![r] = c]
      BY <2>1 DEF Review
    <3>4. pc[r] = "idle" /\ UNCHANGED <<evidence, audit_logs>>
      BY <2>1 DEF Review
    <3>5. QED
      BY <3>1, <3>2, <3>3, <3>4, MoveStep
  <2>2. CASE SelectReport(r)
    <3>1. /\ pc[r] = "select"
          /\ UNCHANGED <<evidence, audit_logs, body>>
      BY <2>2 DEF SelectReport
    <3>2. PICK label \in {"decide", "done"} :
            /\ pc' = [pc EXCEPT ![r] = label]
            /\ reply' = reply \/ \E c \in Reply \ {"ok"} : reply' = [reply EXCEPT ![r] = c]
            /\ label = "decide" =>
                 /\ evidence[body[r].on] # None
                 /\ evidence[body[r].on].submitted_by # body[r].actor
      BY <2>2 DEF SelectReport, Pending
    <3>3. Accepted(body'[r])
      BY <3>1 DEF ReviewInv, Screened
    <3>4. QED
      BY <3>1, <3>2, <3>3, MoveStep
  <2>3. CASE DecideReport(r)
    <3>1. CASE Pending(body[r].on)
      BY <2>3, <3>1, DecideStep
    <3>2. CASE ~Pending(body[r].on)
      <4>1. /\ pc[r] = "decide"
            /\ UNCHANGED <<evidence, audit_logs, body>>
            /\ pc' = [pc EXCEPT ![r] = "done"]
            /\ reply' = [reply EXCEPT ![r] = "conflict"]
        BY <2>3, <3>2 DEF DecideReport
      <4>2. Accepted(body'[r])
        BY <4>1 DEF ReviewInv, Screened
      <4>3. QED
        BY <4>1, <4>2, MoveStep
    <3>3. QED
      BY <3>1, <3>2
  <2>4. CASE Audit(r)
    BY <2>4, AuditStep
  <2>5. CASE Fails(r)
    <3>1. /\ pc[r] \in Calls
          /\ UNCHANGED <<evidence, audit_logs, body>>
          /\ pc' = [pc EXCEPT ![r] = "done"]
          /\ reply' = [reply EXCEPT ![r] = "internal_error"]
      BY <2>5 DEF Fails
    <3>2. Accepted(body'[r])
      BY <3>1 DEF ReviewInv, Screened
    <3>3. QED
      BY <3>1, <3>2, MoveStep
  <2>6. QED
    BY <1>1, <2>1, <2>2, <2>3, <2>4, <2>5 DEF Decision
<1>2. CASE UNCHANGED reviewVars
  BY <1>2 DEF ReviewInv, reviewVars, Screened, RowsDecided, AuditsOwn, LogComplete,
              NeverOwnReport, TreesIffVerified, LogMatchesReport, Accepted, Logged
<1>3. QED
  BY <1>1, <1>2, FileStep, RestartStep DEF Next, vars, ReadStart, ReadProject

\* A planting that is to be seen stays to be seen: filing adds rows that are
\* pending, and a decision changes such a row only.
LEMMA PlantedGrows ==
  ASSUME TypeOK, [Next]_vars
  PROVE  \A p : Planted(p) \subseteq Planted(p)'
<1>1. SUFFICES
        \A e \in Reports :
          evidence[e] # None /\ evidence[e].status = "verified" => evidence'[e] = evidence[e]
  BY NoneAssumption DEF Planted, TypeOK
<1>2. ASSUME NEW f \in Reports, File(f)
      PROVE  \A e \in Reports : evidence[e] # None => evidence'[e] = evidence[e]
  BY <1>2 DEF File, TypeOK
<1>3. ASSUME NEW r \in DecideReqs, DecideReport(r)
      PROVE  \A e \in Reports :
               evidence[e] # None /\ evidence[e].status = "verified" => evidence'[e] = evidence[e]
  BY <1>3 DEF DecideReport, Pending, TypeOK
<1>4. CASE UNCHANGED evidence
  BY <1>4
<1>5. QED
  BY <1>2, <1>3, <1>4
  DEF Next, Decision, Review, SelectReport, Audit, Fails, Restart, ReadStart, ReadProject,
      vars, reviewVars


\* The conjuncts about public reads.
LEMMA ReadInvStep ==
  ASSUME TypeOK, TreesIffVerified, BeganStands, PublishedFiguresStand, [Next]_vars
  PROVE  BeganStands' /\ PublishedFiguresStand'
<1>1. \A p \in Projects : \A x \in Planted(p) : x \in Planted(ProjectOf[x.report])
  BY DEF Planted
<1>2. ASSUME NEW q \in ReadReqs, ReadStart(q)
      PROVE  BeganStands' /\ PublishedFiguresStand'
  <2>1. /\ \A p : Planted(p)' = Planted(p)
        /\ UNCHANGED <<answered, figures>>
        /\ began' = [began EXCEPT ![q] = UNION {Planted(p) : p \in Projects}]
        /\ reading' = reading \cup {q}
        /\ q \notin reading
    BY <1>2 DEF ReadStart, reviewVars, Planted
  <2>2. /\ \A o \in ReadReqs : o # q => began'[o] = began[o]
        /\ began'[q] = UNION {Planted(p) : p \in Projects}
    BY <2>1 DEF TypeOK
  <2>3. BeganStands'
    BY <1>1, <2>1, <2>2 DEF BeganStands
  <2>4. answered[q] = {}
    BY <2>1 DEF BeganStands
  <2>5. PublishedFiguresStand'
    BY <2>1, <2>2, <2>4 DEF PublishedFiguresStand
  <2>6. QED
    BY <2>3, <2>5
<1>3. ASSUME NEW q \in ReadReqs, NEW p \in Projects, ReadProject(q, p)
      PROVE  BeganStands' /\ PublishedFiguresStand'
  <2>1. /\ \A o : Planted(o)' = Planted(o)
        /\ UNCHANGED <<reading, began>>
        /\ answered' = [answered EXCEPT ![q] = @ \cup {p}]
        /\ figures' = [figures EXCEPT ![q] = @ \cup Planted(p)]
        /\ q \in reading
    BY <1>3 DEF ReadProject, reviewVars, Planted
  <2>2. /\ \A o \in ReadReqs : o # q => answered'[o] = answered[o] /\ figures'[o] = figures[o]
        /\ answered'[q] = answered[q] \cup {p}
        /\ figures'[q] = figures[q] \cup Planted(p)
    BY <2>1 DEF TypeOK
  <2>3. BeganStands'
    BY <2>1, <2>2 DEF BeganStands
  <2>4. PublishedFiguresStand'
    BY <1>1, <2>1, <2>2 DEF PublishedFiguresStand, BeganStands
  <2>5. QED
    BY <2>3, <2>4
<1>4. CASE UNCHANGED readVars
  BY <1>4, PlantedGrows DEF readVars, BeganStands, PublishedFiguresStand
<1>5. QED
  BY <1>2, <1>3, <1>4
  DEF Next, vars, File, Decision, Review, SelectReport, DecideReport, Audit, Fails, Restart

\* The invariant holds initially.
LEMMA InvInit == Init => EvidenceInv
BY NoneAssumption, EvidenceAssumption
DEF Init, EvidenceInv, TypeOK, Screened, RowsDecided, AuditsOwn, LogComplete, BeganStands,
    NeverOwnReport, TreesIffVerified, LogMatchesReport, PublishedFiguresStand, Logged

\* Every step of the server keeps it.
LEMMA InvStep == EvidenceInv /\ [Next]_vars => EvidenceInv'
<1> SUFFICES ASSUME EvidenceInv, [Next]_vars
             PROVE  EvidenceInv'
  OBVIOUS
<1>1. TypeOK'
  BY TypeStep DEF EvidenceInv
<1>2. ReviewInv'
  BY ReviewInvStep DEF EvidenceInv, ReviewInv
<1>3. BeganStands' /\ PublishedFiguresStand'
  BY ReadInvStep DEF EvidenceInv
<1>4. QED
  BY <1>1, <1>2, <1>3 DEF EvidenceInv, ReviewInv

\* The inductive invariant of evidence review holds in every reachable state.
THEOREM EvidenceInvariant == Spec => []EvidenceInv
BY InvInit, InvStep, PTL DEF Spec

\* Type correctness of the review of evidence and of the public reads.
THEOREM EvidenceTypeCorrect == Spec => []TypeOK
<1>1. EvidenceInv => TypeOK
  BY DEF EvidenceInv
<1>2. QED
  BY <1>1, EvidenceInvariant, PTL

\* Nobody ever decides a planting report of their own.
THEOREM NobodyReviewsThemselves == Spec => []NeverOwnReport
<1>1. EvidenceInv => NeverOwnReport
  BY DEF EvidenceInv
<1>2. QED
  BY <1>1, EvidenceInvariant, PTL

\* The audit log agrees with the reports, and tree counts with the decisions.
THEOREM LogAndCountsAgree == Spec => [](LogMatchesReport /\ TreesIffVerified)
<1>1. EvidenceInv => LogMatchesReport /\ TreesIffVerified
  BY DEF EvidenceInv
<1>2. QED
  BY <1>1, EvidenceInvariant, PTL

\* What the public reads publish is complete when they begin and never taken back.
THEOREM FiguresStand == Spec => []PublishedFiguresStand
<1>1. EvidenceInv => PublishedFiguresStand
  BY DEF EvidenceInv
<1>2. QED
  BY <1>1, EvidenceInvariant, PTL

-----------------------------------------------------------------------------
(* The handlers implement the review queue.                                 *)

\* Initially the queue is empty.
LEMMA RefinementInit == Init => Abstract!Init
BY DEF Init, Abstract!Init, DecidedBy, Logged, Succeeded

\* Every step is a step of the review queue, or does not show in it.
LEMMA RefinementStep == EvidenceInv /\ [Next]_vars => [Abstract!Next]_(Abstract!vars)
<1> SUFFICES ASSUME EvidenceInv, [Next]_vars
             PROVE  Abstract!Next \/ UNCHANGED Abstract!vars
  BY DEF Abstract!vars
<1> USE DEF EvidenceInv
<1>1. CASE UNCHANGED <<DecidedBy, Logged, Succeeded>>
  BY <1>1 DEF Abstract!vars
<1>2. ASSUME NEW e \in Reports, File(e)
      PROVE  UNCHANGED <<DecidedBy, Logged, Succeeded>>
  <2>1. \A f \in Reports : DecidedBy'[f] = DecidedBy[f]
    BY <1>2, NoneAssumption DEF File, TypeOK, DecidedBy
  <2>2. QED
    BY <1>2, <2>1 DEF File, DecidedBy, Logged, Succeeded
<1>3. ASSUME NEW r \in DecideReqs, DecideReport(r), Pending(body[r].on)
      PROVE  Abstract!Decide(body[r].on, r) /\ body[r].on \in Reports
  <2> DEFINE e == body[r].on
  <2>1. /\ body[r] # None /\ e \in Reports /\ evidence[e] # None /\ pc[r] = "decide"
        /\ evidence' = [evidence EXCEPT ![e] = Outcome(r)]
        /\ Outcome(r) # None /\ Outcome(r).by = r
        /\ UNCHANGED audit_logs
    BY <1>3, OutcomeType, NoneAssumption DEF DecideReport, Pending, TypeOK, Body
  <2>2. DecidedBy[e] = None
    BY <1>3, <2>1 DEF DecidedBy, Pending, RowsDecided
  <2>3. \A f \in Reports : DecidedBy[f] # r
    BY <2>1, NoneAssumption DEF DecidedBy, RowsDecided
  <2>4. DecidedBy' = [DecidedBy EXCEPT ![e] = r]
    BY <2>1 DEF DecidedBy, TypeOK
  <2>5. Succeeded' = Succeeded
    BY <1>3, <2>1 DEF DecideReport, Then, Succeeded, TypeOK, LogComplete
  <2>6. QED
    BY <2>1, <2>2, <2>3, <2>4, <2>5 DEF Abstract!Decide, Logged
<1>4. ASSUME NEW r \in DecideReqs, Audit(r)
      PROVE  Abstract!Log(r)
  <2>1. /\ pc[r] = "audit" /\ body[r].on \in Reports
        /\ UNCHANGED evidence
        /\ audit_logs' = audit_logs \cup {Entry(r)}
        /\ Entry(r).request = r
    BY <1>4 DEF Audit, TypeOK, Body, Entry
  <2>2. DecidedBy[body[r].on] = r
    BY <2>1 DEF DecidedBy, AuditsOwn
  <2>3. r \notin Logged
    BY <2>1 DEF Logged, LogComplete
  <2>4. Logged' = Logged \cup {r} /\ DecidedBy' = DecidedBy
    BY <2>1 DEF Logged, DecidedBy
  <2>5. Succeeded' \in {Succeeded, Succeeded \cup {r}}
    <3>1. PICK c \in {"ok", "internal_error"} : reply' = [reply EXCEPT ![r] = c]
      BY <1>4 DEF Audit, Then
    <3>2. reply[r] # "ok"
      BY <2>1 DEF LogComplete
    <3>3. CASE c = "ok"
      BY <3>1, <3>3 DEF Succeeded, TypeOK
    <3>4. CASE c # "ok"
      BY <3>1, <3>2, <3>4 DEF Succeeded, TypeOK
    <3>5. QED
      BY <3>3, <3>4
  <2>6. QED
    BY <2>1, <2>2, <2>3, <2>4, <2>5 DEF Abstract!Log
<1>5. ASSUME NEW r \in DecideReqs,
             Review(r) \/ SelectReport(r) \/ (DecideReport(r) /\ ~Pending(body[r].on)) \/ Fails(r)
      PROVE  UNCHANGED <<DecidedBy, Logged, Succeeded>>
  <2>1. UNCHANGED <<evidence, audit_logs>> /\ pc[r] # "done"
    BY <1>5 DEF Review, SelectReport, DecideReport, Fails
  <2>2. reply' = reply \/ \E c \in Reply \ {"ok"} : reply' = [reply EXCEPT ![r] = c]
    BY <1>5 DEF Review, SelectReport, DecideReport, Fails
  <2>3. QED
    BY <2>1, <2>2 DEF DecidedBy, Logged, Succeeded, LogComplete, TypeOK
<1>6. CASE Restart
  <2>1. \A r \in DecideReqs : reply'[r] = "ok" <=> reply[r] = "ok"
    BY <1>6 DEF Restart, LogComplete
  <2>2. QED
    BY <1>1, <1>6, <2>1 DEF Restart, DecidedBy, Logged, Succeeded
<1>7. CASE UNCHANGED reviewVars
  BY <1>1, <1>7 DEF reviewVars, DecidedBy, Logged, Succeeded
<1>8. QED
  BY <1>1, <1>2, <1>3, <1>4, <1>5, <1>6, <1>7
  DEF Next, Decision, vars, ReadStart, ReadProject, Abstract!Next

\* The evidence handlers implement the review queue, for any number of reviewers,
\* reports and faults.
THEOREM EvidenceRefinesQueue == Spec => ImplementsReviewQueue
BY RefinementInit, RefinementStep, EvidenceInvariant, PTL
DEF Spec, ImplementsReviewQueue, Abstract!Spec
=============================================================================

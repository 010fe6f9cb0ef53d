----------------------------- MODULE Catalogue ------------------------------
(***************************************************************************)
(* Courses and projects as administrators keep them: the handlers of       *)
(* adminCatalog.ts (list, update, create), the catalogue forms of the      *)
(* administration page, and the public list of published records.  The two *)
(* kinds run the same code; Records are of one kind.                       *)
(*                                                                         *)
(* The page shows one form per record, uncontrolled and keyed by the id: a *)
(* load of the list mounts the forms that are missing, but the status a    *)
(* mounted form will send stays what it was at its mount or what its       *)
(* administrator picked since, while the label beside it follows the load. *)
(* Every save sends the status.  API clients may leave it out.             *)
(***************************************************************************)
EXTENDS Naturals

CONSTANTS
  Admins,       \* administrators with a page open; any number call the API
  Records,      \* ids of records
  Requests,     \* update and create requests
  None,
  MaxRefreshes, \* bound on refreshes by hand
  MaxFaults     \* bound on failed calls and lost answers

ASSUME BoundAssumption == MaxRefreshes \in Nat /\ MaxFaults \in Nat

VARIABLES
  row,       \* table: status (None: no such row) and number of status changes (history)
  audit,     \* audit_log: [request, label, status]
  form,      \* administrator's form of a record, or None
  loading,   \* the page's loading flag
  pending,   \* loads on their way to the server
  lists,     \* answers to loads on their way back
  working,   \* workingId of the page
  body,      \* what a request carries, or None
  pc,        \* its handler: idle, sent, committed, logged, failed
  data,      \* the status its update or insert returned
  told,      \* what its author was told: none, ok, failed
  refreshes, faults

page == <<form, loading, pending, lists, working>>
table == <<row, audit>>
handler == <<body, pc, data, told>>
vars == <<page, table, handler, refreshes, faults>>

Statuses == {"draft", "published"}
Labels == {"publication", "admin_configuration_change"}
Row == [status : Statuses \cup {None}, version : Nat]
Rows == [Records -> Row]
Forms == [status : Statuses, picked : BOOLEAN, seen : Nat]
Entries == [request : Requests, label : Labels, status : Statuses]
Bodies ==
  [author : Admins \cup {None}, target : Records \cup {"new"}, status : Statuses \cup {None},
   chosen : BOOLEAN, seen : Nat]

ASSUME NoneAssumption ==
  /\ None \notin Statuses /\ None \notin Forms /\ None \notin Bodies
  /\ None \notin Admins /\ None \notin Records /\ "new" \notin Records

TypeOK ==
  /\ row \in Rows /\ audit \subseteq Entries
  /\ form \in [Admins -> [Records -> Forms \cup {None}]]
  /\ loading \in [Admins -> BOOLEAN]
  /\ pending \in [Admins -> Nat] /\ \A a \in Admins : lists[a] \subseteq Rows
  /\ working \in [Admins -> Records \cup {"new", None}]
  /\ body \in [Requests -> Bodies \cup {None}]
  /\ pc \in [Requests -> {"idle", "sent", "committed", "logged", "failed"}]
  /\ data \in [Requests -> Statuses \cup {None}]
  /\ told \in [Requests -> {"none", "ok", "failed"}]
  /\ refreshes \in 0 .. MaxRefreshes /\ faults \in 0 .. MaxFaults
  /\ \A q \in Requests : pc[q] = "idle" <=> body[q] = None
  /\ \A q \in Requests : pc[q] \in {"committed", "logged"} => data[q] # None
  /\ \A a \in Admins, t \in Records : form[a][t] # None => row[t].status # None

\* The page has loaded nothing yet: its first load is on its way.
Init ==
  /\ row \in [Records -> [status : Statuses \cup {None}, version : {0}]]
  /\ audit = {}
  /\ form = [a \in Admins |-> [t \in Records |-> None]]
  /\ loading = [a \in Admins |-> TRUE]
  /\ pending = [a \in Admins |-> 1]
  /\ lists = [a \in Admins |-> {}]
  /\ working = [a \in Admins |-> None]
  /\ body = [q \in Requests |-> None]
  /\ pc = [q \in Requests |-> "idle"]
  /\ data = [q \in Requests |-> None]
  /\ told = [q \in Requests |-> "none"]
  /\ refreshes = 0 /\ faults = 0

-----------------------------------------------------------------------------
(* Loading the page.                                                        *)

Refresh(a) ==
  /\ ~loading[a] /\ refreshes < MaxRefreshes
  /\ refreshes' = refreshes + 1
  /\ loading' = [loading EXCEPT ![a] = TRUE]
  /\ pending' = [pending EXCEPT ![a] = @ + 1]
  /\ UNCHANGED <<form, lists, working, table, handler, faults>>

\* A failed load leaves no list, which shows no form, like an empty one.
NoList == [t \in Records |-> [status |-> None, version |-> 0]]

\* The list handler reads the table; the answer travels.
List(a) ==
  /\ pending[a] > 0
  /\ pending' = [pending EXCEPT ![a] = @ - 1]
  /\ lists' = [lists EXCEPT ![a] = @ \cup {row}]
  /\ UNCHANGED <<form, loading, working, table, handler, refreshes, faults>>

ListFails(a) ==
  /\ pending[a] > 0 /\ faults < MaxFaults
  /\ faults' = faults + 1
  /\ pending' = [pending EXCEPT ![a] = @ - 1]
  /\ lists' = [lists EXCEPT ![a] = @ \cup {NoList}]
  /\ UNCHANGED <<form, loading, working, table, handler, refreshes>>

\* A form for each record of the list: a mounted one keeps its select, a new one
\* starts from the row.
Render(mounted, listed) ==
  CASE listed.status = None -> None
    [] listed.status # None /\ mounted # None -> mounted
    [] OTHER -> [status |-> listed.status, picked |-> FALSE, seen |-> listed.version]

\* setSnapshot: answers arrive in any order, and the last to arrive is shown.
Show(a) ==
  \E list \in lists[a] :
    /\ lists' = [lists EXCEPT ![a] = @ \ {list}]
    /\ form' = [form EXCEPT ![a] = [t \in Records |-> Render(@[t], list[t])]]
    /\ loading' = [loading EXCEPT ![a] = FALSE]
    /\ UNCHANGED <<pending, working, table, handler, refreshes, faults>>

-----------------------------------------------------------------------------
(* Sending requests.                                                        *)

Pick(a, t, status) ==
  /\ form[a][t] # None
  /\ form' = [form EXCEPT ![a][t] = [@ EXCEPT !.status = status, !.picked = TRUE]]
  /\ UNCHANGED <<loading, pending, lists, working, table, handler, refreshes, faults>>

Send(q, request) ==
  /\ pc[q] = "idle"
  /\ pc' = [pc EXCEPT ![q] = "sent"]
  /\ body' = [body EXCEPT ![q] = request]
  /\ UNCHANGED <<form, loading, pending, lists, table, data, told, refreshes, faults>>

\* saveCourse, saveProject: the button is disabled only while this record's save is
\* the page's last unfinished one.
Save(a, t, q) ==
  /\ form[a][t] # None /\ working[a] # t
  /\ Send(q, [author |-> a, target |-> t, status |-> form[a][t].status,
              chosen |-> form[a][t].picked, seen |-> form[a][t].seen])
  /\ working' = [working EXCEPT ![a] = t]

\* createCourse, createProject: the page sends no status, and empties the form.
Create(a, q) ==
  /\ working[a] # "new"
  /\ Send(q, [author |-> a, target |-> "new", status |-> None,
              chosen |-> FALSE, seen |-> 0])
  /\ working' = [working EXCEPT ![a] = "new"]

\* A client of the API names a status on purpose, or none.
Call(t, status, q) ==
  /\ Send(q, [author |-> None, target |-> t, status |-> status,
              chosen |-> status # None, seen |-> 0])
  /\ UNCHANGED working

-----------------------------------------------------------------------------
(* Handlers, one database call per step.                                    *)

\* The row's status after an update: the one sent, or what it was.
MutantDefaultDraft(sent, current) == IF sent = None THEN "draft" ELSE sent
Updated(sent, current) == IF sent = None THEN current ELSE sent

Created(sent) == IF sent = None THEN "draft" ELSE sent

SetStatus(t, status) ==
  row' = [row EXCEPT ![t] = [status |-> status,
                             version |-> IF status = @.status THEN @.version ELSE @.version + 1]]

Committed(q, status) ==
  /\ pc' = [pc EXCEPT ![q] = "committed"]
  /\ data' = [data EXCEPT ![q] = status]
  /\ UNCHANGED <<page, audit, body, told, refreshes, faults>>

MutantUpdateUnchecked(q) ==
  LET t == body[q].target IN
  /\ pc[q] = "sent" /\ t \in Records
  /\ SetStatus(t, Updated(body[q].status, row[t].status))
  /\ Committed(q, Updated(body[q].status, row[t].status))

Update(q) ==
  LET t == body[q].target IN
  /\ pc[q] = "sent" /\ t \in Records /\ row[t].status # None
  /\ SetStatus(t, Updated(body[q].status, row[t].status))
  /\ Committed(q, Updated(body[q].status, row[t].status))

Insert(q) ==
  /\ pc[q] = "sent" /\ body[q].target = "new"
  /\ \E t \in Records :
       /\ row[t].status = None
       /\ SetStatus(t, Created(body[q].status))
  /\ Committed(q, Created(body[q].status))

\* 404 for an update of a record that is not there.
NotFound(q) ==
  /\ pc[q] = "sent" /\ body[q].target \in Records /\ row[body[q].target].status = None
  /\ pc' = [pc EXCEPT ![q] = "failed"]
  /\ UNCHANGED <<page, table, body, data, told, refreshes, faults>>

\* The audit entry's label: an update is a publication when it names a status, a
\* creation when it publishes.
Label(request) ==
  IF \/ request.target # "new" /\ request.status # None
     \/ request.target = "new" /\ request.status = "published"
    THEN "publication" ELSE "admin_configuration_change"

WriteAuditLog(q) ==
  /\ pc[q] = "committed"
  /\ audit' = audit \cup {[request |-> q, label |-> Label(body[q]), status |-> data[q]]}
  /\ pc' = [pc EXCEPT ![q] = "logged"]
  /\ UNCHANGED <<page, row, body, data, told, refreshes, faults>>

\* Refused (no administrator, a bad body) or failed by the database, before the
\* write or before the audit entry.
Fail(q) ==
  /\ pc[q] \in {"sent", "committed"} /\ faults < MaxFaults
  /\ faults' = faults + 1
  /\ pc' = [pc EXCEPT ![q] = "failed"]
  /\ UNCHANGED <<page, table, body, data, told, refreshes>>

-----------------------------------------------------------------------------
(* Answers.                                                                 *)

\* mutate: success loads the page again; either way workingId is cleared, whichever
\* request it names by now.
Tell(q, outcome) ==
  LET a == body[q].author
      reload == a # None /\ outcome = "ok"
  IN
  /\ told' = [told EXCEPT ![q] = outcome]
  /\ working' = IF a # None THEN [working EXCEPT ![a] = None] ELSE working
  /\ loading' = IF reload THEN [loading EXCEPT ![a] = TRUE] ELSE loading
  /\ pending' = IF reload THEN [pending EXCEPT ![a] = @ + 1] ELSE pending
  /\ UNCHANGED <<form, lists, table, body, pc, data, refreshes>>

MutantAnswerBeforeLog(q) ==
  /\ told[q] = "none" /\ pc[q] \in {"committed", "logged", "failed"}
  /\ Tell(q, IF pc[q] = "failed" THEN "failed" ELSE "ok")
  /\ UNCHANGED faults

Answer(q) ==
  /\ told[q] = "none" /\ pc[q] \in {"logged", "failed"}
  /\ Tell(q, IF pc[q] = "logged" THEN "ok" ELSE "failed")
  /\ UNCHANGED faults

\* The connection breaks: the author is told of a failure, the handler runs on.
LoseAnswer(q) ==
  /\ told[q] = "none" /\ pc[q] # "idle" /\ faults < MaxFaults
  /\ Tell(q, "failed")
  /\ faults' = faults + 1

Next ==
  \/ \E a \in Admins : Refresh(a) \/ List(a) \/ ListFails(a) \/ Show(a)
  \/ \E a \in Admins, t \in Records, status \in Statuses : Pick(a, t, status)
  \/ \E a \in Admins, q \in Requests :
       \/ Create(a, q)
       \/ \E t \in Records : Save(a, t, q)
  \/ \E t \in Records \cup {"new"}, status \in Statuses \cup {None}, q \in Requests :
       Call(t, status, q)
  \/ \E q \in Requests :
       \/ Update(q) \/ Insert(q) \/ NotFound(q)
       \/ WriteAuditLog(q) \/ Fail(q) \/ Answer(q) \/ LoseAnswer(q)

Spec == Init /\ [][Next]_vars

-----------------------------------------------------------------------------
(* The public list (GET courses, the first read of GET projects).           *)

Shown == {t \in Records : row[t].status = "published"}

-----------------------------------------------------------------------------
(* Properties.                                                              *)

Wrote(q) == data[q] # None
Logged(q) == \E entry \in audit : entry.request = q

\* adminCatalog.ts answers after the audit entry is written, with no transaction
\* around the two: an author who is told of a success finds it in the log, whatever
\* was lost or failed in between, and an entry records the status the row had when
\* its own request wrote it, not one that another administrator set meanwhile.  A
\* write without an entry is one whose author was not told of a success.
LogAgrees ==
  /\ \A q \in Requests : told[q] = "ok" => Wrote(q) /\ Logged(q)
  /\ \A entry \in audit :
       /\ Wrote(entry.request) /\ entry.status = data[entry.request]
       /\ body[entry.request].status \in {None, entry.status}

\* A record the public sees was published before, or a request named the status, and
\* a reader who filters the log for publications misses that request only if it has
\* not been answered with success.
ShownIsAccounted ==
  \A t \in Shown :
    \/ row[t].version = 0
    \/ \E q \in Requests :
         /\ Wrote(q) /\ body[q].target \in {t, "new"} /\ body[q].status = "published"
         /\ told[q] = "ok" =>
              [request |-> q, label |-> "publication", status |-> "published"] \in audit

PublicationsAccounted == LogAgrees /\ ShownIsAccounted

\* A status changes only because the request's author picked it, or, with the select
\* left alone, because the form came from a list older than the row's last change: an
\* edit of a title through an old form takes another administrator's decision back,
\* and that is the only way.  New records are drafts unless the author says otherwise.
StatusesChangeForAReason ==
  \A t \in Records : row'[t].status # row[t].status =>
    \E q \in Requests :
      /\ pc[q] = "sent" /\ pc'[q] = "committed" /\ data'[q] = row'[t].status
      /\ \/ body[q].chosen
         \/ row[t].status = None /\ row'[t].status = "draft"
         \/ body[q].author # None /\ body[q].target = t /\ body[q].seen < row[t].version

\* adminCatalog.ts and the forms of the administration page: every step that changes a
\* status does so for one of these reasons.
StatusChangesOnPurpose == [][StatusesChangeForAReason]_vars
=============================================================================

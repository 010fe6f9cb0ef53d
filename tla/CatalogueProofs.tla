--------------------------- MODULE CatalogueProofs --------------------------
(***************************************************************************)
(* Theorems about Catalogue, for every set of administrators, records and  *)
(* requests and every number of refreshes and faults.                      *)
(***************************************************************************)
EXTENDS Catalogue, TLAPS

USE BoundAssumption, NoneAssumption
USE DEF Statuses

-----------------------------------------------------------------------------
(* The inductive invariant behind the properties.                             *)

\* What was known of a row is older than the row, or agrees with it.
Older(known, current) ==
  /\ current.status # None /\ known.version <= current.version
  /\ known.version = current.version => known.status = current.status

ListsOld ==
  \A a \in Admins : \A list \in lists[a] : \A t \in Records :
    list[t].status # None => Older(list[t], row[t])

FormsOld ==
  \A a \in Admins, t \in Records :
    LET f == form[a][t] IN
    f # None => /\ row[t].status # None /\ f.seen <= row[t].version
                /\ ~f.picked => Older([status |-> f.status, version |-> f.seen], row[t])

\* A request whose author chose no status carries none, or one from a form.
BodiesOld ==
  \A q \in Requests : body[q] # None =>
    LET b == body[q] IN
    \/ b.chosen
    \/ b.status = None
    \/ /\ b.author # None /\ b.target \in Records
       /\ Older([status |-> b.status, version |-> b.seen], row[b.target])

\* What each program counter says of the log and of the answer.
HandlersInStep ==
  \A q \in Requests :
    /\ pc[q] \in {"idle", "sent"} => ~Wrote(q)
    /\ Wrote(q) => body[q].status \in {None, data[q]}
    /\ pc[q] = "logged" =>
         [request |-> q, label |-> Label(body[q]), status |-> data[q]] \in audit
    /\ told[q] = "ok" => pc[q] = "logged"

CatalogueInv ==
  /\ TypeOK /\ ListsOld /\ FormsOld /\ BodiesOld /\ HandlersInStep
  /\ LogAgrees /\ ShownIsAccounted

-----------------------------------------------------------------------------
\* A write of a status changes one row: to that status, and to the next version if
\* it is another.
LEMMA SetStatusRow ==
  ASSUME TypeOK, NEW t \in Records, NEW status \in Statuses, SetStatus(t, status)
  PROVE  /\ row' \in Rows
         /\ \A u \in Records : u # t => row'[u] = row[u]
         /\ row'[t].status = status
         /\ row'[t].version = IF status = row[t].status THEN row[t].version
                                                        ELSE row[t].version + 1
BY DEF TypeOK, SetStatus, Rows, Row

\* What was older than a row, or agreed with it, stays so when a status is written.
LEMMA OlderStays ==
  ASSUME TypeOK, NEW t \in Records, NEW status \in Statuses, SetStatus(t, status),
         NEW u \in Records, NEW known, known.version \in Nat, Older(known, row[u])
  PROVE  Older(known, row'[u])
<1>1. row[u] \in Row /\ row[t] \in Row
  BY DEF TypeOK, Rows
<1>2. CASE u # t
  BY <1>2, SetStatusRow DEF Older
<1>3. CASE u = t
  BY <1>1, <1>3, SetStatusRow DEF Older, Row
<1>4. QED
  BY <1>2, <1>3

\* A row that is there stays there, and no version goes back.
LEMMA RowStays ==
  ASSUME TypeOK, NEW t \in Records, NEW status \in Statuses, SetStatus(t, status),
         NEW u \in Records
  PROVE  /\ row[u].status # None => row'[u].status # None
         /\ row[u].version <= row'[u].version
<1>1. row[u] \in Row /\ row[t] \in Row
  BY DEF TypeOK, Rows
<1>2. QED
  BY <1>1, SetStatusRow DEF Row

\* An update or an insert writes a status to one row; the request keeps what it wrote.
LEMMA WriteStep ==
  ASSUME TypeOK, NEW q \in Requests, Update(q) \/ Insert(q)
  PROVE  \E t \in Records, status \in Statuses :
           /\ SetStatus(t, status) /\ Committed(q, status)
           /\ pc[q] = "sent" /\ body[q] \in Bodies
           /\ body[q].status \in {None, status}
           /\ body[q].target \in {t, "new"}
           /\ \/ body[q].status = None /\ row[t].status = status
              \/ body[q].status = None /\ row[t].status = None /\ status = "draft"
                 /\ body[q].target = "new"
              \/ body[q].status = status
<1>1. pc[q] = "sent" /\ body[q] \in Bodies
  BY DEF TypeOK, Update, Insert
<1>2. CASE Update(q)
  <2> DEFINE t == body[q].target
  <2>1. t \in Records /\ row[t].status \in Statuses
    BY <1>2 DEF TypeOK, Update, Rows, Row
  <2>2. Updated(body[q].status, row[t].status) \in Statuses
    BY <1>1, <2>1 DEF Updated, Bodies
  <2>3. QED
    BY <1>1, <1>2, <2>1, <2>2 DEF Update, Updated
<1>3. CASE Insert(q)
  <2>1. PICK t \in Records : row[t].status = None /\ SetStatus(t, Created(body[q].status))
    BY <1>3 DEF Insert
  <2>2. Created(body[q].status) \in Statuses
    BY <1>1 DEF Created, Bodies
  <2>3. QED
    BY <1>1, <1>3, <2>1, <2>2 DEF Insert, Created
<1>4. QED
  BY <1>2, <1>3

\* A label is a label.
LEMMA LabelType == ASSUME NEW request PROVE Label(request) \in Labels
BY DEF Label, Labels

-----------------------------------------------------------------------------
(* Types.                                                                   *)

\* Every step keeps the types; a page mounts forms of records that are there.
LEMMA TypeStep == TypeOK /\ ListsOld /\ [Next]_vars => TypeOK'
<1> SUFFICES ASSUME TypeOK, ListsOld, [Next]_vars
             PROVE  TypeOK'
  OBVIOUS
<1>1. ASSUME NEW a \in Admins, Refresh(a) PROVE TypeOK'
  BY <1>1 DEF TypeOK, Refresh, table, handler
<1>2. ASSUME NEW a \in Admins, List(a) PROVE TypeOK'
  BY <1>2 DEF TypeOK, List, table, handler
<1>3. ASSUME NEW a \in Admins, ListFails(a) PROVE TypeOK'
  <2>1. NoList \in Rows
    BY DEF NoList, Rows, Row
  <2>2. QED
    BY <1>3, <2>1 DEF TypeOK, ListFails, table, handler
<1>4. ASSUME NEW a \in Admins, Show(a) PROVE TypeOK'
  <2>1. PICK list \in lists[a] :
          /\ lists' = [lists EXCEPT ![a] = @ \ {list}]
          /\ form' = [form EXCEPT ![a] = [t \in Records |-> Render(@[t], list[t])]]
    BY <1>4 DEF Show
  <2>2. \A t \in Records : list[t] \in Row
    BY <2>1 DEF TypeOK, Rows
  <2>3. \A t \in Records : Render(form[a][t], list[t]) \in Forms \cup {None}
    BY <2>2 DEF TypeOK, Render, Forms, Row
  <2>4. \A t \in Records : Render(form[a][t], list[t]) # None => row[t].status # None
    BY <2>1 DEF ListsOld, Older, Render
  <2>5. form' \in [Admins -> [Records -> Forms \cup {None}]]
    BY <2>1, <2>3 DEF TypeOK
  <2>6. \A b \in Admins, t \in Records : form'[b][t] # None => row[t].status # None
    BY <2>1, <2>4 DEF TypeOK
  <2>7. QED
    BY <1>4, <2>1, <2>5, <2>6 DEF TypeOK, Show, table, handler
<1>5. ASSUME NEW a \in Admins, NEW t \in Records, NEW status \in Statuses, Pick(a, t, status)
      PROVE  TypeOK'
  <2>1. form[a][t] \in Forms
    BY <1>5 DEF TypeOK, Pick
  <2>2. [form[a][t] EXCEPT !.status = status, !.picked = TRUE] \in Forms
    BY <2>1 DEF Forms
  <2>3. form' \in [Admins -> [Records -> Forms \cup {None}]]
    BY <1>5, <2>2 DEF TypeOK, Pick
  <2>4. \A b \in Admins, u \in Records : form'[b][u] # None => form[b][u] # None
    BY <1>5, <2>1 DEF TypeOK, Pick
  <2>5. QED
    BY <1>5, <2>3, <2>4 DEF TypeOK, Pick, table, handler
<1>6. ASSUME NEW q \in Requests, NEW request \in Bodies, Send(q, request),
             working' \in [Admins -> Records \cup {"new", None}]
      PROVE  TypeOK'
  BY <1>6 DEF TypeOK, Send, table
<1>7. ASSUME NEW a \in Admins, NEW q \in Requests, Create(a, q) PROVE TypeOK'
  BY <1>6, <1>7 DEF TypeOK, Create, Bodies
<1>8. ASSUME NEW a \in Admins, NEW q \in Requests, NEW t \in Records, Save(a, t, q)
      PROVE  TypeOK'
  <2>1. form[a][t] \in Forms
    BY <1>8 DEF TypeOK, Save
  <2>2. [author |-> a, target |-> t, status |-> form[a][t].status,
         chosen |-> form[a][t].picked, seen |-> form[a][t].seen] \in Bodies
    BY <2>1 DEF Bodies, Forms
  <2>3. QED
    BY <1>6, <1>8, <2>2 DEF TypeOK, Save
<1>9. ASSUME NEW q \in Requests, NEW t \in Records \cup {"new"},
             NEW status \in Statuses \cup {None}, Call(t, status, q)
      PROVE  TypeOK'
  BY <1>6, <1>9 DEF TypeOK, Call, Bodies
<1>10. ASSUME NEW q \in Requests, Update(q) \/ Insert(q) PROVE TypeOK'
  <2>1. PICK t \in Records, status \in Statuses :
          SetStatus(t, status) /\ Committed(q, status) /\ pc[q] = "sent"
    BY <1>10, WriteStep
  <2>2. row' \in Rows /\ \A u \in Records : row[u].status # None => row'[u].status # None
    BY <2>1, SetStatusRow, RowStays
  <2>3. data'[q] = status /\ \A p \in Requests : p # q => data'[p] = data[p]
    BY <2>1 DEF TypeOK, Committed
  <2>4. QED
    BY <2>1, <2>2, <2>3 DEF TypeOK, Committed, page
<1>11. ASSUME NEW q \in Requests, NotFound(q) \/ Fail(q) PROVE TypeOK'
  <2>1. pc[q] \in {"sent", "committed"} /\ pc' = [pc EXCEPT ![q] = "failed"]
        /\ UNCHANGED <<page, table, body, data, told, refreshes>>
    BY <1>11 DEF NotFound, Fail
  <2>2. faults' \in 0 .. MaxFaults
    BY <1>11 DEF TypeOK, NotFound, Fail
  <2>3. QED
    BY <2>1, <2>2 DEF TypeOK, page, table
<1>12. ASSUME NEW q \in Requests, WriteAuditLog(q) PROVE TypeOK'
  <2>1. data[q] \in Statuses
    BY <1>12 DEF TypeOK, WriteAuditLog
  <2>2. [request |-> q, label |-> Label(body[q]), status |-> data[q]] \in Entries
    BY <2>1, LabelType DEF Entries
  <2>3. QED
    BY <1>12, <2>2 DEF TypeOK, WriteAuditLog, page
<1>13. ASSUME NEW q \in Requests, NEW outcome \in {"ok", "failed"}, Tell(q, outcome),
              body[q] \in Bodies, faults' \in 0 .. MaxFaults
       PROVE  TypeOK'
  BY <1>13 DEF TypeOK, Tell, table, Bodies
<1>14. ASSUME NEW q \in Requests, Answer(q) \/ LoseAnswer(q) PROVE TypeOK'
  BY <1>13, <1>14 DEF TypeOK, Answer, LoseAnswer
<1>15. CASE UNCHANGED vars
  BY <1>15 DEF TypeOK, vars, page, table, handler
<1>16. QED
  BY <1>1, <1>2, <1>3, <1>4, <1>5, <1>7, <1>8, <1>9, <1>10, <1>11, <1>12, <1>14, <1>15
  DEF Next
-----------------------------------------------------------------------------
(* What lists, forms and requests know of the rows.                         *)

OldInv == ListsOld /\ FormsOld /\ BodiesOld

\* A write of a status keeps what lists, forms and requests know old.
LEMMA OldWrite ==
  ASSUME TypeOK, OldInv, NEW q \in Requests, Update(q) \/ Insert(q)
  PROVE  OldInv'
<1>1. PICK t \in Records, status \in Statuses : SetStatus(t, status) /\ Committed(q, status)
  BY WriteStep
<1>2. UNCHANGED <<lists, form, body>>
  BY <1>1 DEF Committed, page
<1>3. ASSUME NEW u \in Records, NEW known, known.version \in Nat, Older(known, row[u])
      PROVE  Older(known, row'[u])
  BY <1>1, <1>3, OlderStays
<1>4. \A u \in Records : /\ row[u].status # None => row'[u].status # None
                         /\ row[u].version <= row'[u].version
                         /\ row[u].version \in Nat /\ row'[u].version \in Nat
  BY <1>1, RowStays, SetStatusRow DEF TypeOK, Rows, Row
<1>5. ListsOld'
  <2> SUFFICES ASSUME NEW a \in Admins, NEW list \in lists[a], NEW u \in Records,
                      list[u].status # None
               PROVE  Older(list[u], row'[u])
    BY <1>2 DEF ListsOld
  <2>1. list[u].version \in Nat
    BY DEF TypeOK, Rows, Row
  <2>2. QED
    BY <2>1, <1>3 DEF OldInv, ListsOld
<1>6. FormsOld'
  <2> SUFFICES ASSUME NEW a \in Admins, NEW u \in Records, form[a][u] # None
               PROVE  /\ row'[u].status # None /\ form[a][u].seen <= row'[u].version
                      /\ ~form[a][u].picked =>
                           Older([status |-> form[a][u].status, version |-> form[a][u].seen],
                                 row'[u])
    BY <1>2 DEF FormsOld
  <2>1. form[a][u].seen \in Nat
    BY DEF TypeOK, Forms
  <2>2. row[u].status # None /\ form[a][u].seen <= row[u].version
    BY DEF OldInv, FormsOld
  <2>3. ASSUME ~form[a][u].picked
        PROVE  Older([status |-> form[a][u].status, version |-> form[a][u].seen], row'[u])
    <3> DEFINE known == [status |-> form[a][u].status, version |-> form[a][u].seen]
    <3>1. Older(known, row[u])
      BY <2>3 DEF OldInv, FormsOld
    <3>2. known.version \in Nat
      BY <2>1
    <3> HIDE DEF known
    <3>3. Older(known, row'[u])
      BY <3>1, <3>2, <1>3
    <3>4. QED
      BY <3>3 DEF known
  <2>4. QED
    BY <2>1, <2>2, <2>3, <1>4
<1>7. BodiesOld'
  <2> SUFFICES ASSUME NEW p \in Requests, body[p] # None,
                      ~body[p].chosen, body[p].status # None
               PROVE  /\ body[p].author # None /\ body[p].target \in Records
                      /\ Older([status |-> body[p].status, version |-> body[p].seen],
                               row'[body[p].target])
    BY <1>2 DEF BodiesOld
  <2> DEFINE known == [status |-> body[p].status, version |-> body[p].seen]
  <2>1. /\ body[p].author # None /\ body[p].target \in Records
        /\ Older(known, row[body[p].target])
    BY DEF OldInv, BodiesOld
  <2>2. known.version \in Nat
    BY DEF TypeOK, Bodies
  <2> HIDE DEF known
  <2>3. Older(known, row'[body[p].target])
    BY <2>1, <2>2, <1>3
  <2>4. QED
    BY <2>1, <2>3 DEF known
<1>8. QED
  BY <1>5, <1>6, <1>7 DEF OldInv

\* A request that is sent knows no more than its form, or carries a choice.
LEMMA OldSend ==
  ASSUME TypeOK, OldInv, NEW q \in Requests, NEW request \in Bodies, Send(q, request),
         \/ request.chosen
         \/ request.status = None
         \/ /\ request.author # None /\ request.target \in Records
            /\ Older([status |-> request.status, version |-> request.seen], row[request.target])
  PROVE  OldInv'
<1>1. UNCHANGED <<row, lists, form>>
  BY DEF Send, table
<1>2. body'[q] = request /\ \A p \in Requests : p # q => body'[p] = body[p]
  BY DEF TypeOK, Send
<1>3. ListsOld' /\ FormsOld'
  BY <1>1 DEF OldInv, ListsOld, FormsOld, Older
<1>4. BodiesOld'
  BY <1>1, <1>2 DEF OldInv, BodiesOld
<1>5. QED
  BY <1>3, <1>4 DEF OldInv

\* Every step keeps what lists, forms and requests know old.
LEMMA OldStep == TypeOK /\ OldInv /\ [Next]_vars => OldInv'
<1> SUFFICES ASSUME TypeOK, OldInv, [Next]_vars
             PROVE  OldInv'
  OBVIOUS
<1>1. ASSUME UNCHANGED <<row, lists, form, body>> PROVE OldInv'
  BY <1>1 DEF OldInv, ListsOld, FormsOld, BodiesOld, Older
<1>2. ASSUME NEW a \in Admins, Refresh(a) PROVE OldInv'
  BY <1>1, <1>2 DEF Refresh, table, handler
<1>3. ASSUME NEW a \in Admins, List(a) \/ ListFails(a) PROVE OldInv'
  <2>1. UNCHANGED <<row, form, body>>
    BY <1>3 DEF List, ListFails, table, handler
  <2>2. \A b \in Admins : lists'[b] \subseteq lists[b] \cup {row, NoList}
    <3>1. \E list \in {row, NoList} : lists' = [lists EXCEPT ![a] = @ \cup {list}]
      BY <1>3 DEF List, ListFails
    <3>2. QED
      BY <3>1 DEF TypeOK
  <2>3. \A u \in Records : row[u].version \in Nat
    BY DEF TypeOK, Rows, Row
  <2>4. ListsOld'
    <3> SUFFICES ASSUME NEW b \in Admins, NEW list \in lists'[b], NEW u \in Records,
                        list[u].status # None
                 PROVE  Older(list[u], row[u])
      BY <2>1 DEF ListsOld
    <3>1. CASE list \in lists[b]
      BY <3>1 DEF OldInv, ListsOld
    <3>2. CASE list = row
      BY <3>2, <2>3 DEF Older
    <3>3. CASE list = NoList
      BY <3>3 DEF NoList
    <3>4. QED
      BY <2>2, <3>1, <3>2, <3>3
  <2>5. FormsOld' /\ BodiesOld'
    BY <2>1 DEF OldInv, FormsOld, BodiesOld, Older
  <2>6. QED
    BY <2>4, <2>5 DEF OldInv
<1>4. ASSUME NEW a \in Admins, Show(a) PROVE OldInv'
  <2>1. PICK list \in lists[a] :
          /\ lists' = [lists EXCEPT ![a] = @ \ {list}]
          /\ form' = [form EXCEPT ![a] = [t \in Records |-> Render(@[t], list[t])]]
    BY <1>4 DEF Show
  <2>2. UNCHANGED <<row, body>>
    BY <1>4 DEF Show, table, handler
  <2>3. ListsOld'
    <3>1. \A b \in Admins : lists'[b] \subseteq lists[b]
      BY <2>1 DEF TypeOK
    <3>2. QED
      BY <2>2, <3>1 DEF OldInv, ListsOld
  <2>4. FormsOld'
    <3> SUFFICES ASSUME NEW b \in Admins, NEW u \in Records, form'[b][u] # None
                 PROVE  /\ row[u].status # None /\ form'[b][u].seen <= row[u].version
                        /\ ~form'[b][u].picked =>
                             Older([status |-> form'[b][u].status,
                                    version |-> form'[b][u].seen], row[u])
      BY <2>2 DEF FormsOld
    <3>1. CASE form'[b][u] = form[b][u]
      BY <3>1 DEF OldInv, FormsOld
    <3>2. CASE form'[b][u] # form[b][u]
      <4>1. b = a /\ form'[b][u] = Render(form[a][u], list[u])
        BY <2>1, <3>2 DEF TypeOK
      <4>2. /\ list[u].status # None
            /\ form'[b][u] = [status |-> list[u].status, picked |-> FALSE,
                              seen |-> list[u].version]
        BY <3>2, <4>1 DEF Render
      <4>3. Older(list[u], row[u])
        BY <2>1, <4>2 DEF OldInv, ListsOld
      <4>4. QED
        BY <4>2, <4>3 DEF Older
    <3>3. QED
      BY <3>1, <3>2
  <2>5. BodiesOld'
    BY <2>2 DEF OldInv, BodiesOld
  <2>6. QED
    BY <2>3, <2>4, <2>5 DEF OldInv
<1>5. ASSUME NEW a \in Admins, NEW t \in Records, NEW status \in Statuses, Pick(a, t, status)
      PROVE  OldInv'
  <2>1. UNCHANGED <<row, lists, body>>
    BY <1>5 DEF Pick, table, handler
  <2>2. \A b \in Admins, u \in Records :
          \/ form'[b][u] = form[b][u]
          \/ form[b][u] # None /\ form'[b][u].seen = form[b][u].seen /\ form'[b][u].picked
    BY <1>5 DEF TypeOK, Pick, Forms
  <2>3. FormsOld'
    BY <2>1, <2>2 DEF OldInv, FormsOld
  <2>4. ListsOld' /\ BodiesOld'
    BY <2>1 DEF OldInv, ListsOld, BodiesOld, Older
  <2>5. QED
    BY <2>3, <2>4 DEF OldInv
<1>6. ASSUME NEW a \in Admins, NEW q \in Requests, Create(a, q) PROVE OldInv'
  BY <1>6, OldSend DEF Create, Bodies
<1>7. ASSUME NEW a \in Admins, NEW q \in Requests, NEW t \in Records, Save(a, t, q)
      PROVE  OldInv'
  <2> DEFINE request == [author |-> a, target |-> t, status |-> form[a][t].status,
                         chosen |-> form[a][t].picked, seen |-> form[a][t].seen]
  <2>1. form[a][t] \in Forms /\ a # None
    BY <1>7 DEF TypeOK, Save
  <2>2. request \in Bodies
    BY <2>1 DEF Bodies, Forms
  <2>3. form[a][t].picked \/ Older([status |-> form[a][t].status,
                                    version |-> form[a][t].seen], row[t])
    BY <1>7 DEF OldInv, FormsOld, Save
  <2>4. Send(q, request)
    BY <1>7 DEF Save
  <2>5. QED
    BY <2>1, <2>2, <2>3, <2>4, OldSend
<1>8. ASSUME NEW q \in Requests, NEW t \in Records \cup {"new"},
             NEW status \in Statuses \cup {None}, Call(t, status, q)
      PROVE  OldInv'
  BY <1>8, OldSend DEF Call, Bodies
<1>9. ASSUME NEW q \in Requests, Update(q) \/ Insert(q) PROVE OldInv'
  BY <1>9, OldWrite
<1>10. ASSUME NEW q \in Requests, NotFound(q) \/ WriteAuditLog(q) \/ Fail(q) PROVE OldInv'
  BY <1>1, <1>10 DEF NotFound, WriteAuditLog, Fail, page, table
<1>11. ASSUME NEW q \in Requests, Answer(q) \/ LoseAnswer(q) PROVE OldInv'
  BY <1>1, <1>11 DEF Answer, LoseAnswer, Tell, table
<1>12. CASE UNCHANGED vars
  BY <1>1, <1>12 DEF vars, page, table, handler
<1>13. QED
  BY <1>2, <1>3, <1>4, <1>5, <1>6, <1>7, <1>8, <1>9, <1>10, <1>11, <1>12 DEF Next
-----------------------------------------------------------------------------
(* The log.                                                                 *)

LogInv == HandlersInStep /\ LogAgrees /\ ShownIsAccounted

\* A request that wrote a status its author sent and is logged has the entry of a
\* publication, whatever it did.
LEMMA PublicationLogged ==
  ASSUME TypeOK, HandlersInStep, NEW q \in Requests, pc[q] = "logged",
         body[q].status = "published"
  PROVE  [request |-> q, label |-> "publication", status |-> "published"] \in audit
<1>1. data[q] = "published"
  BY DEF TypeOK, HandlersInStep, Wrote
<1>2. Label(body[q]) = "publication"
  BY DEF Label
<1>3. QED
  BY <1>1, <1>2 DEF HandlersInStep

\* A write puts a record in public only if its request named the status, and the log
\* says nothing of the request yet.
LEMMA LogWrite ==
  ASSUME TypeOK, LogInv, NEW q \in Requests, Update(q) \/ Insert(q)
  PROVE  LogInv'
<1>1. PICK t \in Records, status \in Statuses :
        /\ SetStatus(t, status) /\ Committed(q, status)
        /\ pc[q] = "sent" /\ body[q] \in Bodies
        /\ body[q].status \in {None, status}
        /\ body[q].target \in {t, "new"}
        /\ \/ body[q].status = None /\ row[t].status = status
           \/ body[q].status = None /\ row[t].status = None /\ status = "draft"
              /\ body[q].target = "new"
           \/ body[q].status = status
  BY WriteStep
<1>2. UNCHANGED <<audit, body, told>>
  BY <1>1 DEF Committed
<1>3. /\ pc'[q] = "committed" /\ data'[q] = status
      /\ \A p \in Requests : p # q => pc'[p] = pc[p] /\ data'[p] = data[p]
  BY <1>1 DEF TypeOK, Committed
<1>4. ~Wrote(q) /\ told[q] # "ok"
  BY <1>1 DEF LogInv, HandlersInStep
<1>5. HandlersInStep'
  BY <1>1, <1>2, <1>3, <1>4 DEF LogInv, HandlersInStep, Wrote
<1>6. LogAgrees'
  <2>1. \A p \in Requests : told'[p] = "ok" => Wrote(p)' /\ Logged(p)'
    BY <1>2, <1>3, <1>4 DEF LogInv, LogAgrees, Wrote, Logged
  <2>2. \A entry \in audit : entry.request \in Requests /\ entry.request # q
    BY <1>4 DEF TypeOK, Entries, LogInv, LogAgrees
  <2>3. QED
    BY <2>1, <2>2, <1>2, <1>3 DEF LogInv, LogAgrees, Wrote
<1>7. ShownIsAccounted'
  <2> SUFFICES ASSUME NEW u \in Records, row'[u].status = "published"
               PROVE  \/ row'[u].version = 0
                      \/ \E p \in Requests :
                           /\ Wrote(p)' /\ body[p].target \in {u, "new"}
                           /\ body[p].status = "published"
                           /\ told[p] = "ok" =>
                                [request |-> p, label |-> "publication",
                                 status |-> "published"] \in audit
    BY <1>2 DEF ShownIsAccounted, Shown
  <2>1. CASE u = t /\ body[q].status = status
    <3>1. body[q].status = "published" /\ Wrote(q)'
      BY <1>1, <1>3, <2>1, SetStatusRow DEF Wrote
    <3>2. QED
      BY <1>1, <1>4, <2>1, <3>1
  <2>2. CASE ~(u = t /\ body[q].status = status)
    <3>1. row'[u].status = row[u].status /\ row'[u].version = row[u].version
      BY <1>1, <2>2, SetStatusRow
    <3>2. \/ row[u].version = 0
          \/ \E p \in Requests :
               /\ Wrote(p) /\ body[p].target \in {u, "new"} /\ body[p].status = "published"
               /\ told[p] = "ok" =>
                    [request |-> p, label |-> "publication", status |-> "published"] \in audit
      BY <3>1 DEF LogInv, ShownIsAccounted, Shown
    <3>3. \A p \in Requests : Wrote(p) => Wrote(p)'
      BY <1>3, <1>4 DEF Wrote
    <3>4. QED
      BY <3>1, <3>2, <3>3
  <2>3. QED
    BY <2>1, <2>2
<1>8. QED
  BY <1>5, <1>6, <1>7 DEF LogInv

\* Every step keeps the log true to what requests wrote, and every shown record
\* accounted for.
LEMMA LogStep == TypeOK /\ LogInv /\ [Next]_vars => LogInv'
<1> SUFFICES ASSUME TypeOK, LogInv, [Next]_vars
             PROVE  LogInv'
  OBVIOUS
<1>1. ASSUME UNCHANGED <<row, audit, body, pc, data, told>> PROVE LogInv'
  BY <1>1 DEF LogInv, HandlersInStep, LogAgrees, ShownIsAccounted, Shown, Wrote, Logged
<1>2. ASSUME NEW a \in Admins, Refresh(a) \/ List(a) \/ ListFails(a) \/ Show(a) PROVE LogInv'
  BY <1>1, <1>2 DEF Refresh, List, ListFails, Show, table, handler
<1>3. ASSUME NEW a \in Admins, NEW t \in Records, NEW status \in Statuses, Pick(a, t, status)
      PROVE  LogInv'
  BY <1>1, <1>3 DEF Pick, table, handler
<1>4. ASSUME NEW q \in Requests, NEW request \in Bodies, Send(q, request) PROVE LogInv'
  <2>1. UNCHANGED <<row, audit, data, told>>
    BY <1>4 DEF Send, table
  <2>2. /\ pc'[q] = "sent" /\ body'[q] = request
        /\ \A p \in Requests : p # q => pc'[p] = pc[p] /\ body'[p] = body[p]
    BY <1>4 DEF TypeOK, Send
  <2>3. ~Wrote(q) /\ told[q] # "ok"
    BY <1>4 DEF Send, LogInv, HandlersInStep
  <2>4. HandlersInStep'
    BY <2>1, <2>2, <2>3 DEF LogInv, HandlersInStep, Wrote
  <2>5. \A entry \in audit : entry.request \in Requests /\ entry.request # q
    BY <2>3 DEF TypeOK, Entries, LogInv, LogAgrees
  <2>6. LogAgrees'
    BY <2>1, <2>2, <2>5 DEF LogInv, LogAgrees, Wrote, Logged
  <2>7. ShownIsAccounted'
    <3>1. \A p \in Requests : Wrote(p) => Wrote(p)' /\ body'[p] = body[p]
      BY <2>1, <2>2, <2>3 DEF Wrote
    <3>2. QED
      BY <2>1, <3>1 DEF LogInv, ShownIsAccounted, Shown
  <2>8. QED
    BY <2>4, <2>6, <2>7 DEF LogInv
<1>5. ASSUME NEW a \in Admins, NEW q \in Requests, Create(a, q) PROVE LogInv'
  BY <1>4, <1>5 DEF Create, Bodies
<1>6. ASSUME NEW a \in Admins, NEW q \in Requests, NEW t \in Records, Save(a, t, q)
      PROVE  LogInv'
  <2>1. form[a][t] \in Forms
    BY <1>6 DEF TypeOK, Save
  <2>2. [author |-> a, target |-> t, status |-> form[a][t].status,
         chosen |-> form[a][t].picked, seen |-> form[a][t].seen] \in Bodies
    BY <2>1 DEF Bodies, Forms
  <2>3. QED
    BY <1>4, <1>6, <2>2 DEF Save
<1>7. ASSUME NEW q \in Requests, NEW t \in Records \cup {"new"},
             NEW status \in Statuses \cup {None}, Call(t, status, q)
      PROVE  LogInv'
  BY <1>4, <1>7 DEF Call, Bodies
<1>8. ASSUME NEW q \in Requests, Update(q) \/ Insert(q) PROVE LogInv'
  BY <1>8, LogWrite
<1>9. ASSUME NEW q \in Requests, NotFound(q) \/ Fail(q) PROVE LogInv'
  <2>1. /\ pc[q] \in {"sent", "committed"} /\ pc' = [pc EXCEPT ![q] = "failed"]
        /\ UNCHANGED <<row, audit, body, data, told>>
    BY <1>9 DEF NotFound, Fail, table
  <2>2. pc'[q] = "failed" /\ \A p \in Requests : p # q => pc'[p] = pc[p]
    BY <2>1 DEF TypeOK
  <2>3. HandlersInStep'
    BY <2>1, <2>2 DEF LogInv, HandlersInStep, Wrote
  <2>4. LogAgrees' /\ ShownIsAccounted'
    BY <2>1 DEF LogInv, LogAgrees, ShownIsAccounted, Shown, Wrote, Logged
  <2>5. QED
    BY <2>3, <2>4 DEF LogInv
<1>10. ASSUME NEW q \in Requests, WriteAuditLog(q) PROVE LogInv'
  <2> DEFINE new == [request |-> q, label |-> Label(body[q]), status |-> data[q]]
  <2>1. UNCHANGED <<row, body, data, told>> /\ audit' = audit \cup {new}
    BY <1>10 DEF WriteAuditLog
  <2>2. pc[q] = "committed" /\ pc'[q] = "logged" /\ \A p \in Requests : p # q => pc'[p] = pc[p]
    BY <1>10 DEF TypeOK, WriteAuditLog
  <2>3. new.request = q /\ new.status = data[q]
    OBVIOUS
  <2>4. Wrote(q) /\ body[q].status \in {None, data[q]}
    BY <2>2 DEF TypeOK, LogInv, HandlersInStep, Wrote
  <2>5. HandlersInStep'
    BY <2>1, <2>2 DEF LogInv, HandlersInStep, Wrote
  <2> HIDE DEF new
  <2>6. LogAgrees'
    BY <2>1, <2>3, <2>4 DEF LogInv, LogAgrees, Wrote, Logged
  <2>7. ShownIsAccounted'
    BY <2>1 DEF LogInv, ShownIsAccounted, Shown, Wrote
  <2>8. QED
    BY <2>5, <2>6, <2>7 DEF LogInv
<1>11. ASSUME NEW q \in Requests, NEW outcome \in {"ok", "failed"}, Tell(q, outcome),
              outcome = "ok" => pc[q] = "logged"
       PROVE  LogInv'
  <2>1. UNCHANGED <<row, audit, body, pc, data>>
    BY <1>11 DEF Tell, table
  <2>2. told'[q] = outcome /\ \A p \in Requests : p # q => told'[p] = told[p]
    BY <1>11 DEF TypeOK, Tell
  <2>3. HandlersInStep'
    BY <1>11, <2>1, <2>2 DEF LogInv, HandlersInStep, Wrote
  <2>4. pc[q] = "logged" => Wrote(q) /\ Logged(q)
    BY DEF TypeOK, LogInv, HandlersInStep, Wrote, Logged
  <2>5. LogAgrees'
    BY <1>11, <2>1, <2>2, <2>4 DEF LogInv, LogAgrees, Wrote, Logged
  <2>6. told'[q] = "ok" /\ body[q].status = "published" =>
          [request |-> q, label |-> "publication", status |-> "published"] \in audit
    BY <1>11, <2>2, PublicationLogged DEF LogInv
  <2>7. ShownIsAccounted'
    BY <2>1, <2>2, <2>6 DEF LogInv, ShownIsAccounted, Shown, Wrote
  <2>8. QED
    BY <2>3, <2>5, <2>7 DEF LogInv
<1>12. ASSUME NEW q \in Requests, Answer(q) \/ LoseAnswer(q) PROVE LogInv'
  BY <1>11, <1>12 DEF Answer, LoseAnswer
<1>13. CASE UNCHANGED vars
  BY <1>1, <1>13 DEF vars, page, table, handler
<1>14. QED
  BY <1>2, <1>3, <1>5, <1>6, <1>7, <1>8, <1>9, <1>10, <1>12, <1>13 DEF Next
-----------------------------------------------------------------------------
(* Theorems.                                                                *)

\* The initial states: no form, no list, no request.
LEMMA CatalogueInit == Init => CatalogueInv
<1> SUFFICES ASSUME Init PROVE CatalogueInv
  OBVIOUS
<1>1. row \in Rows /\ \A t \in Records : row[t].version = 0
  BY DEF Init, Rows, Row
<1>2. TypeOK
  BY <1>1 DEF Init, TypeOK
<1>3. ListsOld /\ FormsOld /\ BodiesOld /\ HandlersInStep /\ LogAgrees
  BY DEF Init, ListsOld, FormsOld, BodiesOld, HandlersInStep, LogAgrees, Wrote
<1>4. ShownIsAccounted
  BY <1>1 DEF ShownIsAccounted, Shown
<1>5. QED
  BY <1>2, <1>3, <1>4 DEF CatalogueInv

\* The inductive invariant of Catalogue: types, what lists, forms and requests know of
\* the rows, what each program counter says of the log, and the log itself.
THEOREM CatalogueInvariant == Spec => []CatalogueInv
<1>1. CatalogueInv /\ [Next]_vars => CatalogueInv'
  BY TypeStep, OldStep, LogStep DEF CatalogueInv, OldInv, LogInv
<1>2. QED
  BY CatalogueInit, <1>1, PTL DEF Spec

\* Every variable has its type, and a form is of a record that is there.
THEOREM CatalogueTypeCorrect == Spec => []TypeOK
<1>1. CatalogueInv => TypeOK
  BY DEF CatalogueInv
<1>2. QED
  BY CatalogueInvariant, <1>1, PTL

\* adminCatalog.ts: a success is in the log, the log agrees with the writes, and what
\* the public sees was published by a request the log does not miss once answered.
THEOREM PublicationsStandAccounted == Spec => []PublicationsAccounted
<1>1. CatalogueInv => PublicationsAccounted
  BY DEF CatalogueInv, PublicationsAccounted
<1>2. QED
  BY CatalogueInvariant, <1>1, PTL

\* A write that changes a status was asked for, creates a draft, or comes from a form
\* older than the row: a request older than the row or in agreement with it.
LEMMA ReasonOfWrite ==
  ASSUME CatalogueInv, NEW q \in Requests, Update(q) \/ Insert(q)
  PROVE  StatusesChangeForAReason
<1> USE DEF CatalogueInv
<1>1. PICK t \in Records, status \in Statuses :
        /\ SetStatus(t, status) /\ Committed(q, status)
        /\ pc[q] = "sent" /\ body[q] \in Bodies
        /\ body[q].status \in {None, status}
        /\ body[q].target \in {t, "new"}
        /\ \/ body[q].status = None /\ row[t].status = status
           \/ body[q].status = None /\ row[t].status = None /\ status = "draft"
              /\ body[q].target = "new"
           \/ body[q].status = status
  BY WriteStep
<1>2. pc'[q] = "committed" /\ data'[q] = status
  BY <1>1 DEF TypeOK, Committed
<1>3. row'[t].status = status /\ \A u \in Records : u # t => row'[u] = row[u]
  BY <1>1, SetStatusRow
<1>4. ASSUME status # row[t].status, ~body[q].chosen, body[q].status # None
      PROVE  body[q].author # None /\ body[q].target = t /\ body[q].seen < row[t].version
  <2>1. /\ body[q].author # None /\ body[q].target \in Records
        /\ Older([status |-> body[q].status, version |-> body[q].seen], row[body[q].target])
    BY <1>1, <1>4 DEF BodiesOld
  <2>2. body[q].target = t /\ body[q].status = status
    BY <1>1, <1>4, <2>1
  <2>3. row[t].version \in Nat /\ body[q].seen \in Nat
    BY <1>1 DEF TypeOK, Rows, Row, Bodies
  <2>4. body[q].seen <= row[t].version /\ body[q].seen # row[t].version
    BY <1>4, <2>1, <2>2 DEF Older
  <2>5. QED
    BY <2>1, <2>2, <2>3, <2>4
<1>5. QED
  BY <1>1, <1>2, <1>3, <1>4 DEF StatusesChangeForAReason

\* Only updates and inserts write rows.
LEMMA OthersWriteNoRow ==
  ASSUME [Next]_vars, \A q \in Requests : ~Update(q) /\ ~Insert(q)
  PROVE  UNCHANGED row
BY DEF Next, vars, page, table, handler, Refresh, List, ListFails, Show, Pick, Create, Save,
       Call, Send, NotFound, WriteAuditLog, Fail, Answer, LoseAnswer, Tell

\* A status changes only because somebody picked it, or through a form older than the
\* row's last change; new records are drafts unless the author says otherwise.
THEOREM StatusesChangeOnPurpose == Spec => StatusChangesOnPurpose
<1>1. CatalogueInv /\ [Next]_vars => [StatusesChangeForAReason]_vars
  <2> SUFFICES ASSUME CatalogueInv, [Next]_vars PROVE StatusesChangeForAReason
    OBVIOUS
  <2>1. CASE \E q \in Requests : Update(q) \/ Insert(q)
    BY <2>1, ReasonOfWrite
  <2>2. CASE \A q \in Requests : ~Update(q) /\ ~Insert(q)
    BY <2>2, OthersWriteNoRow DEF StatusesChangeForAReason
  <2>3. QED
    BY <2>1, <2>2
<1>2. QED
  BY CatalogueInvariant, <1>1, PTL DEF Spec, StatusChangesOnPurpose
=============================================================================

----------------------------- MODULE PortalPages ----------------------------
(***************************************************************************)
(* The signed-in pages in one browser tab: the portal shell, which holds   *)
(* the session (app/portal/PortalShell.tsx), around the profile page or    *)
(* the administration page (app/profile/page.tsx, app/admin/page.tsx).     *)
(*                                                                         *)
(* The server knows the caller by the cookie a request was sent with; the  *)
(* page goes by the session it has in memory.  Answers arrive whenever     *)
(* they do: after a sign-out, under the next wallet's session, or after    *)
(* the answer of a later request.  Effects run with the change of state    *)
(* that triggers them.  Other tabs share the cookie.                       *)
(***************************************************************************)
EXTENDS Naturals

CONSTANTS
  Wallets, None,
  Reviewers,   \* wallets whose role is reviewer or admin
  Items,       \* the submissions and reports to be decided
  Loads,       \* loads of the page's data: bounds how many there are
  Decides,     \* decisions posted by the administration page
  MaxFaults    \* bound on failed calls and on what other tabs do

Snapshot ==
  [for : Wallets, as : Wallets \cup {None}, name : Wallets \cup {None},
   queue : SUBSET Items]

ASSUME PortalAssumption ==
  /\ Reviewers \subseteq Wallets
  /\ MaxFaults \in Nat
ASSUME NoneAssumption ==
  None \notin Wallets /\ None \notin Items /\ None \notin Loads /\ None \notin Snapshot

VARIABLES
  page,        \* which page the tab shows
  cookie,      \* celoht session cookie: the wallet it is of
  names,       \* profiles.display_name: the wallet that typed it
  queue,       \* items that are open on the server
  stored,      \* browser storage: whose choice the preferences of a wallet are
  shell, who, session,       \* portal shell: its call, the wallet signing in
  loading, snapshot, active, \* page state; active: the load that is not cancelled
  load, for, as, got,        \* loads: progress, session, cookie sent, answer
  draft, saving,             \* profile form: whose text; the save in flight
  preferences, preferencesFor,
  workingId, decide, item, by, ok,  \* administration: decisions in flight
  faults,
  foreign,     \* another tab has changed the cookie (history)
  alone,       \* loads that overlapped nothing (history)
  disturbed,   \* the data shown overlapped other requests, or is missing (history)
  decided      \* items this page was told it decided (history)

server == <<cookie, names, queue>>
shellVars == <<shell, who, session>>
loadVars == <<load, for, as, got, alone>>
profileVars == <<draft, saving, preferences, preferencesFor, stored>>
adminVars == <<workingId, decide, item, by, ok, decided>>
vars ==
  <<page, server, shellVars, loading, snapshot, active, loadVars, profileVars,
    adminVars, faults, foreign, disturbed>>

Saved == [as : Wallets \cup {None}, text : Wallets \cup {None}]
Default == "default"
Preferences == Wallets \cup {Default}
InFlight(l) == load[l] \in {"sent", "served"}
Pending(d) == decide[d] \in {"sent", "served"}

SessionTypes ==
  /\ page \in {"profile", "admin"}
  /\ cookie \in Wallets \cup {None}
  /\ shell \in {"loading", "loaded", "idle", "verify", "session", "answer", "logout", "out"}
  /\ who \in Wallets \cup {None} /\ session \in Wallets \cup {None}
  /\ faults \in Nat /\ foreign \in BOOLEAN /\ disturbed \in BOOLEAN

LoadTypes ==
  /\ loading \in BOOLEAN
  /\ snapshot \in Snapshot \cup {None}
  /\ active \in Loads \cup {None}
  /\ load \in [Loads -> {"idle", "sent", "served", "done"}]
  /\ for \in [Loads -> Wallets \cup {None}] /\ as \in [Loads -> Wallets \cup {None}]
  /\ got \in [Loads -> Snapshot \cup {None}]
  /\ alone \subseteq Loads

FormTypes ==
  /\ names \in [Wallets -> Wallets \cup {None}]
  /\ stored \in [Wallets -> Preferences \cup {None}]
  /\ draft \in Wallets \cup {None} /\ saving \in Saved \cup {None}
  /\ preferences \in Preferences /\ preferencesFor \in Wallets \cup {None}
  /\ preferencesFor \in {None, session}

DecisionTypes ==
  /\ queue \subseteq Items
  /\ workingId \in Items \cup {None}
  /\ decide \in [Decides -> {"idle", "sent", "served", "done"}]
  /\ item \in [Decides -> Items \cup {None}]
  /\ by \in [Decides -> Wallets \cup {None}]
  /\ ok \in [Decides -> BOOLEAN]
  /\ decided \subseteq Items

TypeOK == SessionTypes /\ LoadTypes /\ FormTypes /\ DecisionTypes

Init ==
  /\ page \in {"profile", "admin"}
  /\ cookie \in Wallets \cup {None}
  /\ names = [w \in Wallets |-> None]
  /\ queue = Items
  /\ stored = [w \in Wallets |-> None]
  /\ shell = "loading" /\ who = None /\ session = None
  /\ loading = FALSE /\ snapshot = None /\ active = None
  /\ load = [l \in Loads |-> "idle"]
  /\ for = [l \in Loads |-> None] /\ as = [l \in Loads |-> None]
  /\ got = [l \in Loads |-> None]
  /\ draft = None /\ saving = None
  /\ preferences = Default /\ preferencesFor = None
  /\ workingId = None
  /\ decide = [d \in Decides |-> "idle"]
  /\ item = [d \in Decides |-> None]
  /\ by = [d \in Decides |-> None]
  /\ ok = [d \in Decides |-> FALSE]
  /\ faults = 0 /\ foreign = FALSE /\ disturbed = FALSE
  /\ alone = {} /\ decided = {}

Fault == faults < MaxFaults /\ faults' = faults + 1

-----------------------------------------------------------------------------
(* Loads of the page's data, and the effects of a session change.           *)

\* All requests of a load are sent at once, with the cookie of that moment.
StartLoad(s) ==
  \E l \in Loads :
    /\ load[l] = "idle"
    /\ load' = [load EXCEPT ![l] = "sent"]
    /\ for' = [for EXCEPT ![l] = s]
    /\ as' = [as EXCEPT ![l] = cookie]
    /\ alone' = IF (\E k \in Loads : InFlight(k)) \/ (\E d \in Decides : Pending(d)')
                  THEN {} ELSE {l}
    /\ active' = IF page = "profile" THEN l ELSE None
    /\ loading' = TRUE
    /\ UNCHANGED got

\* What the pages load for a session: the administration page only for reviewers
\* and administrators.
Reload(s) ==
  IF s # None /\ (page = "admin" => s \in Reviewers)
    THEN StartLoad(s)
    ELSE UNCHANGED <<loadVars, active, loading>>

\* Nothing stored for the wallet: the choice of the previous one is kept.
MutantReadPreferencesIfStored(s) ==
  /\ preferencesFor' = s
  /\ preferences' = IF s # None /\ stored[s] # None THEN stored[s] ELSE preferences
  /\ stored' = IF s = None THEN stored ELSE [stored EXCEPT ![s] = preferences']

\* The wallet they are of survives a sign-out.
MutantReadPreferencesKeepsOwner(s) ==
  /\ preferencesFor' = IF s = None THEN preferencesFor ELSE s
  /\ preferences' = CASE s = None -> preferences
                      [] s # None /\ stored[s] = None -> Default
                      [] OTHER -> stored[s]
  /\ stored' = IF s = None THEN stored ELSE [stored EXCEPT ![s] = preferences']

\* The two preference effects: read those of the wallet, then write them back.
ReadPreferences(s) ==
  /\ preferencesFor' = s
  /\ preferences' = CASE s = None -> preferences
                      [] s # None /\ stored[s] = None -> Default
                      [] OTHER -> stored[s]
  /\ stored' = IF s = None THEN stored ELSE [stored EXCEPT ![s] = preferences']

SetSession(s) ==
  /\ session' = s
  /\ IF page = "profile"
       THEN ReadPreferences(s) ELSE UNCHANGED <<preferences, preferencesFor, stored>>
  /\ IF page = "profile" /\ s = None
       THEN snapshot' = None /\ loading' = FALSE /\ active' = None /\ UNCHANGED loadVars
       ELSE Reload(s) /\ UNCHANGED snapshot

ServeLoad(l) ==
  /\ load[l] = "sent"
  /\ load' = [load EXCEPT ![l] = "served"]
  /\ got' = [got EXCEPT ![l] =
       [for |-> for[l], as |-> as[l],
        name |-> IF as[l] = None THEN None ELSE names[as[l]],
        queue |-> IF as[l] \in Reviewers THEN queue ELSE {}]]
  /\ UNCHANGED <<page, server, shellVars, loading, snapshot, active, for, as, alone,
                 profileVars, adminVars, faults, foreign, disturbed>>

\* The profile page drops the answer of a cancelled load, the administration
\* page never cancels one.
Shown(l) == page = "profile" => active = l

DeliverLoad(l) ==
  /\ load[l] = "served"
  /\ load' = [load EXCEPT ![l] = "done"]
  /\ IF Shown(l)
       THEN /\ snapshot' = got[l]
            /\ draft' = IF page = "profile" THEN got[l].name ELSE draft
            /\ loading' = FALSE
            /\ disturbed' = (l \notin alone)
       ELSE UNCHANGED <<snapshot, draft, loading, disturbed>>
  /\ UNCHANGED <<page, server, shellVars, active, for, as, got, alone, saving, preferences,
                 preferencesFor, stored, adminVars, faults, foreign>>

\* Requests of a load fail: their sections are empty.
LoadFails(l) ==
  /\ Fault
  /\ load[l] = "sent"
  /\ load' = [load EXCEPT ![l] = "served"]
  /\ got' = [got EXCEPT ![l] = [for |-> for[l], as |-> as[l], name |-> None, queue |-> {}]]
  /\ UNCHANGED <<page, server, shellVars, loading, snapshot, active, for, as, alone,
                 profileVars, adminVars, foreign, disturbed>>

-----------------------------------------------------------------------------
(* The shell.                                                               *)

working == shell \in {"verify", "session", "answer", "logout", "out"}
sessionLoading == shell \in {"loading", "loaded"}

quiet == <<page, names, queue, adminVars, draft, saving, disturbed>>
effects == <<session, loading, snapshot, active, loadVars, preferences, preferencesFor, stored>>

\* GET /auth/session: who the server says we are; then the page takes it over.
ReadSession ==
  /\ shell \in {"loading", "session"}
  /\ who' = cookie
  /\ shell' = IF shell = "loading" THEN "loaded" ELSE "answer"
  /\ UNCHANGED <<quiet, effects, cookie, faults, foreign>>

TakeSession ==
  /\ shell \in {"loaded", "answer"}
  /\ shell' = "idle"
  /\ UNCHANGED <<quiet, cookie, who, faults, foreign>>
  /\ IF who = None THEN UNCHANGED effects ELSE SetSession(who)

\* The wallet signs the challenge; nothing of it is the page's state.
ConnectWallet ==
  /\ session = None /\ ~working /\ ~sessionLoading
  /\ who' \in Wallets
  /\ shell' = "verify"
  /\ UNCHANGED <<quiet, effects, cookie, faults, foreign>>

\* POST /auth/verify sets the cookie.
Verify ==
  /\ shell = "verify"
  /\ cookie' = who
  /\ \/ shell' = "session" /\ UNCHANGED faults
     \/ shell' = "idle" /\ Fault
  /\ UNCHANGED <<quiet, effects, who, foreign>>

SignOut ==
  /\ session # None /\ ~working
  /\ shell' = "logout"
  /\ UNCHANGED <<quiet, effects, cookie, who, faults, foreign>>

Logout ==
  /\ shell = "logout"
  /\ cookie' = None
  /\ \/ shell' = "out" /\ UNCHANGED faults
     \/ shell' = "idle" /\ Fault
  /\ UNCHANGED <<quiet, effects, who, foreign>>

SignedOut ==
  /\ shell = "out"
  /\ shell' = "idle"
  /\ UNCHANGED <<quiet, cookie, who, faults, foreign>>
  /\ SetSession(None)

ShellFails ==
  /\ Fault
  /\ shell # "idle"
  /\ shell' = "idle"
  /\ UNCHANGED <<quiet, effects, cookie, who, foreign>>

OtherTab ==
  /\ Fault
  /\ cookie' \in Wallets \cup {None}
  /\ foreign' = TRUE
  /\ UNCHANGED <<quiet, effects, shell, who>>

-----------------------------------------------------------------------------
(* The profile page.                                                        *)

Form == page = "profile" /\ session # None /\ snapshot # None

Edit ==
  /\ Form
  /\ draft' = session
  /\ UNCHANGED <<page, server, shellVars, loading, snapshot, active, loadVars, saving,
                 preferences, preferencesFor, stored, adminVars, faults, foreign, disturbed>>

Choose ==
  /\ Form
  /\ preferences' = session
  /\ stored' = IF preferencesFor = None THEN stored ELSE [stored EXCEPT ![preferencesFor] = session]
  /\ UNCHANGED <<page, server, shellVars, loading, snapshot, active, loadVars, draft, saving,
                 preferencesFor, adminVars, faults, foreign, disturbed>>

SaveProfile ==
  /\ Form /\ saving = None
  /\ saving' = [as |-> cookie, text |-> draft]
  /\ UNCHANGED <<page, server, shellVars, loading, snapshot, active, loadVars, draft,
                 preferences, preferencesFor, stored, adminVars, faults, foreign, disturbed>>

\* PATCH /profile, and the reload that follows its success; an empty name is not
\* sent.
SaveDone ==
  LET written == IF None \in {saving.as, saving.text} THEN names ELSE [names EXCEPT ![saving.as] = saving.text] IN
  /\ saving # None
  /\ saving' = None
  /\ UNCHANGED <<page, cookie, queue, shellVars, snapshot, draft, preferences, preferencesFor,
                 stored, adminVars, foreign, disturbed>>
  /\ \/ /\ names' = written
        /\ Reload(IF saving.as = None THEN None ELSE session)
        /\ UNCHANGED faults
     \/ /\ Fault
        /\ names' \in {names, written}
        /\ UNCHANGED <<loadVars, active, loading>>

Refresh ==
  /\ session # None /\ ~loading /\ (page = "admin" => session \in Reviewers)
  /\ UNCHANGED <<page, server, shellVars, snapshot, profileVars, adminVars, faults, foreign,
                 disturbed>>
  /\ StartLoad(session)

-----------------------------------------------------------------------------
(* The administration page.                                                 *)

Decide(d, i) ==
  /\ page = "admin" /\ session \in Reviewers /\ snapshot # None
  /\ i \in snapshot.queue /\ workingId # i
  /\ decide[d] = "idle"
  /\ decide' = [decide EXCEPT ![d] = "sent"]
  /\ item' = [item EXCEPT ![d] = i]
  /\ by' = [by EXCEPT ![d] = cookie]
  /\ workingId' = i
  /\ alone' = {}
  /\ UNCHANGED <<page, server, shellVars, loading, snapshot, active, load, for, as, got,
                 profileVars, ok, decided, faults, foreign, disturbed>>

ServeDecision(d) ==
  LET accepted == by[d] \in Reviewers /\ item[d] \in queue IN
  /\ decide[d] = "sent"
  /\ decide' = [decide EXCEPT ![d] = "served"]
  /\ queue' = IF accepted THEN queue \ {item[d]} ELSE queue
  /\ \/ ok' = [ok EXCEPT ![d] = accepted] /\ UNCHANGED faults
     \/ Fault /\ UNCHANGED ok
  /\ UNCHANGED <<page, cookie, names, shellVars, loading, snapshot, active, loadVars,
                 profileVars, workingId, item, by, decided, foreign, disturbed>>

MutantDecisionDoneNoRefresh(d) ==
  /\ decide[d] = "served"
  /\ decide' = [decide EXCEPT ![d] = "done"]
  /\ workingId' = None
  /\ decided' = IF ok[d] THEN decided \cup {item[d]} ELSE decided
  /\ UNCHANGED <<page, server, shellVars, snapshot, profileVars, item, by, ok, faults, foreign,
                 disturbed, loadVars, active, loading>>

DecisionDone(d) ==
  /\ decide[d] = "served"
  /\ decide' = [decide EXCEPT ![d] = "done"]
  /\ workingId' = None
  /\ decided' = IF ok[d] THEN decided \cup {item[d]} ELSE decided
  /\ IF ok[d] THEN Reload(session) ELSE UNCHANGED <<loadVars, active, loading>>
  /\ UNCHANGED <<page, server, shellVars, snapshot, profileVars, item, by, ok, faults, foreign,
                 disturbed>>

-----------------------------------------------------------------------------

Shell ==
  \/ ReadSession \/ TakeSession \/ ConnectWallet \/ Verify
  \/ SignOut \/ Logout \/ SignedOut \/ ShellFails
  \/ OtherTab

Next ==
  \/ Shell
  \/ \E l \in Loads : ServeLoad(l) \/ DeliverLoad(l) \/ LoadFails(l)
  \/ Edit \/ Choose \/ SaveProfile \/ SaveDone \/ Refresh
  \/ \E d \in Decides : ServeDecision(d) \/ DecisionDone(d) \/ \E i \in Items : Decide(d, i)

Spec == Init /\ [][Next]_vars

-----------------------------------------------------------------------------
(* Properties.                                                              *)

\* The profile page shows only what was loaded for the signed-in wallet, through
\* sign-outs, sign-ins, late and lost answers; and unless another tab has changed the
\* cookie, the server gave it as that wallet's, and a display name is only saved to the
\* wallet that typed it.  The administration page promises less: it keeps the snapshot
\* of an ended session until its next load is answered (app/admin/page.tsx:60-81).
ProfileOfTheSession ==
  page = "profile" /\ snapshot # None =>
    /\ session # None /\ snapshot.for = session
    /\ ~foreign => /\ snapshot.as \in {session, None}
                    /\ draft \in {session, None}

\* Notification preferences are stored under the wallet that chose them.
PreferencesStayWithWallet ==
  \A w \in Wallets : stored[w] \in {None, Default, w}

\* The profile page and the stored preferences keep the wallets' sessions apart, however
\* answers are delayed across sign-outs and sign-ins.
SessionsKeepApart == ProfileOfTheSession /\ PreferencesStayWithWallet

\* When everything has been answered, the administration page a reviewer has open
\* offers no item it was told it had decided, and its controls are released,
\* unless the last load overlapped another request.
SettledQueueIsCurrent ==
  (page = "admin" /\ session \in Reviewers /\ ~disturbed
   /\ ~(\E l \in Loads : InFlight(l)) /\ ~(\E d \in Decides : Pending(d))) =>
    /\ ~loading /\ workingId = None
    /\ snapshot # None => snapshot.queue \cap decided = {}
=============================================================================

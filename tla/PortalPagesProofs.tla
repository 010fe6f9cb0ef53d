-------------------------- MODULE PortalPagesProofs -------------------------
(***************************************************************************)
(* Theorems about PortalPages, for every set of wallets, reviewers, items, *)
(* loads and decisions, and any number of faults.                          *)
(***************************************************************************)
EXTENDS PortalPages, TLAPS

USE PortalAssumption, NoneAssumption
USE DEF TypeOK

-----------------------------------------------------------------------------
(* The inductive invariant behind the properties.                           *)

\* A wallet signs in only while nobody is signed in; the controls that belong to
\* the other page are never used.
ShellInStep ==
  /\ shell \in {"loading", "loaded", "verify", "session", "answer"} => session = None
  /\ page = "admin" => preferencesFor = None /\ saving = None
  /\ \A d \in Decides : decide[d] # "idle" => page = "admin" /\ item[d] \in Items

\* A load was sent for a wallet, and its answer is of that load; the profile page
\* waits for one that was sent for the session.
LoadsInStep ==
  /\ \A l \in Loads :
       /\ load[l] # "idle" => for[l] # None
       /\ load[l] = "served" => got[l] # None /\ got[l].for = for[l] /\ got[l].as = as[l]
  /\ page = "profile" =>
       /\ session = None => snapshot = None /\ active = None
       /\ snapshot # None => snapshot.for = session
       /\ active # None => for[active] = session

\* The cookie is the session's as long as no other tab changes it, and so is
\* everything that is read and written by it.
CookieInStep ==
  ~foreign =>
    /\ shell \in {"loaded", "answer"} => who = cookie
    /\ session # None => cookie \in {session, None}
    /\ \A w \in Wallets : names[w] \in {w, None}
    /\ saving # None => saving.as = None \/ saving.text \in {saving.as, None}
    /\ \A l \in Loads :
         /\ load[l] # "idle" => as[l] \in {for[l], None}
         /\ load[l] = "served" => got[l].name \in {for[l], None}

PortalInv == TypeOK /\ ShellInStep /\ LoadsInStep /\ CookieInStep /\ SessionsKeepApart

\* What the page was told it decided is no longer open.
DecidedInStep ==
  /\ decided \cap queue = {}
  /\ \A d \in Decides :
       /\ decide[d] \in {"idle", "sent"} => ~ok[d]
       /\ ok[d] => item[d] \notin queue

\* A load that overlapped nothing is followed by no decision, and by no other load.
AloneInStep ==
  \A l \in alone :
    /\ \A k \in Loads \ {l} : ~InFlight(k) /\ k \notin alone
    /\ \A d \in Decides : ~Pending(d)
    /\ load[l] = "served" => got[l].queue \cap decided = {}

\* The controls are taken by what is in flight; a reviewer's page is current or is
\* about to be.
ControlsInStep ==
  page = "admin" =>
    /\ loading => \E l \in Loads : InFlight(l)
    /\ workingId # None => \E d \in Decides : Pending(d)
    /\ session \in Reviewers /\ ~disturbed =>
         (snapshot # None => snapshot.queue \cap decided = {}) \/ \E l \in Loads : InFlight(l)

QueueInv == PortalInv /\ DecidedInStep /\ AloneInStep /\ ControlsInStep

-----------------------------------------------------------------------------
(* The steps of the portal.                                                 *)

\* A load that starts is for its session, under the cookie of that moment; the others
\* go on as they are.
LEMMA LoadStarts ==
  ASSUME TypeOK, NEW s \in Wallets, StartLoad(s)
  PROVE  \E l \in Loads :
           /\ load[l] = "idle" /\ load' = [load EXCEPT ![l] = "sent"]
           /\ for' = [for EXCEPT ![l] = s] /\ as' = [as EXCEPT ![l] = cookie]
           /\ got' = got /\ loading' = TRUE
           /\ active' = (IF page = "profile" THEN l ELSE None)
           /\ alone' \subseteq {l}
           /\ l \in alone' => (\A k \in Loads : ~InFlight(k)) /\ \A d \in Decides : ~(Pending(d)')
BY DEF StartLoad

\* Loads stay in step when one more starts for the session there is then.
LEMMA ReloadInStep ==
  ASSUME PortalInv, NEW s \in Wallets \cup {None},
         Reload(s) \/ (s # None /\ StartLoad(s)),
         page = "profile" => s = session' /\ (s = session \/ s # None),
         ~foreign /\ s # None => cookie \in {s, None}
  PROVE  /\ load' \in [Loads -> {"idle", "sent", "served", "done"}]
         /\ for' \in [Loads -> Wallets \cup {None}] /\ as' \in [Loads -> Wallets \cup {None}]
         /\ loading' \in BOOLEAN /\ active' \in Loads \cup {None}
         /\ alone' \subseteq Loads /\ got' = got
         /\ \A l \in Loads :
              /\ load'[l] # "idle" => for'[l] # None
              /\ load'[l] = "served" => load[l] = "served" /\ for'[l] = for[l] /\ as'[l] = as[l]
              /\ ~foreign /\ load'[l] # "idle" => as'[l] \in {for'[l], None}
         /\ page = "profile" /\ active' # None => for'[active'] = session'
         /\ page = "profile" /\ session' = None => active' = None
<1> USE DEF PortalInv
<1>1. CASE UNCHANGED <<loadVars, active, loading>> /\ (page = "profile" => s = None)
  <2>1. page = "profile" => active = None
    BY <1>1 DEF LoadsInStep
  <2>2. QED
    BY <1>1, <2>1 DEF loadVars, SessionTypes, LoadTypes, FormTypes, DecisionTypes, LoadsInStep, CookieInStep
<1>2. CASE s # None /\ StartLoad(s)
  <2>1. s \in Wallets
    BY <1>2
  <2>2. PICK l \in Loads :
          /\ load[l] = "idle" /\ load' = [load EXCEPT ![l] = "sent"]
          /\ for' = [for EXCEPT ![l] = s] /\ as' = [as EXCEPT ![l] = cookie]
          /\ got' = got /\ loading' = TRUE
          /\ active' = (IF page = "profile" THEN l ELSE None)
          /\ alone' \subseteq {l}
    BY <1>2, <2>1, LoadStarts
  <2>3. /\ load'[l] = "sent" /\ for'[l] = s /\ as'[l] = cookie /\ s # None
        /\ \A k \in Loads \ {l} : load'[k] = load[k] /\ for'[k] = for[k] /\ as'[k] = as[k]
    BY <2>1, <2>2 DEF SessionTypes, LoadTypes, FormTypes, DecisionTypes
  <2>4. /\ load' \in [Loads -> {"idle", "sent", "served", "done"}]
        /\ for' \in [Loads -> Wallets \cup {None}] /\ as' \in [Loads -> Wallets \cup {None}]
    BY <2>1, <2>2 DEF SessionTypes, LoadTypes, FormTypes, DecisionTypes
  <2>5. \A k \in Loads :
          /\ load'[k] # "idle" => for'[k] # None
          /\ load'[k] = "served" => load[k] = "served" /\ for'[k] = for[k] /\ as'[k] = as[k]
          /\ ~foreign /\ load'[k] # "idle" => as'[k] \in {for'[k], None}
    BY <2>3 DEF LoadsInStep, CookieInStep
  <2>6. QED
    BY <2>2, <2>3, <2>4, <2>5
<1>3. QED
  BY <1>1, <1>2 DEF Reload

\* A session that comes or goes takes with it what the profile page shows.
LEMMA SessionChanges ==
  ASSUME PortalInv, NEW s \in Wallets \cup {None}, SetSession(s),
         UNCHANGED <<quiet, cookie, who, faults, foreign>>, shell' = "idle",
         s # None => session = None /\ (~foreign => cookie = s)
  PROVE  PortalInv'
<1> USE DEF PortalInv
<1>1. session' = s /\ UNCHANGED <<page, names, queue, draft, saving, disturbed>>
      /\ UNCHANGED <<workingId, decide, item, by, ok, decided>>
  BY DEF SetSession, quiet, adminVars
<1>2. /\ stored' \in [Wallets -> Preferences \cup {None}] /\ preferences' \in Preferences
      /\ preferencesFor' \in {None, s} /\ (page = "admin" => preferencesFor' = None)
      /\ PreferencesStayWithWallet'
  <2>1. CASE page = "profile" /\ s = None
    BY <2>1 DEF SetSession, ReadPreferences, SessionTypes, LoadTypes, FormTypes, DecisionTypes, SessionsKeepApart, PreferencesStayWithWallet
  <2>2. CASE page = "profile" /\ s # None
    <3>1. /\ preferencesFor' = s
          /\ preferences' = (IF stored[s] = None THEN Default ELSE stored[s])
          /\ stored' = [stored EXCEPT ![s] = preferences']
      BY <2>2 DEF SetSession, ReadPreferences
    <3>2. preferences' \in Preferences /\ preferences' \in {Default, s}
      BY <2>2, <3>1 DEF SessionTypes, LoadTypes, FormTypes, DecisionTypes, Preferences, SessionsKeepApart, PreferencesStayWithWallet
    <3>3. QED
      BY <2>2, <3>1, <3>2 DEF SessionTypes, LoadTypes, FormTypes, DecisionTypes, SessionsKeepApart, PreferencesStayWithWallet
  <2>3. CASE page # "profile"
    BY <2>3 DEF SetSession, SessionTypes, LoadTypes, FormTypes, DecisionTypes, ShellInStep, SessionsKeepApart, PreferencesStayWithWallet
  <2>4. QED
    BY <2>1, <2>2, <2>3
<1>3. page = "profile" => snapshot' = None
  BY DEF SetSession, LoadsInStep
<1>4. snapshot' = snapshot \/ snapshot' = None
  BY DEF SetSession
<1> DEFINE Loaded ==
        /\ load' \in [Loads -> {"idle", "sent", "served", "done"}]
        /\ for' \in [Loads -> Wallets \cup {None}] /\ as' \in [Loads -> Wallets \cup {None}]
        /\ loading' \in BOOLEAN /\ active' \in Loads \cup {None}
        /\ alone' \subseteq Loads /\ got' = got
        /\ \A l \in Loads :
             /\ load'[l] # "idle" => for'[l] # None
             /\ load'[l] = "served" => load[l] = "served" /\ for'[l] = for[l] /\ as'[l] = as[l]
             /\ ~foreign /\ load'[l] # "idle" => as'[l] \in {for'[l], None}
        /\ page = "profile" /\ active' # None => for'[active'] = session'
        /\ page = "profile" /\ session' = None => active' = None
<1>5. Loaded
  <2>1. CASE page = "profile" /\ s = None
    BY <2>1 DEF SetSession, loadVars, SessionTypes, LoadTypes, FormTypes, DecisionTypes, LoadsInStep, CookieInStep
  <2>2. CASE ~(page = "profile" /\ s = None)
    <3>1. Reload(s)
      BY <2>2 DEF SetSession
    <3>2. ~foreign /\ s # None => cookie \in {s, None}
      OBVIOUS
    <3>3. page = "profile" => s = session' /\ (s = session \/ s # None)
      BY <1>1, <2>2
    <3>4. QED
      BY <3>1, <3>2, <3>3, ReloadInStep
  <2>3. QED
    BY <2>1, <2>2
<1>6. TypeOK'
  BY <1>1, <1>2, <1>4, <1>5 DEF SessionTypes, LoadTypes, FormTypes, DecisionTypes
<1>7. ShellInStep'
  BY <1>1, <1>2 DEF ShellInStep
<1>8. LoadsInStep'
  BY <1>1, <1>3, <1>5 DEF LoadsInStep
<1>9. CookieInStep'
  BY <1>1, <1>5 DEF CookieInStep, LoadsInStep
<1>10. SessionsKeepApart'
  BY <1>1, <1>2, <1>3 DEF SessionsKeepApart, ProfileOfTheSession
<1>11. QED
  BY <1>6, <1>7, <1>8, <1>9, <1>10

\* The calls of the shell: who signs in, signs out, and what other tabs do.
LEMMA ShellStep ==
  ASSUME PortalInv, Shell
  PROVE  PortalInv'
<1> USE DEF PortalInv
<1>1. CASE TakeSession /\ who # None
  <2>1. /\ who \in Wallets /\ SetSession(who) /\ shell \in {"loaded", "answer"} /\ shell' = "idle"
        /\ UNCHANGED <<quiet, cookie, who, faults, foreign>>
    BY <1>1 DEF TakeSession, SessionTypes, LoadTypes, FormTypes, DecisionTypes
  <2>2. session = None /\ (~foreign => cookie = who)
    BY <2>1 DEF ShellInStep, CookieInStep
  <2>3. QED
    BY <2>1, <2>2, SessionChanges
<1>2. CASE SignedOut
  BY <1>2, SessionChanges DEF SignedOut
<1>3. CASE ~SignedOut /\ ~(TakeSession /\ who # None)
  <2>1. UNCHANGED <<quiet, effects>>
    BY <1>3 DEF Shell, ReadSession, TakeSession, ConnectWallet, Verify, SignOut, Logout,
                ShellFails, OtherTab
  <2>2. UNCHANGED <<page, names, queue, draft, saving, disturbed, session, loading, snapshot,
                    active, load, for, as, got, alone, preferences, preferencesFor, stored,
                    workingId, decide, item, by, ok, decided>>
    BY <2>1 DEF quiet, effects, adminVars, loadVars
  <2>3. /\ cookie' \in Wallets \cup {None} /\ who' \in Wallets \cup {None} /\ faults' \in Nat
        /\ shell' \in {"loading", "loaded", "idle", "verify", "session", "answer", "logout", "out"}
        /\ foreign' \in BOOLEAN
    <3>1. cookie' \in Wallets \cup {None} /\ who' \in Wallets \cup {None}
      BY <1>3 DEF Shell, ReadSession, TakeSession, ConnectWallet, Verify, SignOut, Logout,
                  ShellFails, OtherTab, SessionTypes
    <3>2. faults' = faults \/ faults' = faults + 1
      BY <1>3 DEF Shell, ReadSession, TakeSession, ConnectWallet, Verify, SignOut, Logout,
                  ShellFails, OtherTab, Fault
    <3>3. shell' = shell \/ shell' \in {"loaded", "idle", "verify", "session", "answer", "logout", "out"}
      BY <1>3 DEF Shell, ReadSession, TakeSession, ConnectWallet, Verify, SignOut, Logout,
                  ShellFails, OtherTab
    <3>4. foreign' \in BOOLEAN
      BY <1>3 DEF Shell, ReadSession, TakeSession, ConnectWallet, Verify, SignOut, Logout,
                  ShellFails, OtherTab, SessionTypes
    <3>5. faults' \in Nat
      BY <3>2 DEF SessionTypes
    <3>6. shell' \in {"loading", "loaded", "idle", "verify", "session", "answer", "logout", "out"}
      BY <3>3 DEF SessionTypes
    <3>7. QED
      BY <3>1, <3>4, <3>5, <3>6
  <2>4. TypeOK'
    <3>1. SessionTypes'
      BY <2>2, <2>3 DEF SessionTypes
    <3>2. LoadTypes'
      BY <2>2, <2>3 DEF LoadTypes
    <3>3. FormTypes'
      BY <2>2, <2>3 DEF FormTypes
    <3>4. DecisionTypes'
      BY <2>2, <2>3 DEF DecisionTypes
    <3>5. QED
      BY <3>1, <3>2, <3>3, <3>4
  <2>5. shell' \in {"loading", "loaded", "verify", "session", "answer"} => session = None
    BY <1>3 DEF Shell, ReadSession, TakeSession, ConnectWallet, Verify, SignOut, Logout,
                ShellFails, OtherTab, ShellInStep
  <2>6. ShellInStep' /\ LoadsInStep'
    BY <2>2, <2>5 DEF ShellInStep, LoadsInStep
  <2>7. ~foreign' => /\ ~foreign
                     /\ shell' \in {"loaded", "answer"} => who' = cookie'
                     /\ session # None => cookie' \in {session, None}
    BY <1>3 DEF Shell, ReadSession, TakeSession, ConnectWallet, Verify, SignOut, Logout,
                ShellFails, OtherTab, ShellInStep, CookieInStep
  <2>8. CookieInStep' /\ SessionsKeepApart'
    BY <2>2, <2>7 DEF CookieInStep, SessionsKeepApart, ProfileOfTheSession,
                      PreferencesStayWithWallet
  <2>9. QED
    BY <2>4, <2>6, <2>8
<1>4. QED
  BY <1>1, <1>2, <1>3

\* The server answers a load with what is the wallet's by the cookie it was sent with.
LEMMA LoadServed ==
  ASSUME PortalInv, NEW l \in Loads, ServeLoad(l) \/ LoadFails(l)
  PROVE  /\ load[l] = "sent" /\ load' \in [Loads -> {"idle", "sent", "served", "done"}]
         /\ \A k \in Loads : load'[k] = (IF k = l THEN "served" ELSE load[k])
         /\ got' \in [Loads -> Snapshot \cup {None}]
         /\ \A k \in Loads \ {l} : got'[k] = got[k]
         /\ got'[l] # None /\ got'[l].for = for[l] /\ got'[l].as = as[l]
         /\ got'[l].queue \subseteq queue
         /\ ~foreign => got'[l].name \in {for[l], None}
         /\ UNCHANGED <<page, cookie, names, queue, shell, who, session, loading, snapshot,
                        active, for, as, alone, draft, saving, preferences, preferencesFor,
                        stored, workingId, decide, item, by, ok, decided, foreign, disturbed>>
         /\ faults' \in Nat
<1> USE DEF PortalInv
<1>1. load[l] = "sent" /\ for[l] \in Wallets /\ as[l] \in Wallets \cup {None}
  <2>1. load[l] = "sent"
    BY DEF ServeLoad, LoadFails
  <2>2. QED
    BY <2>1 DEF LoadsInStep, SessionTypes, LoadTypes, FormTypes, DecisionTypes
<1>2. PICK name \in Wallets \cup {None}, open \in SUBSET Items :
        /\ got' = [got EXCEPT ![l] =
             [for |-> for[l], as |-> as[l], name |-> name, queue |-> open]]
        /\ open \subseteq queue
        /\ ~foreign => name \in {for[l], None}
  <2>1. CASE ServeLoad(l)
    <3> DEFINE name == IF as[l] = None THEN None ELSE names[as[l]]
               open == IF as[l] \in Reviewers THEN queue ELSE {}
    <3>1. name \in Wallets \cup {None} /\ open \in SUBSET Items /\ open \subseteq queue
      BY <1>1 DEF SessionTypes, LoadTypes, FormTypes, DecisionTypes
    <3>2. ~foreign => name \in {for[l], None}
      BY <1>1 DEF CookieInStep
    <3>3. got' = [got EXCEPT ![l] =
             [for |-> for[l], as |-> as[l], name |-> name, queue |-> open]]
      BY <2>1 DEF ServeLoad
    <3> HIDE DEF name, open
    <3>4. QED
      BY <3>1, <3>2, <3>3
  <2>2. CASE LoadFails(l)
    <3>1. None \in Wallets \cup {None} /\ {} \in SUBSET Items /\ {} \subseteq queue
      OBVIOUS
    <3>2. got' = [got EXCEPT ![l] =
             [for |-> for[l], as |-> as[l], name |-> None, queue |-> {}]]
      BY <2>2 DEF LoadFails
    <3>3. QED
      BY <3>1, <3>2
  <2>3. QED
    BY <2>1, <2>2
<1> DEFINE answer == [for |-> for[l], as |-> as[l], name |-> name, queue |-> open]
<1>3. /\ answer \in Snapshot /\ answer.for = for[l] /\ answer.as = as[l]
      /\ answer.name = name /\ answer.queue = open
  BY <1>1 DEF Snapshot
<1>4. got' = [got EXCEPT ![l] = answer]
  BY <1>2
<1> HIDE DEF answer
<1>5. got'[l] = answer /\ (\A k \in Loads \ {l} : got'[k] = got[k])
      /\ got' \in [Loads -> Snapshot \cup {None}]
  BY <1>3, <1>4 DEF SessionTypes, LoadTypes, FormTypes, DecisionTypes
<1>6. answer # None
  BY <1>3
<1>7. UNCHANGED <<page, cookie, names, queue, shell, who, session, loading, snapshot,
                  active, for, as, alone, draft, saving, preferences, preferencesFor,
                  stored, workingId, decide, item, by, ok, decided, foreign, disturbed>>
  BY DEF ServeLoad, LoadFails, server, shellVars, profileVars, adminVars
<1>8. load' = [load EXCEPT ![l] = "served"] /\ (faults' = faults \/ faults' = faults + 1)
  BY DEF ServeLoad, LoadFails, Fault
<1>9. /\ load' \in [Loads -> {"idle", "sent", "served", "done"}] /\ faults' \in Nat
      /\ \A k \in Loads : load'[k] = (IF k = l THEN "served" ELSE load[k])
  BY <1>8 DEF SessionTypes, LoadTypes, FormTypes, DecisionTypes
<1>10. QED
  BY <1>1, <1>2, <1>3, <1>5, <1>6, <1>7, <1>9

\* An answer is shown on the profile page only if it is that of the active load.
LEMMA LoadStep ==
  ASSUME PortalInv, NEW l \in Loads, ServeLoad(l) \/ LoadFails(l) \/ DeliverLoad(l)
  PROVE  PortalInv'
<1> USE DEF PortalInv
<1>1. CASE ServeLoad(l) \/ LoadFails(l)
  <2>1. /\ load[l] = "sent" /\ load' \in [Loads -> {"idle", "sent", "served", "done"}]
        /\ \A k \in Loads : load'[k] = (IF k = l THEN "served" ELSE load[k])
        /\ got' \in [Loads -> Snapshot \cup {None}]
        /\ \A k \in Loads \ {l} : got'[k] = got[k]
        /\ got'[l] # None /\ got'[l].for = for[l] /\ got'[l].as = as[l]
        /\ ~foreign => got'[l].name \in {for[l], None}
        /\ UNCHANGED <<page, cookie, names, queue, shell, who, session, loading, snapshot,
                       active, for, as, alone, draft, saving, preferences, preferencesFor,
                       stored, workingId, decide, item, by, ok, decided, foreign, disturbed>>
        /\ faults' \in Nat
    BY <1>1, LoadServed
  <2>2. TypeOK'
    <3>1. SessionTypes'
      BY <2>1 DEF SessionTypes
    <3>2. LoadTypes'
      BY <2>1 DEF LoadTypes
    <3>3. FormTypes'
      BY <2>1 DEF FormTypes
    <3>4. DecisionTypes'
      BY <2>1 DEF DecisionTypes
    <3>5. QED
      BY <3>1, <3>2, <3>3, <3>4
  <2>3. ShellInStep' /\ SessionsKeepApart'
    BY <2>1 DEF ShellInStep, SessionsKeepApart, ProfileOfTheSession,
                PreferencesStayWithWallet
  <2>4. LoadsInStep'
    <3>1. \A k \in Loads :
            /\ load'[k] # "idle" => for'[k] # None
            /\ load'[k] = "served" => got'[k] # None /\ got'[k].for = for'[k] /\ got'[k].as = as'[k]
      BY <2>1 DEF LoadsInStep
    <3>2. QED
      BY <2>1, <3>1 DEF LoadsInStep
  <2>5. CookieInStep'
    BY <2>1 DEF CookieInStep
  <2>6. QED
    BY <2>2, <2>3, <2>4, <2>5
<1>2. CASE DeliverLoad(l)
  <2>1. /\ load[l] = "served" /\ load' = [load EXCEPT ![l] = "done"]
        /\ UNCHANGED <<page, cookie, names, queue, shell, who, session, active, for, as, got,
                       alone, saving, preferences, preferencesFor, stored, workingId, decide,
                       item, by, ok, decided, faults, foreign>>
    BY <1>2 DEF DeliverLoad, server, shellVars, adminVars
  <2>2. got[l] # None /\ got[l].for = for[l] /\ got[l].as = as[l]
    BY <2>1 DEF LoadsInStep
  <2>3. got[l] \in Snapshot
    BY <2>2 DEF SessionTypes, LoadTypes, FormTypes, DecisionTypes
  <2>4. got[l].name \in Wallets \cup {None}
    BY <2>3 DEF Snapshot
  <2>5. \/ /\ snapshot' = got[l] /\ (page = "profile" => active = l)
           /\ draft' = (IF page = "profile" THEN got[l].name ELSE draft)
           /\ loading' \in BOOLEAN /\ disturbed' \in BOOLEAN
        \/ UNCHANGED <<snapshot, draft, loading, disturbed>>
    BY <1>2 DEF DeliverLoad, Shown
  <2>6. /\ load' \in [Loads -> {"idle", "sent", "served", "done"}]
        /\ \A k \in Loads : load'[k] = (IF k = l THEN "done" ELSE load[k])
    BY <2>1 DEF SessionTypes, LoadTypes, FormTypes, DecisionTypes
  <2>7. /\ snapshot' \in Snapshot \cup {None} /\ draft' \in Wallets \cup {None}
        /\ loading' \in BOOLEAN /\ disturbed' \in BOOLEAN
    BY <2>3, <2>4, <2>5 DEF SessionTypes, LoadTypes, FormTypes, DecisionTypes
  <2>8. TypeOK'
    <3>1. SessionTypes'
      BY <2>1, <2>6, <2>7 DEF SessionTypes
    <3>2. LoadTypes'
      BY <2>1, <2>6, <2>7 DEF LoadTypes
    <3>3. FormTypes'
      BY <2>1, <2>6, <2>7 DEF FormTypes
    <3>4. DecisionTypes'
      BY <2>1, <2>6, <2>7 DEF DecisionTypes
    <3>5. QED
      BY <3>1, <3>2, <3>3, <3>4
  <2>9. ShellInStep' /\ CookieInStep'
    BY <2>1, <2>6 DEF ShellInStep, CookieInStep
  <2>10. \/ page = "profile" /\ UNCHANGED <<snapshot, draft>>
         \/ page # "profile"
         \/ page = "profile" /\ active = l /\ snapshot' = got[l] /\ draft' = got[l].name
    BY <2>5
  <2>11. active = l /\ page = "profile" =>
           /\ session # None /\ for[l] = session
           /\ ~foreign => as[l] \in {session, None} /\ got[l].name \in {session, None}
    BY <2>1 DEF LoadsInStep, CookieInStep
  <2>12. LoadsInStep'
    BY <2>1, <2>2, <2>6, <2>10, <2>11 DEF LoadsInStep
  <2>13. SessionsKeepApart'
    BY <2>1, <2>2, <2>10, <2>11
    DEF SessionsKeepApart, ProfileOfTheSession, PreferencesStayWithWallet
  <2>14. QED
    BY <2>8, <2>9, <2>12, <2>13
<1>3. QED
  BY <1>1, <1>2

\* What the profile form does stays with the wallet that is signed in.
LEMMA FormStep ==
  ASSUME PortalInv, Edit \/ Choose \/ SaveProfile
  PROVE  PortalInv'
<1> USE DEF PortalInv
<1>1. /\ page = "profile" /\ session # None /\ snapshot # None
      /\ ~foreign => draft \in {session, None} /\ cookie \in {session, None}
  BY DEF Edit, Choose, SaveProfile, Form, SessionsKeepApart, ProfileOfTheSession, CookieInStep
<1>2. UNCHANGED <<page, cookie, names, queue, shell, who, session, loading, snapshot, active,
                  load, for, as, got, alone, preferencesFor, workingId, decide, item, by, ok,
                  decided, faults, foreign, disturbed>>
  BY DEF Edit, Choose, SaveProfile, server, shellVars, loadVars, adminVars
<1>3. draft' \in {draft, session} /\ preferences' \in {preferences, session}
  BY DEF Edit, Choose, SaveProfile
<1>4. \/ UNCHANGED stored
      \/ preferencesFor = session /\ stored' = [stored EXCEPT ![session] = session]
  BY <1>1 DEF Edit, Choose, SaveProfile, FormTypes
<1>5. \/ UNCHANGED saving
      \/ saving' = [as |-> cookie, text |-> draft]
  BY DEF Edit, Choose, SaveProfile
<1>6. stored' \in [Wallets -> Preferences \cup {None}] /\ PreferencesStayWithWallet'
  BY <1>1, <1>4 DEF FormTypes, SessionTypes, Preferences, SessionsKeepApart,
                    PreferencesStayWithWallet
<1>7. saving' \in Saved \cup {None}
  BY <1>5 DEF FormTypes, SessionTypes, Saved
<1>8. TypeOK'
  <2>1. SessionTypes'
    BY <1>2 DEF SessionTypes
  <2>2. LoadTypes'
    BY <1>2 DEF LoadTypes
  <2>3. FormTypes'
    BY <1>1, <1>2, <1>3, <1>6, <1>7 DEF FormTypes, SessionTypes, Preferences
  <2>4. DecisionTypes'
    BY <1>2 DEF DecisionTypes
  <2>5. QED
    BY <2>1, <2>2, <2>3, <2>4
<1>9. ShellInStep' /\ LoadsInStep'
  BY <1>1, <1>2 DEF ShellInStep, LoadsInStep
<1>10. ~foreign /\ saving' # None => saving'.as = None \/ saving'.text \in {saving'.as, None}
  BY <1>1, <1>5 DEF CookieInStep
<1>11. CookieInStep'
  BY <1>2, <1>10 DEF CookieInStep
<1>12. SessionsKeepApart'
  BY <1>1, <1>2, <1>3, <1>6 DEF SessionsKeepApart, ProfileOfTheSession
<1>13. QED
  BY <1>8, <1>9, <1>11, <1>12

\* A reload for the session there is, whatever else the step does to other variables.
LEMMA ReloadStep ==
  ASSUME PortalInv, Reload(session) \/ (session # None /\ StartLoad(session)),
         UNCHANGED <<page, cookie, queue, shell, who, session, snapshot, draft, preferences,
                     preferencesFor, stored, foreign, disturbed>>
  PROVE  LoadTypes' /\ LoadsInStep'
         /\ (~foreign => \A l \in Loads :
               /\ load'[l] # "idle" => as'[l] \in {for'[l], None}
               /\ load'[l] = "served" => got'[l].name \in {for'[l], None})
<1> USE DEF PortalInv
<1>1. session \in Wallets \cup {None}
  BY DEF SessionTypes
<1>2. ~foreign /\ session # None => cookie \in {session, None}
  BY DEF CookieInStep
<1> DEFINE Loaded ==
        /\ load' \in [Loads -> {"idle", "sent", "served", "done"}]
        /\ for' \in [Loads -> Wallets \cup {None}] /\ as' \in [Loads -> Wallets \cup {None}]
        /\ loading' \in BOOLEAN /\ active' \in Loads \cup {None}
        /\ alone' \subseteq Loads /\ got' = got
        /\ \A l \in Loads :
             /\ load'[l] # "idle" => for'[l] # None
             /\ load'[l] = "served" => load[l] = "served" /\ for'[l] = for[l] /\ as'[l] = as[l]
             /\ ~foreign /\ load'[l] # "idle" => as'[l] \in {for'[l], None}
        /\ page = "profile" /\ active' # None => for'[active'] = session'
        /\ page = "profile" /\ session' = None => active' = None
<1>3. Loaded
  BY <1>1, <1>2, ReloadInStep
<1>4. LoadTypes'
  BY <1>3 DEF LoadTypes
<1>5. LoadsInStep'
  BY <1>3 DEF LoadsInStep
<1>6. QED
  BY <1>3, <1>4, <1>5 DEF CookieInStep

\* A save writes a name only to the wallet that typed it; then, and on request, the
\* page reloads.
LEMMA SaveStep ==
  ASSUME PortalInv, SaveDone \/ Refresh
  PROVE  PortalInv'
<1> USE DEF PortalInv
<1>1. UNCHANGED <<page, cookie, queue, shell, who, session, snapshot, draft, preferences,
                  preferencesFor, stored, workingId, decide, item, by, ok, decided, foreign,
                  disturbed>>
  BY DEF SaveDone, Refresh, server, shellVars, profileVars, adminVars
<1>2. /\ \/ saving' = saving /\ UNCHANGED names
         \/ /\ saving' = None /\ saving # None
            /\ \/ UNCHANGED names
               \/ /\ None \notin {saving.as, saving.text}
                  /\ names' = [names EXCEPT ![saving.as] = saving.text]
      /\ faults' = faults \/ faults' = faults + 1
  <2>1. CASE Refresh
    BY <2>1 DEF Refresh, server, profileVars
  <2>2. CASE SaveDone
    BY <2>2 DEF SaveDone, Fault
  <2>3. QED
    BY <2>1, <2>2
<1>3. /\ names' \in [Wallets -> Wallets \cup {None}] /\ saving' \in Saved \cup {None}
      /\ ~foreign => \A w \in Wallets : names'[w] \in {w, None}
  BY <1>2 DEF FormTypes, Saved, CookieInStep
<1>4. \/ UNCHANGED <<loadVars, active, loading>>
      \/ Reload(session) \/ (session # None /\ StartLoad(session))
  <2>1. Reload(None) => UNCHANGED <<loadVars, active, loading>>
    BY DEF Reload
  <2>2. QED
    BY <2>1 DEF SaveDone, Refresh
<1> DEFINE Named == ~foreign => \A l \in Loads :
             /\ load'[l] # "idle" => as'[l] \in {for'[l], None}
             /\ load'[l] = "served" => got'[l].name \in {for'[l], None}
<1>5. LoadTypes' /\ LoadsInStep' /\ Named
  <2>1. CASE UNCHANGED <<loadVars, active, loading>>
    BY <1>1, <2>1 DEF loadVars, LoadTypes, LoadsInStep, CookieInStep
  <2>2. CASE Reload(session) \/ (session # None /\ StartLoad(session))
    BY <1>1, <2>2, ReloadStep
  <2>3. QED
    BY <1>4, <2>1, <2>2
<1>6. faults' \in Nat
  BY <1>2 DEF SessionTypes
<1>7. TypeOK'
  <2>1. SessionTypes'
    BY <1>1, <1>6 DEF SessionTypes
  <2>2. FormTypes'
    BY <1>1, <1>3 DEF FormTypes
  <2>3. DecisionTypes'
    BY <1>1 DEF DecisionTypes
  <2>4. QED
    BY <1>5, <2>1, <2>2, <2>3
<1>8. ShellInStep'
  BY <1>1, <1>2 DEF ShellInStep
<1>9. CookieInStep'
  BY <1>1, <1>2, <1>3, <1>5 DEF CookieInStep
<1>10. SessionsKeepApart'
  BY <1>1 DEF SessionsKeepApart, ProfileOfTheSession, PreferencesStayWithWallet
<1>11. QED
  BY <1>5, <1>7, <1>8, <1>9, <1>10

\* Decisions are the administration page's, and leave the profile page alone.
LEMMA DecisionStep ==
  ASSUME PortalInv, NEW d \in Decides,
         ServeDecision(d) \/ DecisionDone(d) \/ \E i \in Items : Decide(d, i)
  PROVE  PortalInv'
<1> USE DEF PortalInv
<1>1. /\ UNCHANGED <<page, cookie, names, shell, who, session, snapshot, draft, saving,
                     preferences, preferencesFor, stored, foreign, disturbed>>
      /\ page = "admin" /\ queue' \subseteq queue
  <2>1. page = "admin"
    BY DEF ServeDecision, DecisionDone, Decide, ShellInStep
  <2>2. QED
    BY <2>1 DEF ServeDecision, DecisionDone, Decide, server, shellVars, profileVars
<1>2. LoadTypes' /\ LoadsInStep'
      /\ (~foreign => \A l \in Loads :
            /\ load'[l] # "idle" => as'[l] \in {for'[l], None}
            /\ load'[l] = "served" => got'[l].name \in {for'[l], None})
  <2>1. CASE UNCHANGED <<load, for, as, got, active, loading>> /\ alone' \subseteq Loads
    BY <1>1, <2>1 DEF LoadTypes, LoadsInStep, CookieInStep
  <2>2. CASE DecisionDone(d)
    <3>1. UNCHANGED queue /\ (Reload(session) \/ UNCHANGED <<loadVars, active, loading>>)
      BY <2>2 DEF DecisionDone, server
    <3>2. CASE Reload(session)
      BY <1>1, <3>1, <3>2, ReloadStep
    <3>3. CASE UNCHANGED <<loadVars, active, loading>>
      BY <2>1, <3>3 DEF loadVars, LoadTypes
    <3>4. QED
      BY <3>1, <3>2, <3>3
  <2>3. QED
    BY <2>1, <2>2 DEF ServeDecision, Decide, loadVars, LoadTypes
<1>3. TypeOK'
  <2>1. SessionTypes'
    <3>1. faults' = faults \/ faults' = faults + 1
      BY DEF ServeDecision, DecisionDone, Decide, Fault
    <3>2. QED
      BY <1>1, <3>1 DEF SessionTypes
  <2>2. FormTypes'
    BY <1>1 DEF FormTypes
  <2>3. /\ decide' \in [Decides -> {"idle", "sent", "served", "done"}]
        /\ \A e \in Decides \ {d} : decide'[e] = decide[e] /\ item'[e] = item[e]
        /\ decide'[d] # "idle" => item'[d] \in Items
    BY DEF ServeDecision, DecisionDone, Decide, DecisionTypes, ShellInStep
  <2>4. workingId' \in Items \cup {None} /\ item' \in [Decides -> Items \cup {None}]
    <3>1. \/ UNCHANGED <<workingId, item>>
          \/ workingId' = None /\ UNCHANGED item
          \/ \E i \in Items : workingId' = i /\ item' = [item EXCEPT ![d] = i]
      BY DEF ServeDecision, DecisionDone, Decide
    <3>2. QED
      BY <3>1 DEF DecisionTypes
  <2>5. by' \in [Decides -> Wallets \cup {None}]
    BY DEF ServeDecision, DecisionDone, Decide, DecisionTypes, SessionTypes
  <2>6. ok' \in [Decides -> BOOLEAN]
    BY DEF ServeDecision, DecisionDone, Decide, DecisionTypes
  <2>7. decided' \subseteq Items
    BY DEF ServeDecision, DecisionDone, Decide, DecisionTypes, ShellInStep
  <2>8. DecisionTypes'
    BY <1>1, <2>3, <2>4, <2>5, <2>6, <2>7 DEF DecisionTypes
  <2>9. QED
    BY <1>2, <2>1, <2>2, <2>8
<1>4. ShellInStep'
  <2>1. /\ \A e \in Decides \ {d} : decide'[e] = decide[e] /\ item'[e] = item[e]
        /\ decide'[d] # "idle" => item'[d] \in Items
    BY DEF ServeDecision, DecisionDone, Decide, DecisionTypes, ShellInStep
  <2>2. QED
    BY <1>1, <2>1 DEF ShellInStep
<1>5. CookieInStep'
  BY <1>1, <1>2 DEF CookieInStep
<1>6. SessionsKeepApart'
  BY <1>1 DEF SessionsKeepApart, ProfileOfTheSession, PreferencesStayWithWallet
<1>7. QED
  BY <1>2, <1>3, <1>4, <1>5, <1>6

\* Every step keeps the sessions apart.
LEMMA PortalStep ==
  ASSUME PortalInv, [Next]_vars
  PROVE  PortalInv'
<1>1. CASE UNCHANGED vars
  <2>1. UNCHANGED <<page, cookie, names, queue, stored, shell, who, session, loading, snapshot,
                    active, load, for, as, got, alone, draft, saving, preferences,
                    preferencesFor, workingId, decide, item, by, ok, decided, faults, foreign,
                    disturbed>>
    BY <1>1 DEF vars, server, shellVars, loadVars, profileVars, adminVars
  <2>2. SessionTypes' /\ LoadTypes'
    BY <2>1 DEF PortalInv, SessionTypes, LoadTypes
  <2>3. FormTypes' /\ DecisionTypes'
    BY <2>1 DEF PortalInv, FormTypes, DecisionTypes
  <2>4. ShellInStep' /\ LoadsInStep' /\ CookieInStep'
    BY <2>1 DEF PortalInv, ShellInStep, LoadsInStep, CookieInStep
  <2>5. SessionsKeepApart'
    BY <2>1 DEF PortalInv, SessionsKeepApart, ProfileOfTheSession, PreferencesStayWithWallet
  <2>6. QED
    BY <2>2, <2>3, <2>4, <2>5 DEF PortalInv
<1>2. CASE Next
  BY <1>2, ShellStep, LoadStep, FormStep, SaveStep, DecisionStep DEF Next
<1>3. QED
  BY <1>1, <1>2

\* Every state of the tab satisfies the invariant.
THEOREM PortalInvariant == Spec => []PortalInv
<1>1. Init => PortalInv
  <2>1. Init => SessionTypes /\ LoadTypes
    <3>1. Init => SessionTypes
      <4> SUFFICES ASSUME Init PROVE SessionTypes
        OBVIOUS
      <4>1. foreign \in BOOLEAN /\ disturbed \in BOOLEAN /\ faults \in Nat
        BY DEF Init
      <4>2. QED
        BY <4>1 DEF Init, SessionTypes
    <3>2. Init => LoadTypes
      BY DEF Init, LoadTypes
    <3>3. QED
      BY <3>1, <3>2
  <2>2. Init => FormTypes /\ DecisionTypes
    BY DEF Init, FormTypes, DecisionTypes, Preferences
  <2>3. Init => ShellInStep /\ LoadsInStep /\ CookieInStep /\ SessionsKeepApart
    BY DEF Init, ShellInStep, LoadsInStep, CookieInStep, SessionsKeepApart,
           ProfileOfTheSession, PreferencesStayWithWallet
  <2>4. QED
    BY <2>1, <2>2, <2>3 DEF PortalInv
<1>2. QED
  BY <1>1, PortalStep, PTL DEF Spec

\* Every variable keeps its type.
THEOREM PortalTypeCorrect == Spec => []TypeOK
BY PortalInvariant, PTL DEF PortalInv

\* The profile page and the stored preferences keep the wallets' sessions apart.
THEOREM SessionsStayApart == Spec => []SessionsKeepApart
BY PortalInvariant, PTL DEF PortalInv

-----------------------------------------------------------------------------
(* The administration page once everything has been answered.               *)

Started == \E s \in Wallets : StartLoad(s)

\* After a load has started, it is in flight; if it overlaps nothing, nothing else is.
LEMMA StartedAlone ==
  ASSUME TypeOK, Started
  PROVE  /\ \E l \in Loads : InFlight(l)'
         /\ \A l \in alone' :
              /\ load'[l] = "sent" /\ alone' = {l}
              /\ \A k \in Loads \ {l} : ~(InFlight(k)')
              /\ \A d \in Decides : ~(Pending(d)')
<1>1. PICK s \in Wallets : StartLoad(s)
  BY DEF Started
<1>2. PICK l \in Loads :
        /\ load[l] = "idle" /\ load' = [load EXCEPT ![l] = "sent"]
        /\ alone' \subseteq {l}
        /\ l \in alone' => (\A k \in Loads : ~InFlight(k)) /\ \A d \in Decides : ~(Pending(d)')
  BY <1>1, LoadStarts
<1>3. load'[l] = "sent" /\ \A k \in Loads \ {l} : load'[k] = load[k]
  BY <1>2 DEF LoadTypes
<1>4. QED
  BY <1>2, <1>3 DEF InFlight

\* The shell and the profile form decide nothing; on the administration page they
\* start a load whenever a reviewer becomes the session.
LEMMA QuietStep ==
  ASSUME PortalInv,
         Shell \/ Edit \/ Choose \/ SaveProfile \/ SaveDone \/ Refresh \/ UNCHANGED vars
  PROVE  /\ UNCHANGED <<page, queue, decided, workingId, decide, item, ok, disturbed>>
         /\ Started \/ UNCHANGED <<load, got, alone>>
         /\ page = "admin" =>
              /\ UNCHANGED snapshot
              /\ Started \/ (UNCHANGED loading /\ (session' = session \/ session' \notin Reviewers))
<1>1. UNCHANGED <<page, queue, decided, workingId, decide, item, ok, disturbed>>
  BY DEF Shell, ReadSession, TakeSession, ConnectWallet, Verify, SignOut, Logout, SignedOut,
         ShellFails, OtherTab, Edit, Choose, SaveProfile, SaveDone, Refresh, vars, quiet, server,
         adminVars
<1>2. ASSUME NEW s \in Wallets \cup {None}, Reload(s)
      PROVE  Started \/ (UNCHANGED <<loadVars, loading>> /\ (page = "admin" => s \notin Reviewers))
  BY <1>2 DEF Reload, Started
<1> DEFINE Rest == /\ Started \/ UNCHANGED <<load, got, alone>>
                   /\ page = "admin" =>
                        /\ UNCHANGED snapshot
                        /\ \/ Started
                           \/ UNCHANGED loading /\ (session' = session \/ session' \notin Reviewers)
<1>3. ASSUME NEW s \in Wallets \cup {None}, SetSession(s)
      PROVE  Rest
  <2>1. CASE page = "profile" /\ s = None
    BY <1>3, <2>1 DEF SetSession, loadVars
  <2>2. CASE ~(page = "profile" /\ s = None)
    <3>1. Reload(s) /\ session' = s /\ UNCHANGED snapshot
      BY <1>3, <2>2 DEF SetSession
    <3>2. QED
      BY <1>2, <3>1 DEF loadVars
  <2>3. QED
    BY <2>1, <2>2
<1>4. session \in Wallets \cup {None} /\ who \in Wallets \cup {None}
  BY DEF PortalInv, SessionTypes
<1>5. CASE TakeSession \/ SignedOut
  <2>1. UNCHANGED effects \/ \E s \in Wallets \cup {None} : SetSession(s)
    BY <1>4, <1>5 DEF TakeSession, SignedOut
  <2>2. UNCHANGED effects => Rest
    BY DEF effects, loadVars
  <2> HIDE DEF Rest
  <2>3. QED
    BY <1>1, <1>3, <2>1, <2>2 DEF Rest
<1>6. CASE Shell /\ ~TakeSession /\ ~SignedOut
  <2>1. UNCHANGED effects
    BY <1>6 DEF Shell, ReadSession, ConnectWallet, Verify, SignOut, Logout, ShellFails, OtherTab
  <2>2. QED
    BY <1>1, <2>1 DEF effects, loadVars
<1>7. CASE Edit \/ Choose \/ SaveProfile \/ UNCHANGED vars
  <2>1. UNCHANGED <<loadVars, loading, snapshot, session>>
    BY <1>7 DEF Edit, Choose, SaveProfile, vars, shellVars
  <2>2. QED
    BY <1>1, <2>1 DEF loadVars
<1>8. CASE SaveDone \/ Refresh
  <2>1. UNCHANGED <<snapshot, session>>
    BY <1>8 DEF SaveDone, Refresh, shellVars
  <2>2. \/ UNCHANGED <<loadVars, loading>>
        \/ \E s \in Wallets \cup {None} : Reload(s)
        \/ Started
    BY <1>4, <1>8 DEF SaveDone, Refresh, Started
  <2>3. Started \/ UNCHANGED <<loadVars, loading>>
    BY <1>2, <2>2
  <2>4. QED
    BY <1>1, <2>1, <2>3 DEF loadVars
<1>9. QED
  BY <1>5, <1>6, <1>7, <1>8

\* What was decided stays decided, and is no longer open.
LEMMA DecidedStep ==
  ASSUME PortalInv, DecidedInStep, [Next]_vars
  PROVE  DecidedInStep'
<1>1. CASE UNCHANGED <<queue, decided, decide, item, ok>>
  BY <1>1 DEF DecidedInStep
<1>2. ASSUME NEW d \in Decides, NEW i \in Items, Decide(d, i) PROVE DecidedInStep'
  <2>1. /\ UNCHANGED <<queue, decided, ok>> /\ decide[d] = "idle"
        /\ \A e \in Decides \ {d} : decide'[e] = decide[e] /\ item'[e] = item[e]
    BY <1>2 DEF Decide, server, PortalInv, DecisionTypes
  <2>2. QED
    BY <2>1 DEF DecidedInStep
<1>3. ASSUME NEW d \in Decides, ServeDecision(d) PROVE DecidedInStep'
  <2>1. /\ UNCHANGED <<decided, item>> /\ decide[d] = "sent" /\ decide'[d] = "served"
        /\ \A e \in Decides \ {d} : decide'[e] = decide[e] /\ ok'[e] = ok[e]
        /\ queue' \subseteq queue
        /\ ok'[d] => ok[d] \/ item[d] \notin queue'
    BY <1>3 DEF ServeDecision, PortalInv, DecisionTypes
  <2>2. QED
    BY <2>1 DEF DecidedInStep
<1>4. ASSUME NEW d \in Decides, DecisionDone(d) PROVE DecidedInStep'
  <2>1. /\ UNCHANGED <<queue, item, ok>>
        /\ \A e \in Decides : decide'[e] \in {"idle", "sent"} => decide'[e] = decide[e]
        /\ decided' \subseteq decided \cup {item[e] : e \in {e \in Decides : ok[e]}}
    BY <1>4 DEF DecisionDone, server, PortalInv, DecisionTypes
  <2>2. QED
    BY <2>1 DEF DecidedInStep
<1>5. CASE UNCHANGED vars
  BY <1>1, <1>5 DEF vars, server, adminVars
<1>6. CASE Shell \/ Edit \/ Choose \/ SaveProfile \/ SaveDone \/ Refresh
  BY <1>1, <1>6, QuietStep
<1>7. ASSUME NEW l \in Loads, ServeLoad(l) \/ DeliverLoad(l) \/ LoadFails(l)
      PROVE  UNCHANGED <<queue, decided, decide, item, ok>>
  BY <1>7 DEF ServeLoad, DeliverLoad, LoadFails, server, adminVars
<1>8. QED
  BY <1>1, <1>2, <1>3, <1>4, <1>5, <1>6, <1>7 DEF Next

\* A load that overlapped nothing is answered with what is open after all that the
\* page was told it decided.
LEMMA AloneStep ==
  ASSUME PortalInv, DecidedInStep, AloneInStep, [Next]_vars
  PROVE  AloneInStep'
<1>1. CASE Started
  <2>1. \A l \in alone' :
          /\ load'[l] = "sent" /\ alone' = {l}
          /\ \A k \in Loads \ {l} : ~(InFlight(k)')
          /\ \A d \in Decides : ~(Pending(d)')
    BY <1>1, StartedAlone DEF PortalInv
  <2>2. QED
    BY <2>1 DEF AloneInStep, InFlight, Pending
<1>2. CASE alone' = {}
  BY <1>2 DEF AloneInStep
<1>3. CASE UNCHANGED <<load, got, alone, decide, decided>>
  BY <1>3 DEF AloneInStep, InFlight, Pending
<1>4. CASE Shell \/ Edit \/ Choose \/ SaveProfile \/ SaveDone \/ Refresh \/ UNCHANGED vars
  BY <1>1, <1>3, <1>4, QuietStep
<1>5. ASSUME NEW l \in Loads, ServeLoad(l) \/ LoadFails(l) PROVE AloneInStep'
  <2>1. /\ \A k \in Loads : load'[k] = (IF k = l THEN "served" ELSE load[k])
        /\ load[l] = "sent" /\ UNCHANGED <<alone, decide, decided>>
        /\ \A k \in Loads \ {l} : got'[k] = got[k]
        /\ got'[l].queue \subseteq queue
    BY <1>5, LoadServed
  <2>2. got'[l].queue \cap decided = {}
    BY <2>1 DEF DecidedInStep
  <2>3. alone \subseteq Loads
    BY DEF PortalInv, LoadTypes
  <2>4. QED
    BY <2>1, <2>2, <2>3 DEF AloneInStep, InFlight, Pending
<1>6. ASSUME NEW l \in Loads, DeliverLoad(l) PROVE AloneInStep'
  <2>1. /\ load'[l] = "done" /\ \A k \in Loads \ {l} : load'[k] = load[k]
        /\ UNCHANGED <<got, alone, decide, decided>>
    BY <1>6 DEF DeliverLoad, adminVars, PortalInv, LoadTypes
  <2>2. alone \subseteq Loads
    BY DEF PortalInv, LoadTypes
  <2>3. QED
    BY <2>1, <2>2 DEF AloneInStep, InFlight, Pending
<1>7. ASSUME NEW d \in Decides, ServeDecision(d) \/ DecisionDone(d) \/ \E i \in Items : Decide(d, i)
      PROVE  AloneInStep'
  <2>1. CASE \E i \in Items : Decide(d, i)
    BY <1>2, <2>1 DEF Decide
  <2>2. CASE ServeDecision(d) \/ DecisionDone(d)
    <3>1. Pending(d)
      BY <2>2 DEF ServeDecision, DecisionDone, Pending
    <3>2. alone = {}
      BY <3>1 DEF AloneInStep
    <3>3. Started \/ UNCHANGED alone
      <4>1. session \in Wallets \cup {None}
        BY DEF PortalInv, SessionTypes
      <4>2. QED
        BY <2>2, <4>1 DEF ServeDecision, DecisionDone, Reload, Started, loadVars
    <3>4. QED
      BY <1>1, <1>2, <3>2, <3>3
  <2>3. QED
    BY <1>7, <2>1, <2>2
<1>8. QED
  BY <1>4, <1>5, <1>6, <1>7 DEF Next

\* The controls are released by what took them; what the page was told it decided is
\* gone, or a load is under way.
LEMMA ControlsStep ==
  ASSUME PortalInv, DecidedInStep, AloneInStep, ControlsInStep, [Next]_vars
  PROVE  ControlsInStep'
<1> DEFINE Waiting == \E l \in Loads : InFlight(l)
           Fresh == snapshot # None => snapshot.queue \cap decided = {}
<1> SUFFICES ASSUME page' = "admin"
             PROVE  /\ loading' => Waiting'
                    /\ workingId' # None => \E d \in Decides : Pending(d)'
                    /\ session' \in Reviewers /\ ~disturbed' => Fresh' \/ Waiting'
  BY DEF ControlsInStep
<1>1. page = "admin"
  BY DEF Next, Shell, ReadSession, TakeSession, ConnectWallet, Verify, SignOut, Logout, SignedOut,
         ShellFails, OtherTab, ServeLoad, DeliverLoad, LoadFails, Edit, Choose, SaveProfile,
         SaveDone, Refresh, ServeDecision, DecisionDone, Decide, vars, quiet
<1>2. /\ loading => Waiting
      /\ workingId # None => \E d \in Decides : Pending(d)
      /\ session \in Reviewers /\ ~disturbed => Fresh \/ Waiting
  BY <1>1 DEF ControlsInStep
<1>3. Started => Waiting'
  BY StartedAlone DEF PortalInv
<1>4. CASE Shell \/ Edit \/ Choose \/ SaveProfile \/ SaveDone \/ Refresh \/ UNCHANGED vars
  <2>1. /\ UNCHANGED <<decided, workingId, decide, disturbed, snapshot>>
        /\ Started \/ UNCHANGED load
        /\ Started \/ (UNCHANGED loading /\ (session' = session \/ session' \notin Reviewers))
    BY <1>1, <1>4, QuietStep
  <2>2. \A d \in Decides : Pending(d)' <=> Pending(d)
    BY <2>1 DEF Pending
  <2>3. UNCHANGED load => (Waiting' <=> Waiting)
    BY DEF InFlight
  <2> HIDE DEF Waiting
  <2>4. QED
    BY <1>2, <1>3, <2>1, <2>2, <2>3
<1>5. ASSUME NEW l \in Loads, ServeLoad(l) \/ LoadFails(l)
      PROVE  ControlsInStep'
  <2>1. /\ \A k \in Loads : load'[k] = (IF k = l THEN "served" ELSE load[k])
        /\ UNCHANGED <<session, loading, snapshot, workingId, decide, decided, disturbed>>
    BY <1>5, LoadServed
  <2>2. InFlight(l)'
    BY <2>1 DEF InFlight
  <2>3. \A d \in Decides : Pending(d)' <=> Pending(d)
    BY <2>1 DEF Pending
  <2>4. QED
    BY <1>2, <2>1, <2>2, <2>3 DEF ControlsInStep
<1>6. ASSUME NEW l \in Loads, DeliverLoad(l)
      PROVE  ControlsInStep'
  <2>1. /\ load[l] = "served" /\ snapshot' = got[l] /\ loading' = FALSE
        /\ disturbed' = (l \notin alone)
        /\ UNCHANGED <<workingId, decide, decided>>
    BY <1>1, <1>6 DEF DeliverLoad, Shown, adminVars
  <2>2. ~disturbed' => snapshot'.queue \cap decided' = {}
    BY <2>1 DEF AloneInStep
  <2>3. \A d \in Decides : Pending(d)' <=> Pending(d)
    BY <2>1 DEF Pending
  <2>4. QED
    BY <1>2, <2>1, <2>2, <2>3 DEF ControlsInStep
<1>7. ASSUME NEW d \in Decides, ServeDecision(d) \/ \E i \in Items : Decide(d, i)
      PROVE  ControlsInStep'
  <2>1. UNCHANGED <<load, session, loading, snapshot, decided, disturbed>>
    BY <1>7 DEF ServeDecision, Decide, shellVars, loadVars
  <2>2. Pending(d)'
    BY <1>7 DEF ServeDecision, Decide, Pending, PortalInv, DecisionTypes
  <2>3. Waiting' <=> Waiting
    BY <2>1 DEF InFlight
  <2>4. QED
    BY <1>2, <2>1, <2>2, <2>3 DEF ControlsInStep
<1>8. ASSUME NEW d \in Decides, DecisionDone(d)
      PROVE  ControlsInStep'
  <2>1. /\ workingId' = None /\ UNCHANGED <<session, snapshot, disturbed>>
        /\ IF ok[d] THEN Reload(session) ELSE UNCHANGED <<loadVars, active, loading, decided>>
    BY <1>8 DEF DecisionDone, shellVars
  <2>2. \/ Started
        \/ UNCHANGED <<load, loading>> /\ (session \notin Reviewers \/ UNCHANGED decided)
    BY <2>1 DEF Reload, Started, loadVars, PortalInv, SessionTypes
  <2>3. UNCHANGED load => (Waiting' <=> Waiting)
    BY DEF InFlight
  <2>4. QED
    BY <1>2, <1>3, <2>1, <2>2, <2>3 DEF ControlsInStep
<1>9. QED
  <2> HIDE DEF Waiting, Fresh
  <2>1. CASE ControlsInStep'
    BY <2>1 DEF ControlsInStep, Waiting, Fresh
  <2>2. QED
    BY <1>4, <1>5, <1>6, <1>7, <1>8, <2>1 DEF Next

\* Every state of the tab satisfies the whole invariant.
THEOREM QueueInvariant == Spec => []QueueInv
<1>1. Init => DecidedInStep /\ AloneInStep /\ ControlsInStep
  BY DEF Init, DecidedInStep, AloneInStep, ControlsInStep
<1>2. QueueInv /\ [Next]_vars => QueueInv'
  BY PortalStep, DecidedStep, AloneStep, ControlsStep DEF QueueInv
<1>3. Init /\ PortalInv => QueueInv
  BY <1>1 DEF QueueInv
<1>4. QED
  BY <1>2, <1>3, PortalInvariant, PTL DEF Spec

\* A settled administration page offers nothing it was told it had decided, and its
\* controls are released.
THEOREM SettledQueuesAreCurrent == Spec => []SettledQueueIsCurrent
<1>1. QueueInv => SettledQueueIsCurrent
  BY DEF QueueInv, ControlsInStep, SettledQueueIsCurrent
<1>2. QED
  BY <1>1, QueueInvariant, PTL
=============================================================================

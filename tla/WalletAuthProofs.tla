-------------------------- MODULE WalletAuthProofs --------------------------
(***************************************************************************)
(* Theorems about WalletAuth, for every set of wallets, nonces and         *)
(* requests, every lifetime and every bound.                               *)
(***************************************************************************)
EXTENDS WalletAuth, TLAPS

USE DEF VerifyPC, Reply, Goto, Answer

-----------------------------------------------------------------------------
(* The inductive invariant behind the safety properties: what each program    *)
(* counter says about the tables.                                            *)

\* The challenge r names is stored, for the wallet r claims.
OwnRow(r) ==
  /\ auth_challenges[body[r].nonce] # None
  /\ auth_challenges[body[r].nonce].wallet = body[r].wallet

\* A nonce is stored at most once: not before its insert.
NotYetStored ==
  \A n \in Nonces : issuing[n].pc \in {"idle", "insert"} => auth_challenges[n] = None

OwnSignature ==
  \A r \in VerifyReqs : body[r] # None /\ body[r].own => body[r].nonce \in signed

ReadRow ==
  \A r \in VerifyReqs :
    pc[r] \in {"checkChallenge", "checkAgain"} /\ row[r] # None => OwnRow(r)

Checked ==
  \A r \in VerifyReqs :
    pc[r] \in {"selectChallenge", "checkAgain", "stamp", "markUsed"} =>
      body[r].own /\ OwnRow(r)

RedeemedRow ==
  \A r \in VerifyReqs :
    Redeemed(r) =>
      OwnRow(r) /\ body[r] # None /\ auth_challenges[body[r].nonce].used # None

ProfileHeld ==
  \A r \in VerifyReqs :
    pc[r] = "issueToken" => [id |-> profileId[r], wallet |-> body[r].wallet] \in profiles

AuthInv ==
  /\ TypeOK
  /\ NotYetStored /\ OwnSignature /\ ReadRow /\ Checked /\ RedeemedRow /\ ProfileHeld
  /\ SingleRedemption /\ TokenBacked

-----------------------------------------------------------------------------
\* Rounding a natural number of ticks down to seconds gives a natural number.
LEMMA SecondsNat ==
  ASSUME NEW t \in Nat
  PROVE  Seconds(t) \in Nat
BY TTLAssumption DEF Seconds

\* Answering a session check changes its program counter and reply only.
LEMMA SessionAnswerType ==
  ASSUME NEW x \in SessionReq, NEW code \in Reply
  PROVE  LET y == [x EXCEPT !.pc = "done", !.reply = code]
         IN  y \in SessionReq /\ y.from = x.from
BY DEF SessionReq

\* A nonce request that ends, however it ends, keeps the wallet it was made for.
LEMMA IssuingEndType ==
  ASSUME NEW x \in Issuing, NEW label \in {"ready", "failed"}
  PROVE  LET y == [x EXCEPT !.pc = label]
         IN  y \in Issuing /\ y.wallet = x.wallet
BY DEF Issuing

\* Every step of a handler, of the clock or of a restart keeps the types.
LEMMA TypeStep == TypeOK /\ [Next]_vars => TypeOK'
<1> SUFFICES ASSUME TypeOK, [Next]_vars
             PROVE  TypeOK'
  OBVIOUS
<1> USE NoneAssumption, TTLAssumption, BoundAssumption
<1>1. ASSUME NEW n \in Nonces, IssueStart(n)
      PROVE  TypeOK'
  <2>1. PICK w \in Wallets :
          issuing' = [issuing EXCEPT ![n] =
                       [pc |-> "insert", wallet |-> w, expires |-> now + NonceTTL]]
    BY <1>1 DEF IssueStart
  <2>2. issuing' \in [Nonces -> Issuing]
    BY <2>1 DEF TypeOK, Issuing
  <2>3. QED
    BY <1>1, <2>2 DEF TypeOK, IssueStart, tables, verifyVars
<1>2. ASSUME NEW n \in Nonces, IssueInsert(n)
      PROVE  TypeOK'
  <2>1. auth_challenges' \in [Nonces -> Challenge \cup {None}]
    BY <1>2 DEF TypeOK, IssueInsert, Issuing, Challenge
  <2>2. PICK label \in {"ready", "failed"} : issuing' = [issuing EXCEPT ![n].pc = label]
    BY <1>2 DEF IssueInsert
  <2>3. /\ issuing' \in [Nonces -> Issuing]
        /\ \A m \in Nonces : issuing'[m].pc # "idle" => issuing'[m].wallet # None
    BY <1>2, <2>2 DEF TypeOK, IssueInsert, Issuing
  <2>4. faults' \in Nat
    BY <1>2 DEF TypeOK, IssueInsert
  <2>5. QED
    BY <1>2, <2>1, <2>3, <2>4 DEF TypeOK, IssueInsert, verifyVars
<1>3. ASSUME NEW n \in Nonces, IssueFails(n)
      PROVE  TypeOK'
  BY <1>3 DEF TypeOK, IssueFails, tables, verifyVars, Issuing
<1>4. ASSUME NEW n \in Nonces, SignMessage(n)
      PROVE  TypeOK'
  BY <1>4 DEF TypeOK, SignMessage, tables, verifyVars
<1>5. ASSUME NEW r \in VerifyReqs, VerifyStart(r)
      PROVE  TypeOK'
  <2>1. PICK b \in Body : body' = [body EXCEPT ![r] = b]
    <3>1. PICK w \in Wallets, n \in Nonces, own \in BOOLEAN :
            body' = [body EXCEPT ![r] =
                      [wallet |-> w, nonce |-> n, own |-> own, at |-> IF own THEN now ELSE 0]]
      BY <1>5 DEF VerifyStart
    <3>2. [wallet |-> w, nonce |-> n, own |-> own, at |-> IF own THEN now ELSE 0] \in Body
      BY DEF Body, TypeOK
    <3>3. QED
      BY <3>1, <3>2
  <2>2. b # None
    BY <2>1 DEF Body
  <2>3. /\ body' \in [VerifyReqs -> Body \cup {None}]
        /\ pc' \in [VerifyReqs -> VerifyPC]
        /\ reply' \in [VerifyReqs -> Reply]
        /\ \A q \in VerifyReqs : pc'[q] # "idle" => body'[q] # None
        /\ \A q \in VerifyReqs : pc'[q] = "issueToken" => pc[q] = "issueToken"
    BY <1>5, <2>1, <2>2 DEF TypeOK, VerifyStart
  <2>4. QED
    BY <1>5, <2>3 DEF TypeOK, VerifyStart, tables
<1>6. ASSUME NEW r \in VerifyReqs, VerifyStep(r)
      PROVE  TypeOK'
  <2>1. CASE GetChallenge(r) \/ SelectChallenge(r)
    BY <2>1 DEF TypeOK, GetChallenge, SelectChallenge, ReadChallenge, ChallengeRow, tables, Body
  <2>2. CASE CheckChallenge(r)
    BY <2>2 DEF TypeOK, CheckChallenge, tables
  <2>3. CASE CheckAgain(r)
    BY <2>3 DEF TypeOK, CheckAgain, tables
  <2>4. CASE Stamp(r)
    BY <2>4 DEF TypeOK, Stamp, tables
  <2>5. CASE MarkUsed(r)
    <3> DEFINE n == body[r].nonce
    <3>1. pc[r] = "markUsed" /\ body[r] \in Body /\ n \in Nonces /\ stamp[r] \in Nat
      BY <2>5 DEF MarkUsed, TypeOK, Body
    <3>2. auth_challenges' \in [Nonces -> Challenge \cup {None}]
      <4>1. CASE UNCHANGED auth_challenges
        BY <4>1 DEF TypeOK
      <4>2. CASE /\ StillOpen(auth_challenges[n], stamp[r])
                 /\ auth_challenges' = [auth_challenges EXCEPT ![n].used = stamp[r]]
        <5>1. [auth_challenges[n] EXCEPT !.used = stamp[r]] \in Challenge
          BY <3>1, <4>2 DEF StillOpen, TypeOK, Challenge
        <5>2. QED
          BY <3>1, <4>2, <5>1 DEF TypeOK
      <4>3. QED
        BY <2>5, <4>1, <4>2 DEF MarkUsed
    <3>3. QED
      BY <2>5, <3>1, <3>2 DEF TypeOK, MarkUsed
  <2>6. CASE SelectProfile(r)
    BY <2>6 DEF TypeOK, SelectProfile, ProfilesOf, Profile, tables, Body
  <2>7. CASE InsertProfile(r)
    BY <2>7 DEF TypeOK, InsertProfile, Profile, Body
  <2>8. CASE IssueToken(r)
    BY <2>8, SecondsNat DEF TypeOK, IssueToken, SessionToken, Token, Body, SessionReq, tables
  <2>9. QED
    BY <1>6, <2>1, <2>2, <2>3, <2>4, <2>5, <2>6, <2>7, <2>8 DEF VerifyStep
<1>7. ASSUME NEW r \in VerifyReqs, VerifyFails(r)
      PROVE  TypeOK'
  BY <1>7 DEF TypeOK, VerifyFails, tables
<1>8. ASSUME NEW s \in SessionReqs, SessionStart(s)
      PROVE  TypeOK'
  BY <1>8 DEF TypeOK, SessionStart, tables, verifyVars, SessionReq
<1>9. ASSUME NEW s \in SessionReqs, SessionLookup(s)
      PROVE  TypeOK'
  BY <1>9 DEF TypeOK, SessionLookup, SessionAnswer, tables, verifyVars, SessionReq
<1>10. ASSUME NEW s \in SessionReqs, SessionFails(s)
       PROVE  TypeOK'
  <2>1. /\ session' \in [SessionReqs -> SessionReq]
        /\ \A q \in SessionReqs : session'[q].from = session[q].from
        /\ \A q \in SessionReqs : session'[q].pc # "idle" => session[q].pc # "idle"
    <3>1. session' = [session EXCEPT ![s] =
                       [session[s] EXCEPT !.pc = "done", !.reply = "internal_error"]]
      BY <1>10 DEF TypeOK, SessionFails, SessionAnswer
    <3>2. session[s] \in SessionReq /\ session[s].pc # "idle"
      BY <1>10 DEF TypeOK, SessionFails
    <3>3. QED
      BY <3>1, <3>2, SessionAnswerType DEF TypeOK
  <2>2. QED
    BY <1>10, <2>1 DEF TypeOK, SessionFails, tables, verifyVars
<1>11. CASE Tick
  BY <1>11 DEF TypeOK, Tick, tables, verifyVars
<1>12. CASE Restart
  <2>1. /\ issuing' \in [Nonces -> Issuing]
        /\ \A n \in Nonces : issuing'[n].wallet = issuing[n].wallet
        /\ \A n \in Nonces : issuing'[n].pc # "idle" => issuing[n].pc # "idle"
    BY <1>12, IssuingEndType DEF TypeOK, Restart
  <2>2. /\ session' \in [SessionReqs -> SessionReq]
        /\ \A q \in SessionReqs : session'[q].from = session[q].from
        /\ \A q \in SessionReqs : session'[q].pc # "idle" => session[q].pc # "idle"
    BY <1>12, SessionAnswerType DEF TypeOK, Restart
  <2>3. /\ pc' \in [VerifyReqs -> VerifyPC]
        /\ \A r \in VerifyReqs : pc'[r] # "idle" => pc[r] # "idle"
        /\ \A r \in VerifyReqs : pc'[r] # "issueToken"
        /\ reply' \in [VerifyReqs -> Reply]
    BY <1>12 DEF TypeOK, Restart
  <2>4. faults' \in Nat
    <3>1. faults \in Nat /\ faults' = faults + 1
      BY <1>12, Zenon DEF TypeOK, Restart
    <3>2. QED
      BY <3>1
  <2>5. QED
    BY <1>12, <2>1, <2>2, <2>3, <2>4 DEF TypeOK, Restart, tables
<1>13. CASE UNCHANGED vars
  BY <1>13 DEF TypeOK, vars, tables, verifyVars
<1>14. QED
  BY <1>1, <1>2, <1>3, <1>4, <1>5, <1>6, <1>7, <1>8, <1>9, <1>10, <1>11, <1>12, <1>13 DEF Next

\* Every variable keeps its type in every behaviour of the sign-in handlers; the
\* handler's locals are set whenever its program counter says they are.
THEOREM TypeCorrect == Spec => []TypeOK
<1>1. Init => TypeOK
  BY DEF Init, TypeOK, Issuing, SessionReq
<1>2. QED
  BY <1>1, TypeStep, PTL DEF Spec

-----------------------------------------------------------------------------
(* Safety, from the inductive invariant AuthInv.                            *)

\* A step that leaves the tables, the signatures and the requests alone keeps
\* the invariant.
LEMMA AuthInvFrame ==
  ASSUME AuthInv, TypeOK',
         UNCHANGED <<tables, pc, body, row, profileId, token>>,
         signed \subseteq signed',
         \A n \in Nonces :
           issuing'[n].pc \in {"idle", "insert"} => issuing[n].pc \in {"idle", "insert"}
  PROVE  AuthInv'
BY DEF AuthInv, NotYetStored, OwnSignature, ReadRow, OwnRow, Checked, RedeemedRow,
       Redeemed, ProfileHeld, SingleRedemption, TokenBacked, Holder, tables

\* Every step of the server keeps the invariant.
LEMMA AuthStep == AuthInv /\ [Next]_vars => AuthInv'
<1> SUFFICES ASSUME AuthInv, [Next]_vars
             PROVE  AuthInv'
  OBVIOUS
<1> USE NoneAssumption
<1>0. TypeOK /\ TypeOK'
  BY TypeStep DEF AuthInv
<1>1. ASSUME NEW n \in Nonces, IssueStart(n)
      PROVE  AuthInv'
  BY <1>0, <1>1, AuthInvFrame DEF IssueStart, verifyVars, TypeOK
<1>2. ASSUME NEW n \in Nonces, IssueInsert(n)
      PROVE  AuthInv'
  <2>1. auth_challenges[n] = None
    BY <1>2 DEF AuthInv, NotYetStored, IssueInsert
  <2>2. /\ auth_challenges'[n] # None
        /\ auth_challenges'[n].used = None
        /\ \A m \in Nonces \ {n} : auth_challenges'[m] = auth_challenges[m]
    <3>1. /\ issuing[n].pc = "insert" /\ issuing[n].wallet \in Wallets
          /\ issuing[n].expires \in Nat
      BY <1>0, <1>2 DEF IssueInsert, TypeOK, Issuing
    <3> DEFINE c == [wallet |-> issuing[n].wallet, expires |-> issuing[n].expires,
                     used |-> None]
    <3>2. c \in Challenge
      BY <3>1 DEF Challenge
    <3>3. auth_challenges' = [auth_challenges EXCEPT ![n] = c]
      BY <1>2 DEF IssueInsert
    <3>4. QED
      BY <1>0, <3>2, <3>3 DEF TypeOK
  <2>3. \A r \in VerifyReqs :
          body[r] \in Body /\ OwnRow(r) => body[r].nonce # n /\ OwnRow(r)'
    BY <2>1, <2>2, <1>2 DEF OwnRow, IssueInsert, verifyVars, Body
  <2>4. \A r \in VerifyReqs : pc[r] # "idle" => body[r] \in Body
    BY <1>0 DEF TypeOK
  <2>5. NotYetStored'
    BY <1>0, <1>2, <2>2 DEF AuthInv, NotYetStored, IssueInsert, TypeOK, Issuing
  <2>6. OwnSignature' /\ ProfileHeld' /\ SingleRedemption'
    BY <1>2 DEF AuthInv, OwnSignature, ProfileHeld, SingleRedemption, Redeemed,
                IssueInsert, verifyVars
  <2>7. ReadRow' /\ Checked'
    BY <1>2, <2>3, <2>4 DEF AuthInv, ReadRow, Checked, IssueInsert, verifyVars
  <2>8. RedeemedRow'
    <3>1. ASSUME NEW r \in VerifyReqs, Redeemed(r)
          PROVE  body[r] \in Body /\ OwnRow(r) /\ auth_challenges[body[r].nonce].used # None
      BY <1>0, <3>1 DEF AuthInv, RedeemedRow, TypeOK
    <3>2. ASSUME NEW r \in VerifyReqs, Redeemed(r)
          PROVE  auth_challenges'[body[r].nonce] = auth_challenges[body[r].nonce]
      BY <3>1, <3>2, <2>2, <2>3 DEF Body
    <3>3. QED
      BY <1>2, <3>1, <3>2, <2>3 DEF RedeemedRow, Redeemed, IssueInsert, verifyVars
  <2>10. TokenBacked'
    <3>1. ASSUME NEW r \in VerifyReqs, token[r] # None
          PROVE  auth_challenges'[body[r].nonce] = auth_challenges[body[r].nonce]
      BY <1>0, <3>1, <2>2, <2>3 DEF AuthInv, RedeemedRow, Redeemed, TypeOK, Body
    <3>2. QED
      BY <1>2, <3>1 DEF AuthInv, TokenBacked, Holder, IssueInsert, verifyVars
  <2>11. QED
    BY <1>0, <2>5, <2>6, <2>7, <2>8, <2>10 DEF AuthInv
<1>3. ASSUME NEW n \in Nonces, IssueFails(n)
      PROVE  AuthInv'
  BY <1>0, <1>3, AuthInvFrame DEF IssueFails, verifyVars, TypeOK
<1>4. ASSUME NEW n \in Nonces, SignMessage(n)
      PROVE  AuthInv'
  BY <1>0, <1>4, AuthInvFrame DEF SignMessage, verifyVars
<1>5. ASSUME NEW r \in VerifyReqs, VerifyStart(r)
      PROVE  AuthInv'
  <2>1. PICK b \in Body :
          /\ body' = [body EXCEPT ![r] = b]
          /\ b.own => b.nonce \in signed
    <3>1. PICK w \in Wallets, n \in Nonces, own \in BOOLEAN :
            /\ own => n \in signed
            /\ body' = [body EXCEPT ![r] =
                          [wallet |-> w, nonce |-> n, own |-> own, at |-> IF own THEN now ELSE 0]]
      BY <1>5 DEF VerifyStart
    <3>2. [wallet |-> w, nonce |-> n, own |-> own, at |-> IF own THEN now ELSE 0] \in Body
      BY <1>0 DEF Body, TypeOK
    <3>3. QED
      BY <3>1, <3>2
  <2>2. /\ pc[r] = "idle" /\ pc'[r] \in {"getChallenge", "done"}
        /\ \A q \in VerifyReqs \ {r} : pc'[q] = pc[q] /\ body'[q] = body[q]
        /\ body'[r] = b
        /\ UNCHANGED <<auth_challenges, profiles, issuing, signed, row, profileId, token>>
    BY <1>0, <1>5, <2>1 DEF VerifyStart, TypeOK, tables
  <2>3. token[r] = None
    <3>1. token[r] # None => Redeemed(r)
      BY DEF Redeemed
    <3>2. QED
      BY <1>0, <3>1, <2>2 DEF AuthInv, TypeOK, RedeemedRow
  <2>4. QED
    BY <1>0, <2>1, <2>2, <2>3
    DEF AuthInv, NotYetStored, OwnSignature, ReadRow, OwnRow, Checked, RedeemedRow,
        Redeemed, ProfileHeld, SingleRedemption, TokenBacked, Holder
<1>6. ASSUME NEW r \in VerifyReqs, GetChallenge(r) \/ SelectChallenge(r)
      PROVE  AuthInv'
  BY <1>0, <1>6
  DEF AuthInv, GetChallenge, SelectChallenge, ReadChallenge, ChallengeRow, TypeOK,
         NotYetStored, OwnSignature, ReadRow, OwnRow, Checked, RedeemedRow,
         Redeemed, ProfileHeld, SingleRedemption, TokenBacked, Holder, tables
<1>7. ASSUME NEW r \in VerifyReqs, CheckChallenge(r)
      PROVE  AuthInv'
  BY <1>0, <1>7
  DEF AuthInv, CheckChallenge, Redeemable, TypeOK,
         NotYetStored, OwnSignature, ReadRow, OwnRow, Checked, RedeemedRow,
         Redeemed, ProfileHeld, SingleRedemption, TokenBacked, Holder, tables
<1>8. ASSUME NEW r \in VerifyReqs, CheckAgain(r)
      PROVE  AuthInv'
  BY <1>0, <1>8
  DEF AuthInv, CheckAgain, TypeOK,
         NotYetStored, OwnSignature, ReadRow, OwnRow, Checked, RedeemedRow,
         Redeemed, ProfileHeld, SingleRedemption, TokenBacked, Holder, tables
<1>9. ASSUME NEW r \in VerifyReqs, Stamp(r)
      PROVE  AuthInv'
  BY <1>0, <1>9
  DEF AuthInv, Stamp, TypeOK,
         NotYetStored, OwnSignature, ReadRow, OwnRow, Checked, RedeemedRow,
         Redeemed, ProfileHeld, SingleRedemption, TokenBacked, Holder, tables
<1>10. ASSUME NEW r \in VerifyReqs, MarkUsed(r)
       PROVE  AuthInv'
  <2> DEFINE n == body[r].nonce
  <2>1. /\ n \in Nonces /\ body[r] # None /\ body[r].own /\ OwnRow(r)
        /\ pc[r] = "markUsed" /\ stamp[r] \in Nat
    BY <1>0, <1>10 DEF AuthInv, Checked, MarkUsed, TypeOK, Body
  <2>2. /\ pc'[r] \in {"selectProfile", "done"}
        /\ \A q \in VerifyReqs \ {r} : pc'[q] = pc[q]
        /\ UNCHANGED <<profiles, issuing, signed, body, row, profileId, token>>
    BY <1>0, <1>10 DEF MarkUsed, TypeOK
  <2>3. CASE ~StillOpen(auth_challenges[n], stamp[r])
    <3>1. auth_challenges' = auth_challenges /\ pc'[r] = "done"
      BY <1>0, <1>10, <2>3 DEF MarkUsed, TypeOK
    <3>2. QED
      BY <1>0, <2>2, <3>1
      DEF AuthInv, NotYetStored, OwnSignature, ReadRow, OwnRow, Checked, RedeemedRow,
          Redeemed, ProfileHeld, SingleRedemption, TokenBacked, Holder
  <2>4. CASE StillOpen(auth_challenges[n], stamp[r])
    <3>1. /\ auth_challenges[n] \in Challenge /\ auth_challenges[n].used = None
          /\ stamp[r] < auth_challenges[n].expires
      BY <1>0, <2>1, <2>4 DEF StillOpen, TypeOK
    <3>2. auth_challenges' = [auth_challenges EXCEPT ![n].used = stamp[r]]
      BY <1>10, <2>4 DEF MarkUsed
    <3>3. /\ \A m \in Nonces \ {n} : auth_challenges'[m] = auth_challenges[m]
          /\ auth_challenges'[n] # None
          /\ auth_challenges'[n].wallet = auth_challenges[n].wallet
          /\ auth_challenges'[n].expires = auth_challenges[n].expires
          /\ auth_challenges'[n].used = stamp[r] /\ stamp[r] # None
      <4>1. /\ auth_challenges' = [auth_challenges EXCEPT ![n] =
                                    [auth_challenges[n] EXCEPT !.used = stamp[r]]]
            /\ stamp[r] # None
        BY <1>0, <2>1, <3>2 DEF TypeOK
      <4>2. [auth_challenges[n] EXCEPT !.used = stamp[r]] \in Challenge
        BY <2>1, <3>1 DEF Challenge
      <4>3. /\ [auth_challenges[n] EXCEPT !.used = stamp[r]].wallet = auth_challenges[n].wallet
            /\ [auth_challenges[n] EXCEPT !.used = stamp[r]].expires = auth_challenges[n].expires
            /\ [auth_challenges[n] EXCEPT !.used = stamp[r]].used = stamp[r]
        BY <2>1, <3>1 DEF Challenge
      <4>4. QED
        BY <1>0, <2>1, <4>1, <4>2, <4>3 DEF TypeOK
    <3>4. \A q \in VerifyReqs : body[q] # None /\ OwnRow(q) => OwnRow(q)'
      BY <1>0, <2>2, <3>1, <3>3 DEF OwnRow, TypeOK, Body
    <3>5. \A q \in VerifyReqs : pc[q] # "idle" => body[q] # None
      BY <1>0 DEF TypeOK
    <3>6. NotYetStored' /\ OwnSignature' /\ ReadRow' /\ Checked' /\ ProfileHeld'
      BY <1>0, <2>1, <2>2, <3>1, <3>3, <3>4, <3>5
      DEF AuthInv, NotYetStored, OwnSignature, ReadRow, Checked, ProfileHeld
    <3>7. \A q \in VerifyReqs : Redeemed(q) => body[q] # None /\ body[q].nonce # n
      BY <3>1 DEF AuthInv, RedeemedRow
    <3>8. SingleRedemption'
      BY <2>2, <3>7 DEF AuthInv, SingleRedemption, Redeemed
    <3>9. RedeemedRow'
      <4>1. OwnRow(r)' /\ auth_challenges'[n].used # None
        BY <2>1, <3>3, <3>4
      <4>2. ASSUME NEW q \in VerifyReqs \ {r}, Redeemed(q)
            PROVE  /\ OwnRow(q)' /\ body[q] # None
                   /\ auth_challenges'[body[q].nonce].used # None
        BY <1>0, <4>2, <3>3, <3>4, <3>7 DEF AuthInv, RedeemedRow, TypeOK, Body
      <4>3. \A q \in VerifyReqs \ {r} : Redeemed(q)' => Redeemed(q)
        BY <2>2 DEF Redeemed
      <4>4. QED
        BY <2>1, <2>2, <4>1, <4>2, <4>3 DEF RedeemedRow
    <3>11. TokenBacked'
      <4>1. ASSUME NEW q \in VerifyReqs, token[q] # None
            PROVE  auth_challenges'[body[q].nonce] = auth_challenges[body[q].nonce]
        BY <1>0, <4>1, <3>3, <3>7 DEF Redeemed, TypeOK, Body
      <4>2. QED
        BY <2>2, <4>1 DEF AuthInv, TokenBacked, Holder
    <3>12. QED
      BY <1>0, <3>6, <3>8, <3>9, <3>11 DEF AuthInv
  <2>5. QED
    BY <2>3, <2>4
<1>11. ASSUME NEW r \in VerifyReqs, SelectProfile(r)
       PROVE  AuthInv'
  <2>1. /\ pc[r] = "selectProfile"
        /\ pc'[r] \in {"insertProfile", "issueToken", "done"}
        /\ \A q \in VerifyReqs \ {r} : pc'[q] = pc[q] /\ profileId'[q] = profileId[q]
        /\ UNCHANGED <<tables, issuing, signed, body, row, token>>
    BY <1>0, <1>11 DEF SelectProfile, TypeOK
  <2>2. pc'[r] = "issueToken" =>
          [id |-> profileId'[r], wallet |-> body[r].wallet] \in profiles
    <3>1. SUFFICES ASSUME pc'[r] = "issueToken"
                   PROVE  [id |-> profileId'[r], wallet |-> body[r].wallet] \in profiles
      OBVIOUS
    <3>2. PICK p \in profiles :
            p.wallet = body[r].wallet /\ profileId' = [profileId EXCEPT ![r] = p.id]
      BY <1>0, <1>11, <3>1 DEF SelectProfile, ProfilesOf, TypeOK
    <3>3. p = [id |-> p.id, wallet |-> p.wallet] /\ profileId'[r] = p.id
      BY <1>0, <3>2 DEF TypeOK, Profile
    <3>4. QED
      BY <3>2, <3>3
  <2>3. QED
    BY <1>0, <2>1, <2>2
    DEF AuthInv, NotYetStored, OwnSignature, ReadRow, OwnRow, Checked, RedeemedRow,
        Redeemed, ProfileHeld, SingleRedemption, TokenBacked, Holder, tables
<1>12. ASSUME NEW r \in VerifyReqs, InsertProfile(r)
       PROVE  AuthInv'
  BY <1>0, <1>12
  DEF AuthInv, InsertProfile, TypeOK,
         NotYetStored, OwnSignature, ReadRow, OwnRow, Checked, RedeemedRow,
         Redeemed, ProfileHeld, SingleRedemption, TokenBacked, Holder, tables
<1>13. ASSUME NEW r \in VerifyReqs, IssueToken(r)
       PROVE  AuthInv'
  BY <1>0, <1>13
  DEF AuthInv, IssueToken, SessionToken, TypeOK,
         NotYetStored, OwnSignature, ReadRow, OwnRow, Checked, RedeemedRow,
         Redeemed, ProfileHeld, SingleRedemption, TokenBacked, Holder, tables
<1>14. ASSUME NEW r \in VerifyReqs, VerifyFails(r)
       PROVE  AuthInv'
  BY <1>0, <1>14
  DEF AuthInv, VerifyFails, TypeOK,
         NotYetStored, OwnSignature, ReadRow, OwnRow, Checked, RedeemedRow,
         Redeemed, ProfileHeld, SingleRedemption, TokenBacked, Holder, tables
<1>15. ASSUME NEW s \in SessionReqs, SessionStart(s) \/ SessionLookup(s) \/ SessionFails(s)
       PROVE  AuthInv'
  BY <1>0, <1>15, AuthInvFrame DEF SessionStart, SessionLookup, SessionFails, verifyVars
<1>16. CASE Tick
  BY <1>0, <1>16, AuthInvFrame DEF Tick, verifyVars
<1>17. CASE Restart
  BY <1>0, <1>17
  DEF AuthInv, Restart, TypeOK,
         NotYetStored, OwnSignature, ReadRow, OwnRow, Checked, RedeemedRow,
         Redeemed, ProfileHeld, SingleRedemption, TokenBacked, Holder, tables
<1>18. CASE UNCHANGED vars
  BY <1>0, <1>18, AuthInvFrame DEF vars, verifyVars
<1>19. QED
  BY <1>1, <1>2, <1>3, <1>4, <1>5, <1>6, <1>7, <1>8, <1>9, <1>10, <1>11, <1>12, <1>13,
     <1>14, <1>15, <1>16, <1>17, <1>18 DEF Next, VerifyStep

\* Every state the server reaches satisfies the inductive invariant.
THEOREM AuthInvariant == Spec => []AuthInv
<1>1. Init => AuthInv
  <2>1. Init => TypeOK
    BY DEF Init, TypeOK, Issuing, SessionReq
  <2>2. QED
    BY <2>1
    DEF Init, AuthInv, NotYetStored, OwnSignature, ReadRow, Checked, RedeemedRow,
        Redeemed, ProfileHeld, SingleRedemption, TokenBacked
<1>2. QED
  BY <1>1, AuthStep, PTL DEF Spec

\* Replay protection: in every behaviour, with any number of concurrent verify
\* requests, a nonce is redeemed by at most one of them.
THEOREM NonceRedeemedOnce == Spec => []SingleRedemption
<1>1. AuthInv => SingleRedemption
  BY DEF AuthInv
<1>2. QED
  BY <1>1, AuthInvariant, PTL

\* Every session token is backed by a redeemed challenge and a profile row of its
\* wallet.
THEOREM TokensBacked == Spec => []TokenBacked
<1>1. AuthInv => TokenBacked
  BY DEF AuthInv
<1>2. QED
  BY <1>1, AuthInvariant, PTL

-----------------------------------------------------------------------------
(* The handlers implement the one-time challenge.                           *)

\* A step that changes no challenge row and no token is a stutter.
LEMMA AbstractStutter ==
  ASSUME AuthInv, UNCHANGED <<auth_challenges, token>>,
         \A r \in VerifyReqs : token[r] # None => body'[r] = body[r]
  PROVE  UNCHANGED Abstract!vars
<1>1. OwnerOf' = OwnerOf /\ SpentNonces' = SpentNonces
  BY DEF OwnerOf, SpentNonces
<1>2. GrantedSessions' = GrantedSessions
  BY DEF GrantedSessions, Granted
<1>3. QED
  BY <1>1, <1>2 DEF Abstract!vars

\* The insert of a challenge row issues the challenge.
LEMMA InsertIssues ==
  ASSUME AuthInv, NEW n \in Nonces, IssueInsert(n)
  PROVE  \E w \in Wallets : Abstract!Issue(n, w)
<1> USE NoneAssumption
<1> DEFINE w == issuing[n].wallet
<1>1. auth_challenges[n] = None /\ w \in Wallets
  BY DEF AuthInv, NotYetStored, IssueInsert, TypeOK, Issuing
<1>2. /\ auth_challenges'[n] # None /\ auth_challenges'[n].wallet = w
      /\ auth_challenges'[n].used = None
      /\ \A m \in Nonces \ {n} : auth_challenges'[m] = auth_challenges[m]
  <2>1. /\ issuing[n].expires \in Nat /\ auth_challenges \in [Nonces -> Challenge \cup {None}]
    BY DEF AuthInv, TypeOK, Issuing
  <2>2. [wallet |-> w, expires |-> issuing[n].expires, used |-> None] \in Challenge
    BY <1>1, <2>1 DEF Challenge
  <2>3. QED
    BY <2>1, <2>2 DEF IssueInsert
<1>3. OwnerOf[n] = None /\ OwnerOf' = [OwnerOf EXCEPT ![n] = w]
  BY <1>1, <1>2 DEF OwnerOf
<1>4. SpentNonces' = SpentNonces
  BY <1>1, <1>2 DEF SpentNonces
<1>5. GrantedSessions' = GrantedSessions
  BY DEF GrantedSessions, Granted, IssueInsert, verifyVars
<1>6. QED
  BY <1>1, <1>3, <1>4, <1>5 DEF Abstract!Issue

\* The conditional update spends the challenge, or leaves everything alone.
LEMMA UpdateSpends ==
  ASSUME AuthInv, NEW r \in VerifyReqs, MarkUsed(r)
  PROVE  Abstract!Spend(body[r].nonce) \/ UNCHANGED Abstract!vars
<1> USE NoneAssumption
<1> DEFINE n == body[r].nonce
<1>1. /\ n \in Nonces /\ stamp[r] \in Nat
      /\ auth_challenges \in [Nonces -> Challenge \cup {None}]
  BY DEF AuthInv, MarkUsed, TypeOK, Body
<1>2. body' = body /\ token' = token
  BY DEF MarkUsed
<1>3. CASE ~StillOpen(auth_challenges[n], stamp[r])
  BY <1>2, <1>3, AbstractStutter DEF MarkUsed
<1>4. CASE StillOpen(auth_challenges[n], stamp[r])
  <2>1. auth_challenges' = [auth_challenges EXCEPT ![n].used = stamp[r]]
    BY <1>4 DEF MarkUsed
  <2>2. auth_challenges[n] \in Challenge /\ auth_challenges[n].used = None
    BY <1>1, <1>4 DEF StillOpen
  <2> DEFINE c == [auth_challenges[n] EXCEPT !.used = stamp[r]]
  <2>3. /\ c \in Challenge /\ c.wallet = auth_challenges[n].wallet
        /\ c.used = stamp[r]
    BY <1>1, <2>2 DEF Challenge
  <2>4. auth_challenges' = [auth_challenges EXCEPT ![n] = c]
    BY <2>1
  <2>5. /\ auth_challenges'[n] # None /\ auth_challenges[n] # None
        /\ auth_challenges'[n].wallet = auth_challenges[n].wallet
        /\ auth_challenges'[n].used # None
        /\ \A m \in Nonces \ {n} : auth_challenges'[m] = auth_challenges[m]
    <3> HIDE DEF c
    <3>1. QED
      BY <1>1, <2>2, <2>3, <2>4
  <2>6. OwnerOf[n] # None /\ OwnerOf' = OwnerOf
    <3>1. auth_challenges[n].wallet \in Wallets
      BY <2>2 DEF Challenge
    <3>2. QED
      BY <1>1, <2>5, <3>1 DEF OwnerOf
  <2>7. n \notin SpentNonces /\ SpentNonces' = SpentNonces \cup {n}
    BY <1>1, <2>2, <2>5 DEF SpentNonces
  <2>8. GrantedSessions' = GrantedSessions
    BY <1>2 DEF GrantedSessions, Granted
  <2>9. QED
    BY <2>6, <2>7, <2>8 DEF Abstract!Spend
<1>5. QED
  BY <1>3, <1>4

\* Issuing the token grants the one session of the challenge.
LEMMA TokenGrants ==
  ASSUME AuthInv, NEW r \in VerifyReqs, IssueToken(r)
  PROVE  Abstract!Grant(r, body[r].nonce)
<1> USE NoneAssumption
<1> DEFINE n == body[r].nonce
           t == SessionToken(profileId[r], body[r].wallet)
<1>1. /\ n \in Nonces /\ token \in [VerifyReqs -> Token \cup {None}]
      /\ body[r].wallet \in Wallets /\ profileId[r] \in VerifyReqs /\ now \in Nat
  BY DEF AuthInv, IssueToken, TypeOK, Body
<1>2. t \in Token /\ t.wallet = body[r].wallet
  BY <1>1, SecondsNat, TTLAssumption DEF SessionToken, Token
<1>3. /\ token' = [token EXCEPT ![r] = t] /\ body' = body
      /\ auth_challenges' = auth_challenges
  BY DEF IssueToken, tables
<1> HIDE DEF t
<1>4. /\ token'[r] # None /\ token'[r].wallet = body[r].wallet
      /\ \A q \in VerifyReqs \ {r} : token'[q] = token[q]
  BY <1>1, <1>2, <1>3
<1>5. Redeemed(r)
  BY DEF IssueToken, Redeemed
<1>6. \A q \in VerifyReqs : token[q] # None => Redeemed(q) /\ body[q].nonce # n
  <2>1. token[r] = None
    BY DEF AuthInv, TypeOK, IssueToken
  <2>2. QED
    BY <1>5, <2>1 DEF AuthInv, SingleRedemption, Redeemed
<1>7. n \in SpentNonces /\ OwnerOf[n] = body[r].wallet
  BY <1>1, <1>5 DEF AuthInv, RedeemedRow, OwnRow, SpentNonces, OwnerOf
<1>8. \A s \in GrantedSessions : s.nonce # n /\ s.request # r
  BY <1>6 DEF GrantedSessions, Granted
<1>9. GrantedSessions' =
        GrantedSessions \cup {[request |-> r, nonce |-> n, wallet |-> OwnerOf[n]]}
  BY <1>3, <1>4, <1>6, <1>7 DEF GrantedSessions, Granted
<1>10. OwnerOf' = OwnerOf /\ SpentNonces' = SpentNonces
  BY <1>3 DEF OwnerOf, SpentNonces
<1>11. QED
  BY <1>7, <1>8, <1>9, <1>10 DEF Abstract!Grant

\* The sign-in handlers, with all their database calls, failures and restarts,
\* implement the one-time challenge.
THEOREM Refinement == Spec => ImplementsOneTimeChallenge
<1>1. Init => Abstract!Init
  BY DEF Init, Abstract!Init, OwnerOf, SpentNonces, GrantedSessions
<1>2. AuthInv /\ [Next]_vars => [Abstract!Next]_(Abstract!vars)
  <2> SUFFICES ASSUME AuthInv, [Next]_vars
               PROVE  Abstract!Next \/ UNCHANGED Abstract!vars
    OBVIOUS
  <2>1. ASSUME NEW n \in Nonces, IssueInsert(n)
        PROVE  Abstract!Next
    BY <2>1, InsertIssues DEF Abstract!Next
  <2>2. ASSUME NEW r \in VerifyReqs, MarkUsed(r)
        PROVE  Abstract!Next \/ UNCHANGED Abstract!vars
    <3>1. body[r].nonce \in Nonces
      BY <2>2 DEF AuthInv, MarkUsed, TypeOK, Body
    <3>2. QED
      BY <2>2, <3>1, UpdateSpends DEF Abstract!Next
  <2>3. ASSUME NEW r \in VerifyReqs, IssueToken(r)
        PROVE  Abstract!Next
    <3>1. body[r].nonce \in Nonces
      BY <2>3 DEF AuthInv, IssueToken, TypeOK, Body
    <3>2. QED
      BY <2>3, <3>1, TokenGrants DEF Abstract!Next
  <2>4. ASSUME NEW r \in VerifyReqs, VerifyStart(r)
        PROVE  UNCHANGED Abstract!vars
    <3>1. \A q \in VerifyReqs : token[q] # None => q # r
      BY <2>4 DEF AuthInv, RedeemedRow, Redeemed, VerifyStart, TypeOK
    <3>2. UNCHANGED <<auth_challenges, token>>
          /\ \A q \in VerifyReqs \ {r} : body'[q] = body[q]
      BY <2>4 DEF AuthInv, VerifyStart, TypeOK, tables
    <3>3. QED
      BY <3>1, <3>2, AbstractStutter
  <2>5. ASSUME UNCHANGED <<auth_challenges, token, body>>
        PROVE  UNCHANGED Abstract!vars
    BY <2>5, AbstractStutter
  <2>6. ASSUME NEW n \in Nonces, IssueStart(n) \/ IssueFails(n) \/ SignMessage(n)
        PROVE  UNCHANGED Abstract!vars
    BY <2>5, <2>6 DEF IssueStart, IssueFails, SignMessage, tables, verifyVars
  <2>7. ASSUME NEW r \in VerifyReqs,
               \/ GetChallenge(r) \/ CheckChallenge(r) \/ SelectChallenge(r) \/ CheckAgain(r)
               \/ Stamp(r) \/ SelectProfile(r) \/ InsertProfile(r) \/ VerifyFails(r)
        PROVE  UNCHANGED Abstract!vars
    BY <2>5, <2>7
    DEF GetChallenge, CheckChallenge, SelectChallenge, ReadChallenge, CheckAgain, Stamp,
        SelectProfile, InsertProfile, VerifyFails, tables
  <2>8. ASSUME NEW s \in SessionReqs, SessionStart(s) \/ SessionLookup(s) \/ SessionFails(s)
        PROVE  UNCHANGED Abstract!vars
    BY <2>5, <2>8 DEF SessionStart, SessionLookup, SessionFails, tables, verifyVars
  <2>9. CASE Tick \/ Restart \/ UNCHANGED vars
    BY <2>5, <2>9 DEF Tick, Restart, vars, tables, verifyVars
  <2>10. QED
    BY <2>1, <2>2, <2>3, <2>4, <2>6, <2>7, <2>8, <2>9 DEF Next, VerifyStep
<1>3. QED
  BY <1>1, <1>2, AuthInvariant, PTL DEF Spec, ImplementsOneTimeChallenge, Abstract!Spec

-----------------------------------------------------------------------------
(* Answers and lifetimes: what else each program counter says.              *)

\* A nonce is signed only after it was stored, for the wallet that signs it.
SignedStored ==
  \A n \in Nonces :
    /\ n \in signed => issuing[n].pc = "ready"
    /\ issuing[n].pc = "ready" =>
         /\ auth_challenges[n] # None
         /\ auth_challenges[n].wallet = issuing[n].wallet

\* A correctly signed request names a stored challenge, and has read that one.
OwnStored ==
  \A r \in VerifyReqs : body[r] # None /\ body[r].own =>
    /\ OwnRow(r)
    /\ pc[r] \in {"checkChallenge", "checkAgain"} =>
         LET c == auth_challenges[body[r].nonce]
         IN  /\ row[r] # None /\ row[r].expires = c.expires
             /\ row[r].used # None => c.used # None

AnsweredOnce == \A r \in VerifyReqs : pc[r] = "done" <=> reply[r] # "none"

StampPast == \A r \in VerifyReqs : stamp[r] <= now

CauseInv ==
  /\ AuthInv /\ SignedStored /\ OwnStored /\ AnsweredOnce /\ StampPast /\ AnsweredForCause

\* A request arrived before the clock reading it is about to store.
ArrivedEarlier ==
  \A r \in VerifyReqs : body[r] # None =>
    /\ body[r].at <= now
    /\ pc[r] = "markUsed" => body[r].at <= stamp[r]

\* A token expires the session lifetime after its stamp; a session check was answered
\* for what the clock said when it began.
TokenDated ==
  \A r \in VerifyReqs : token[r] # None => token[r].exp = Seconds(stamp[r]) + SessionTTL

SessionDated ==
  \A s \in SessionReqs : session[s].pc # "idle" =>
    /\ session[s].pc = "lookup" => session[s].reply = "none"
    /\ session[s].pc = "lookup" \/ session[s].reply = "ok" =>
         Seconds(session[s].at) < token[session[s].from].exp
    /\ session[s].reply = "unauthenticated" =>
         Seconds(session[s].at) >= token[session[s].from].exp

\* A stored challenge stays, made out to the same wallet and with the same expiry; once
\* used it remains used.  The clock does not go back.
LEMMA ChallengesStay ==
  ASSUME AuthInv, [Next]_vars
  PROVE  /\ now' \in Nat /\ now <= now'
         /\ \A n \in Nonces : auth_challenges[n] # None =>
              /\ auth_challenges'[n] # None
              /\ auth_challenges'[n].wallet = auth_challenges[n].wallet
              /\ auth_challenges'[n].expires = auth_challenges[n].expires
              /\ auth_challenges[n].used # None =>
                   auth_challenges'[n].used = auth_challenges[n].used
<1> USE NoneAssumption, BoundAssumption
<1>0. TypeOK
  BY DEF AuthInv
<1>1. now' \in Nat /\ now <= now'
  <2>1. UNCHANGED now \/ now' = now + 1
    BY DEF Next, IssueStart, IssueInsert, IssueFails, SignMessage, VerifyStart, VerifyStep,
           VerifyFails, SessionStart, SessionLookup, SessionFails, Tick, Restart, GetChallenge,
           CheckChallenge, SelectChallenge, ReadChallenge, CheckAgain, Stamp, MarkUsed,
           SelectProfile, InsertProfile, IssueToken, vars
  <2>2. QED
    BY <1>0, <2>1 DEF TypeOK
<1>2. CASE UNCHANGED auth_challenges
  BY <1>1, <1>2
<1>3. ASSUME NEW n \in Nonces, IssueInsert(n)
      PROVE  \A m \in Nonces : auth_challenges[m] # None => auth_challenges'[m] = auth_challenges[m]
  BY <1>0, <1>3 DEF IssueInsert, AuthInv, NotYetStored, TypeOK
<1>4. ASSUME NEW r \in VerifyReqs, MarkUsed(r),
             NEW n \in Nonces, auth_challenges[n] # None
      PROVE  /\ auth_challenges'[n] # None
             /\ auth_challenges'[n].wallet = auth_challenges[n].wallet
             /\ auth_challenges'[n].expires = auth_challenges[n].expires
             /\ auth_challenges[n].used # None =>
                  auth_challenges'[n].used = auth_challenges[n].used
  <2>1. auth_challenges[n] \in Challenge /\ stamp[r] \in Nat /\ stamp[r] # None
    BY <1>0, <1>4 DEF TypeOK
  <2>2. CASE UNCHANGED auth_challenges
    BY <1>4, <2>2
  <2>3. CASE /\ auth_challenges[body[r].nonce].used = None
             /\ auth_challenges' = [auth_challenges EXCEPT ![body[r].nonce].used = stamp[r]]
    <3> DEFINE c == [auth_challenges[n] EXCEPT !.used = stamp[r]]
    <3>1. /\ c \in Challenge /\ c.wallet = auth_challenges[n].wallet
          /\ c.expires = auth_challenges[n].expires /\ c.used # None
      BY <2>1 DEF Challenge
    <3>2. \/ auth_challenges'[n] = auth_challenges[n]
          \/ auth_challenges[n].used = None /\ auth_challenges'[n] = c
      BY <1>0, <1>4, <2>3 DEF TypeOK
    <3>3. c # None
      BY <3>1
    <3> HIDE DEF c
    <3>4. QED
      BY <1>4, <3>1, <3>2, <3>3
  <2>4. QED
    BY <1>4, <2>2, <2>3 DEF MarkUsed, StillOpen
<1>5. QED
  BY <1>1, <1>2, <1>3, <1>4
  DEF Next, IssueStart, IssueFails, SignMessage, VerifyStart, VerifyStep, VerifyFails,
      SessionStart, SessionLookup, SessionFails, Tick, Restart, GetChallenge, CheckChallenge,
      SelectChallenge, ReadChallenge, CheckAgain, Stamp, SelectProfile, InsertProfile,
      IssueToken, vars, tables

\* Signatures and stored rows stay in step.
LEMMA SignedStep ==
  ASSUME AuthInv, SignedStored, [Next]_vars
  PROVE  SignedStored'
<1> USE NoneAssumption
<1>0. TypeOK
  BY DEF AuthInv
<1> USE DEF SignedStored
<1>1. CASE UNCHANGED <<issuing, signed>>
  BY <1>1, ChallengesStay
<1>2. ASSUME NEW n \in Nonces, IssueStart(n) PROVE SignedStored'
  BY <1>0, <1>2 DEF IssueStart, tables, TypeOK
<1>3. ASSUME NEW n \in Nonces, IssueInsert(n) PROVE SignedStored'
  <2> DEFINE c == [wallet |-> issuing[n].wallet, expires |-> issuing[n].expires, used |-> None]
  <2>1. /\ issuing[n].pc = "insert" /\ UNCHANGED signed
        /\ auth_challenges' = [auth_challenges EXCEPT ![n] = c]
        /\ \E label \in {"ready", "failed"} : issuing' = [issuing EXCEPT ![n].pc = label]
    BY <1>3 DEF IssueInsert
  <2>2. c \in Challenge /\ c # None /\ c.wallet = issuing[n].wallet
    BY <1>0, <2>1 DEF TypeOK, Issuing, Challenge
  <2>3. /\ auth_challenges'[n] = c /\ issuing'[n].wallet = issuing[n].wallet
        /\ \A m \in Nonces : m # n => /\ issuing'[m] = issuing[m]
                                      /\ auth_challenges'[m] = auth_challenges[m]
    BY <1>0, <2>1 DEF TypeOK, Issuing
  <2> HIDE DEF c
  <2>4. n \notin signed
    BY <2>1
  <2>5. QED
    BY <2>1, <2>2, <2>3, <2>4
<1>4. ASSUME NEW n \in Nonces, IssueFails(n) PROVE SignedStored'
  BY <1>0, <1>4 DEF IssueFails, tables, TypeOK, Issuing
<1>5. ASSUME NEW n \in Nonces, SignMessage(n) PROVE SignedStored'
  BY <1>0, <1>5 DEF SignMessage, tables, TypeOK
<1>6. CASE Restart
  <2>1. \A n \in Nonces : /\ issuing'[n].wallet = issuing[n].wallet
                          /\ issuing'[n].pc = "ready" <=> issuing[n].pc = "ready"
    <3>1. \A n \in Nonces : issuing'[n] = IF issuing[n].pc = "insert"
                                           THEN [issuing[n] EXCEPT !.pc = "failed"] ELSE issuing[n]
      BY <1>6 DEF Restart
    <3>2. \A n \in Nonces : issuing[n] \in Issuing
      BY <1>0 DEF TypeOK
    <3>3. QED
      BY <3>1, <3>2 DEF Issuing
  <2>2. QED
    BY <1>6, <2>1 DEF Restart, tables
<1>7. QED
  BY <1>1, <1>2, <1>3, <1>4, <1>5, <1>6
  DEF Next, VerifyStart, VerifyStep, VerifyFails, SessionStart, SessionLookup, SessionFails,
      Tick, GetChallenge, CheckChallenge, SelectChallenge, ReadChallenge, CheckAgain, Stamp,
      MarkUsed, SelectProfile, InsertProfile, IssueToken, vars

\* A request is answered when it is done; what it stamped lies in the past.
LEMMA AnswerStep ==
  ASSUME AuthInv, AnsweredOnce, StampPast, [Next]_vars
  PROVE  AnsweredOnce' /\ StampPast'
<1>0. TypeOK /\ now' \in Nat /\ now <= now'
  BY ChallengesStay DEF AuthInv
<1> USE <1>0 DEF AnsweredOnce, StampPast, TypeOK
<1>1. CASE UNCHANGED <<pc, reply, stamp>>
  BY <1>1
<1>2. ASSUME NEW r \in VerifyReqs,
             VerifyStart(r) \/ GetChallenge(r) \/ CheckChallenge(r) \/ SelectChallenge(r)
             \/ CheckAgain(r) \/ MarkUsed(r) \/ SelectProfile(r) \/ InsertProfile(r)
             \/ VerifyFails(r)
      PROVE  AnsweredOnce' /\ StampPast'
  <2>1. /\ UNCHANGED <<stamp, now>> /\ pc[r] # "done"
        /\ \/ \E label \in VerifyPC \ {"done"} : pc' = [pc EXCEPT ![r] = label] /\ UNCHANGED reply
           \/ \E code \in Reply \ {"none"} :
                pc' = [pc EXCEPT ![r] = "done"] /\ reply' = [reply EXCEPT ![r] = code]
    BY <1>2 DEF VerifyStart, GetChallenge, CheckChallenge, SelectChallenge, ReadChallenge,
                CheckAgain, MarkUsed, SelectProfile, InsertProfile, VerifyFails
  <2>2. QED
    BY <2>1
<1>3. ASSUME NEW r \in VerifyReqs, Stamp(r) \/ IssueToken(r)
      PROVE  AnsweredOnce' /\ StampPast'
  BY <1>3 DEF Stamp, IssueToken
<1>4. CASE Restart
  BY <1>4 DEF Restart
<1>5. QED
  BY <1>1, <1>2, <1>3, <1>4
  DEF Next, IssueStart, IssueInsert, IssueFails, SignMessage, VerifyStep, SessionStart,
      SessionLookup, SessionFails, Tick, vars, verifyVars

\* A correctly signed request finds the challenge it names.
LEMMA OwnStoredStep ==
  ASSUME AuthInv, SignedStored, OwnStored, [Next]_vars
  PROVE  OwnStored'
<1> USE NoneAssumption
<1>0. TypeOK
  BY DEF AuthInv
<1>1. \A q \in VerifyReqs : body[q] # None /\ body[q].own => body[q].nonce \in Nonces
  BY <1>0 DEF TypeOK, Body
<1>2. ASSUME NEW q \in VerifyReqs, body[q] # None, body[q].own, body'[q] = body[q],
             row'[q] = row[q],
             pc'[q] \in {"checkChallenge", "checkAgain"} => pc[q] \in {"checkChallenge", "checkAgain"}
      PROVE  /\ OwnRow(q)'
             /\ pc'[q] \in {"checkChallenge", "checkAgain"} =>
                  LET c == auth_challenges'[body[q].nonce]
                  IN  /\ row[q] # None /\ row[q].expires = c.expires
                      /\ row[q].used # None => c.used # None
  BY <1>1, <1>2, ChallengesStay DEF OwnStored, OwnRow
<1>3. CASE UNCHANGED <<pc, body, row>>
  BY <1>2, <1>3 DEF OwnStored
<1>4. ASSUME NEW r \in VerifyReqs, VerifyStart(r) PROVE OwnStored'
  <2>1. PICK w \in Wallets, n \in Nonces, own \in BOOLEAN :
          /\ own => n \in signed /\ issuing[n].wallet = w
          /\ body' = [body EXCEPT ![r] =
                        [wallet |-> w, nonce |-> n, own |-> own, at |-> IF own THEN now ELSE 0]]
    BY <1>4 DEF VerifyStart
  <2>2. own => OwnRow(r)'
    BY <1>0, <1>4, <2>1 DEF SignedStored, OwnRow, VerifyStart, tables, TypeOK
  <2>3. pc'[r] \in {"getChallenge", "done"} /\ body'[r].own = own
        /\ \A q \in VerifyReqs : q # r => pc'[q] = pc[q] /\ body'[q] = body[q] /\ row'[q] = row[q]
    BY <1>0, <1>4, <2>1 DEF VerifyStart, TypeOK
  <2>4. QED
    BY <1>2, <2>2, <2>3 DEF OwnStored
<1>5. ASSUME NEW r \in VerifyReqs, GetChallenge(r) \/ SelectChallenge(r) PROVE OwnStored'
  <2>1. /\ row'[r] = ChallengeRow(body[r].wallet, body[r].nonce)
        /\ UNCHANGED <<body, auth_challenges>>
        /\ \A q \in VerifyReqs : q # r => pc'[q] = pc[q] /\ row'[q] = row[q]
    BY <1>0, <1>5 DEF GetChallenge, SelectChallenge, ReadChallenge, TypeOK, tables
  <2>2. body[r] # None /\ body[r].own =>
          OwnRow(r) /\ row'[r] = auth_challenges[body[r].nonce] /\ row'[r] # None
    BY <2>1 DEF OwnStored, OwnRow, ChallengeRow
  <2>3. QED
    BY <2>1, <2>2 DEF OwnStored, OwnRow
<1>6. ASSUME NEW r \in VerifyReqs,
             CheckChallenge(r) \/ CheckAgain(r) \/ Stamp(r) \/ MarkUsed(r) \/ SelectProfile(r)
             \/ InsertProfile(r) \/ IssueToken(r) \/ VerifyFails(r)
      PROVE  OwnStored'
  <2>1. /\ UNCHANGED <<body, row>>
        /\ \E label \in VerifyPC \ {"checkChallenge", "checkAgain"} : pc' = [pc EXCEPT ![r] = label]
    BY <1>6 DEF CheckChallenge, CheckAgain, Stamp, MarkUsed, SelectProfile, InsertProfile,
                IssueToken, VerifyFails
  <2>2. \A q \in VerifyReqs : pc'[q] \in {"checkChallenge", "checkAgain"} =>
                              pc[q] \in {"checkChallenge", "checkAgain"}
    BY <1>0, <2>1 DEF TypeOK
  <2>3. QED
    BY <1>2, <2>1, <2>2 DEF OwnStored
<1>7. CASE Restart
  BY <1>2, <1>7 DEF Restart, OwnStored
<1>8. QED
  BY <1>3, <1>4, <1>5, <1>6, <1>7
  DEF Next, IssueStart, IssueInsert, IssueFails, SignMessage, VerifyStep, SessionStart,
      SessionLookup, SessionFails, Tick, vars, verifyVars

\* A correctly signed request is refused only when its challenge is redeemed or late.
LEMMA CauseStep ==
  ASSUME CauseInv, [Next]_vars
  PROVE  CauseInv'
<1> USE NoneAssumption
<1>0. AuthInv /\ TypeOK /\ AuthInv'
  BY AuthStep DEF CauseInv, AuthInv
<1>1. SignedStored' /\ OwnStored' /\ AnsweredOnce' /\ StampPast'
  BY <1>0, SignedStep, OwnStoredStep, AnswerStep DEF CauseInv
<1> DEFINE Gone(q) == LET c == auth_challenges[body[q].nonce]
                      IN  c # None /\ (c.used # None \/ c.expires <= now)
<1>2. ASSUME NEW q \in VerifyReqs, body[q] # None, body'[q] = body[q], Gone(q)
      PROVE  Gone(q)'
  <2> DEFINE n == body[q].nonce
  <2>1. n \in Nonces
    BY <1>0, <1>2 DEF TypeOK, Body
  <2>2. auth_challenges[n] \in Challenge /\ auth_challenges[n].expires \in Nat
    BY <1>0, <1>2, <2>1 DEF TypeOK, Challenge
  <2>3. QED
    BY <1>0, <1>2, <2>1, <2>2, ChallengesStay DEF TypeOK
<1>3. ASSUME NEW r \in VerifyReqs, CheckChallenge(r) \/ CheckAgain(r) \/ MarkUsed(r),
             reply'[r] = "unauthenticated", body[r].own
      PROVE  Gone(r)'
  <2>1. body[r] # None /\ body[r].nonce \in Nonces /\ body'[r] = body[r] /\ pc[r] # "done"
    BY <1>0, <1>3 DEF CheckChallenge, CheckAgain, MarkUsed, TypeOK, Body
  <2>2. OwnRow(r) /\ reply[r] = "none"
    BY <1>3, <2>1 DEF CauseInv, OwnStored, AnsweredOnce
  <2>3. CASE CheckChallenge(r) \/ CheckAgain(r)
    <3>1. ~Redeemable(row[r]) /\ pc[r] \in {"checkChallenge", "checkAgain"}
      BY <1>0, <1>3, <2>2, <2>3 DEF CheckChallenge, CheckAgain, TypeOK
    <3>2. /\ row[r] # None /\ row[r].expires = auth_challenges[body[r].nonce].expires
          /\ row[r].used # None => auth_challenges[body[r].nonce].used # None
      BY <1>3, <2>1, <3>1 DEF CauseInv, OwnStored
    <3>3. row[r].expires \in Nat /\ now \in Nat
      BY <1>0, <3>2 DEF TypeOK, Challenge
    <3>4. Gone(r)
      BY <2>2, <3>1, <3>2, <3>3 DEF Redeemable, OwnRow
    <3>5. QED
      BY <1>2, <2>1, <3>4
  <2>4. CASE MarkUsed(r)
    <3>1. ~StillOpen(auth_challenges[body[r].nonce], stamp[r])
      BY <1>0, <1>3, <2>2, <2>4 DEF MarkUsed, TypeOK
    <3>2. /\ stamp[r] <= now /\ stamp[r] \in Nat /\ now \in Nat
          /\ auth_challenges[body[r].nonce] # None
          /\ auth_challenges[body[r].nonce].expires \in Nat
      BY <1>0, <2>1, <2>2 DEF CauseInv, StampPast, TypeOK, Challenge, OwnRow
    <3>3. Gone(r)
      BY <3>1, <3>2 DEF StillOpen
    <3>4. QED
      BY <1>2, <2>1, <3>3
  <2>5. QED
    BY <1>3, <2>3, <2>4
<1>4. ASSUME NEW q \in VerifyReqs, reply'[q] = "unauthenticated", body'[q].own
      PROVE  Gone(q)'
  <2>1. CASE reply[q] = "unauthenticated"
    <3>1. pc[q] = "done" /\ body[q] # None
      BY <1>0, <2>1 DEF CauseInv, AnsweredOnce, TypeOK
    <3>2. body'[q] = body[q]
      <4>1. UNCHANGED body \/ \E r \in VerifyReqs : VerifyStart(r)
        BY DEF Next, IssueStart, IssueInsert, IssueFails, SignMessage, VerifyStep, VerifyFails,
               GetChallenge, CheckChallenge, SelectChallenge, ReadChallenge, CheckAgain, Stamp,
               MarkUsed, SelectProfile, InsertProfile, IssueToken, SessionStart, SessionLookup,
               SessionFails, Tick, Restart, vars, verifyVars
      <4>2. QED
        BY <1>0, <3>1, <4>1 DEF VerifyStart, TypeOK
    <3>3. QED
      BY <1>2, <1>4, <2>1, <3>1, <3>2 DEF CauseInv, AnsweredForCause
  <2>2. CASE reply[q] # "unauthenticated"
    <3>1. CheckChallenge(q) \/ CheckAgain(q) \/ MarkUsed(q)
      <4>1. ASSUME NEW r \in VerifyReqs,
                   VerifyStart(r) \/ VerifyStep(r) \/ VerifyFails(r)
            PROVE  q = r /\ (CheckChallenge(q) \/ CheckAgain(q) \/ MarkUsed(q))
        BY <1>0, <1>4, <2>2, <4>1
        DEF VerifyStart, VerifyStep, VerifyFails, GetChallenge, CheckChallenge, SelectChallenge,
            ReadChallenge, CheckAgain, Stamp, MarkUsed, SelectProfile, InsertProfile, IssueToken,
            TypeOK
      <4>2. CASE UNCHANGED reply
        BY <1>4, <2>2, <4>2
      <4>3. CASE Restart
        BY <1>4, <2>2, <4>3 DEF Restart
      <4>4. QED
        BY <4>1, <4>2, <4>3
        DEF Next, IssueStart, IssueInsert, IssueFails, SignMessage, SessionStart, SessionLookup,
            SessionFails, Tick, vars, verifyVars
    <3>2. body'[q] = body[q]
      BY <3>1 DEF CheckChallenge, CheckAgain, MarkUsed
    <3>3. QED
      BY <1>3, <1>4, <3>1, <3>2
  <2>3. QED
    BY <2>1, <2>2
<1>5. AnsweredForCause'
  BY <1>1, <1>4 DEF AnsweredForCause, AnsweredOnce
<1>6. QED
  BY <1>0, <1>1, <1>5 DEF CauseInv

\* A verify request that has ended was answered, and a correctly signed one is refused
\* only when its challenge is redeemed or past its expiry.
THEOREM RefusedForCause == Spec => []AnsweredForCause
<1>1. Init /\ AuthInv => CauseInv
  BY DEF Init, CauseInv, SignedStored, OwnStored, AnsweredOnce, StampPast, AnsweredForCause
<1>2. CauseInv => AnsweredForCause
  BY DEF CauseInv
<1>3. QED
  BY <1>1, <1>2, CauseStep, AuthInvariant, PTL DEF Spec

\* A request keeps its body once it has one.
LEMMA BodiesStay ==
  ASSUME AuthInv, [Next]_vars, NEW r \in VerifyReqs, body[r] # None
  PROVE  body'[r] = body[r] /\ pc'[r] # "idle"
<1>1. TypeOK /\ TypeOK'
  BY AuthStep DEF AuthInv
<1>2. body'[r] = body[r]
  <2>1. UNCHANGED body \/ \E q \in VerifyReqs : VerifyStart(q)
    BY DEF Next, IssueStart, IssueInsert, IssueFails, SignMessage, VerifyStep, VerifyFails,
           GetChallenge, CheckChallenge, SelectChallenge, ReadChallenge, CheckAgain, Stamp,
           MarkUsed, SelectProfile, InsertProfile, IssueToken, SessionStart, SessionLookup,
           SessionFails, Tick, Restart, vars, verifyVars
  <2>2. QED
    BY <1>1, <2>1 DEF VerifyStart, TypeOK
<1>3. QED
  BY <1>1, <1>2 DEF TypeOK

\* The clock reading a request stores is taken after the request arrived.
LEMMA ArrivedStep ==
  ASSUME AuthInv, ArrivedEarlier, [Next]_vars
  PROVE  ArrivedEarlier'
<1>0. TypeOK /\ TypeOK' /\ now \in Nat /\ now' \in Nat /\ now <= now'
  BY AuthStep, ChallengesStay DEF AuthInv, TypeOK
<1> SUFFICES ASSUME NEW r \in VerifyReqs, body'[r] # None
             PROVE  /\ body'[r].at <= now'
                    /\ pc'[r] = "markUsed" => body'[r].at <= stamp'[r]
  BY DEF ArrivedEarlier
<1>1. CASE body[r] = None
  <2>1. PICK q \in VerifyReqs : VerifyStart(q)
    BY <1>1 DEF Next, IssueStart, IssueInsert, IssueFails, SignMessage, VerifyStep, VerifyFails,
           GetChallenge, CheckChallenge, SelectChallenge, ReadChallenge, CheckAgain, Stamp,
           MarkUsed, SelectProfile, InsertProfile, IssueToken, SessionStart, SessionLookup,
           SessionFails, Tick, Restart, vars, verifyVars
  <2>2. q = r /\ pc'[r] # "markUsed"
    BY <1>0, <1>1, <2>1 DEF VerifyStart, TypeOK
  <2>3. body'[r].at \in {0, now}
    BY <1>0, <2>1, <2>2 DEF VerifyStart, TypeOK
  <2>4. QED
    BY <1>0, <2>2, <2>3
<1>2. CASE body[r] # None
  <2>1. body'[r] = body[r] /\ body[r].at \in Nat /\ body[r].at <= now
    BY <1>0, <1>2, BodiesStay DEF ArrivedEarlier, TypeOK, Body
  <2> DEFINE Kept == pc'[r] = "markUsed" => (pc[r] = "markUsed" /\ stamp'[r] = stamp[r])
  <2>2. Stamp(r) \/ Kept
    <3>1. UNCHANGED <<pc, stamp>> => Kept
      OBVIOUS
    <3>2. CASE Restart
      BY <1>0, <3>2 DEF Restart, TypeOK
    <3>3. ASSUME NEW q \in VerifyReqs, VerifyStart(q) \/ VerifyFails(q)
          PROVE  Kept
      BY <1>0, <3>3 DEF VerifyStart, VerifyFails, TypeOK
    <3>4. ASSUME NEW q \in VerifyReqs, Stamp(q)
          PROVE  Stamp(r) \/ Kept
      <4>1. CASE q = r
        BY <3>4, <4>1
      <4>2. CASE q # r
        BY <1>0, <3>4, <4>2 DEF Stamp, TypeOK
      <4>3. QED
        BY <4>1, <4>2
    <3>5. ASSUME NEW q \in VerifyReqs,
                 \/ GetChallenge(q) \/ CheckChallenge(q) \/ SelectChallenge(q)
                 \/ CheckAgain(q) \/ MarkUsed(q) \/ SelectProfile(q) \/ InsertProfile(q)
          PROVE  Kept
      BY <1>0, <3>5
      DEF GetChallenge, CheckChallenge, SelectChallenge, ReadChallenge, CheckAgain, MarkUsed,
          SelectProfile, InsertProfile, TypeOK
    <3>6. ASSUME NEW q \in VerifyReqs, IssueToken(q)
          PROVE  Kept
      BY <1>0, <3>6 DEF IssueToken, TypeOK
    <3> HIDE DEF Kept
    <3>7. QED
      BY <3>1, <3>2, <3>3, <3>4, <3>5, <3>6
      DEF Next, IssueStart, IssueInsert, IssueFails, SignMessage, VerifyStep, SessionStart,
          SessionLookup, SessionFails, Tick, vars, verifyVars
  <2>3. Stamp(r) => stamp'[r] = now
    BY <1>0 DEF Stamp, TypeOK
  <2>4. QED
    BY <1>0, <1>2, <2>1, <2>2, <2>3 DEF ArrivedEarlier
<1>3. QED
  BY <1>1, <1>2

\* Has r burned n, in time and with the owner's signature?
Burner(r, n) ==
  /\ pc[r] \in {"selectProfile", "insertProfile", "issueToken", "done"}
  /\ body[r].nonce = n /\ body[r].wallet = auth_challenges[n].wallet /\ body[r].own
  /\ body[r].at <= auth_challenges[n].used
  /\ auth_challenges[n].used < auth_challenges[n].expires
  /\ auth_challenges[n].used <= now

\* The request that burned a challenge keeps standing for it.
LEMMA BurnerStays ==
  ASSUME AuthInv, [Next]_vars, NEW n \in Nonces, NEW r \in VerifyReqs, Burner(r, n),
         auth_challenges[n] # None, auth_challenges[n].used # None
  PROVE  Burner(r, n)'
<1>0. TypeOK /\ TypeOK'
  BY AuthStep DEF AuthInv
<1>1. body[r] # None /\ body'[r] = body[r]
  BY <1>0, BodiesStay DEF Burner, TypeOK
<1>2. auth_challenges'[n].wallet = auth_challenges[n].wallet
      /\ auth_challenges'[n].expires = auth_challenges[n].expires
      /\ auth_challenges'[n].used = auth_challenges[n].used
      /\ now <= now' /\ now \in Nat /\ now' \in Nat
  BY <1>0, ChallengesStay DEF TypeOK
<1>3. auth_challenges[n].used \in Nat
  BY <1>0 DEF TypeOK, Challenge
<1>4. pc'[r] \in {"selectProfile", "insertProfile", "issueToken", "done"}
  <2>1. pc[r] \in {"selectProfile", "insertProfile", "issueToken", "done"}
    BY DEF Burner
  <2>2. CASE pc'[r] = pc[r]
    BY <2>1, <2>2
  <2>3. CASE Restart
    BY <1>0, <2>1, <2>3 DEF Restart, TypeOK
  <2>4. ASSUME NEW q \in VerifyReqs, VerifyStart(q) \/ VerifyFails(q) \/ VerifyStep(q)
        PROVE  pc'[r] \in {"selectProfile", "insertProfile", "issueToken", "done"}
    BY <1>0, <2>1, <2>4
    DEF VerifyStart, VerifyFails, VerifyStep, GetChallenge, CheckChallenge, SelectChallenge,
        ReadChallenge, CheckAgain, Stamp, MarkUsed, SelectProfile, InsertProfile, IssueToken,
        TypeOK
  <2>5. QED
    BY <2>2, <2>3, <2>4
    DEF Next, IssueStart, IssueInsert, IssueFails, SignMessage, SessionStart, SessionLookup,
        SessionFails, Tick, vars, verifyVars
<1>5. QED
  BY <1>1, <1>2, <1>3, <1>4 DEF Burner

\* Only the update of a request that passed both checks burns a challenge.
LEMMA SpentStep ==
  ASSUME AuthInv, StampPast, ArrivedEarlier, SpentProperly, [Next]_vars
  PROVE  SpentProperly'
<1> USE NoneAssumption
<1>0. TypeOK /\ TypeOK'
  BY AuthStep DEF AuthInv
<1> SUFFICES ASSUME NEW n \in Nonces, auth_challenges'[n] # None,
                    auth_challenges'[n].used # None
             PROVE  \E r \in VerifyReqs : Burner(r, n)'
  BY DEF SpentProperly, Burner
<1>1. CASE auth_challenges[n] # None /\ auth_challenges[n].used # None
  <2>1. PICK r \in VerifyReqs : Burner(r, n)
    BY <1>1 DEF SpentProperly, Burner
  <2>2. QED
    BY <1>1, <2>1, BurnerStays
<1>2. CASE ~(auth_challenges[n] # None /\ auth_challenges[n].used # None)
  <2>1. ASSUME NEW m \in Nonces, IssueInsert(m) PROVE FALSE
    <3> DEFINE c == [wallet |-> issuing[m].wallet, expires |-> issuing[m].expires,
                     used |-> None]
    <3>1. auth_challenges' = [auth_challenges EXCEPT ![m] = c] /\ c.used = None
      BY <2>1 DEF IssueInsert
    <3> HIDE DEF c
    <3>2. QED
      BY <1>0, <1>2, <3>1 DEF TypeOK
  <2>2. PICK r \in VerifyReqs : MarkUsed(r)
    BY <1>2, <2>1
    DEF Next, IssueStart, IssueFails, SignMessage, VerifyStart, VerifyStep,
        VerifyFails, GetChallenge, CheckChallenge, SelectChallenge, ReadChallenge, CheckAgain,
        Stamp, SelectProfile, InsertProfile, IssueToken, SessionStart, SessionLookup,
        SessionFails, Tick, Restart, vars, tables
  <2> DEFINE m == body[r].nonce
             c == [auth_challenges[m] EXCEPT !.used = stamp[r]]
  <2>3. /\ pc[r] = "markUsed" /\ StillOpen(auth_challenges[m], stamp[r])
        /\ auth_challenges' = [auth_challenges EXCEPT ![m] = c]
        /\ UNCHANGED <<body, now>>
    BY <1>2, <2>2 DEF MarkUsed
  <2>4. /\ body[r] # None /\ m \in Nonces /\ body[r].own
        /\ body[r].wallet = auth_challenges[m].wallet
        /\ stamp[r] <= now /\ body[r].at <= stamp[r]
    BY <1>0, <2>3 DEF AuthInv, Checked, OwnRow, StampPast, ArrivedEarlier, TypeOK, Body
  <2>5. /\ c.used = stamp[r] /\ c.wallet = auth_challenges[m].wallet
        /\ c.expires = auth_challenges[m].expires /\ stamp[r] < auth_challenges[m].expires
    BY <1>0, <2>3, <2>4 DEF StillOpen, TypeOK, Challenge
  <2> HIDE DEF c
  <2>6. n = m /\ auth_challenges'[n] = c
    BY <1>0, <1>2, <2>3, <2>4 DEF TypeOK
  <2>7. pc'[r] \in {"selectProfile", "done"}
    BY <1>0, <2>2 DEF MarkUsed, TypeOK
  <2> HIDE DEF m
  <2>8. Burner(r, n)'
    <3>1. body'[r] = body[r] /\ now' = now /\ body[r].nonce = n
      BY <2>3, <2>6 DEF m
    <3>2. QED
      BY <2>4, <2>5, <2>6, <2>7, <3>1 DEF Burner
  <2>9. QED
    BY <2>8
<1>3. QED
  BY <1>1, <1>2

\* A challenge is burned only by its owner's request, one that arrived and read its
\* used_at within the challenge's life, whenever the update itself lands.
THEOREM BurnedProperly == Spec => []SpentProperly
<1>1. Init => AnsweredOnce /\ StampPast /\ ArrivedEarlier /\ SpentProperly
  BY NoneAssumption DEF Init, AnsweredOnce, StampPast, ArrivedEarlier, SpentProperly
<1>2. /\ AuthInv /\ AnsweredOnce /\ StampPast /\ ArrivedEarlier /\ SpentProperly
      /\ [Next]_vars
      => (AnsweredOnce /\ StampPast /\ ArrivedEarlier /\ SpentProperly)'
  BY AnswerStep, ArrivedStep, SpentStep
<1>3. QED
  BY <1>1, <1>2, AuthInvariant, PTL DEF Spec

\* Rounding down to seconds loses less than a second.
LEMMA SecondsBounds ==
  ASSUME NEW t \in Nat
  PROVE  /\ Seconds(t) * TicksPerSecond <= t
         /\ t < (Seconds(t) + 1) * TicksPerSecond
BY TTLAssumption DEF Seconds

\* A token expired by the seconds is older than its lifetime less a second; one that is
\* not is younger than its lifetime.
LEMMA AgeBounds ==
  ASSUME NEW made \in Nat, NEW at \in Nat
  PROVE  /\ Seconds(at) < Seconds(made) + SessionTTL => at - made < SessionTTL * TicksPerSecond
         /\ Seconds(at) >= Seconds(made) + SessionTTL =>
              at - made > (SessionTTL - 1) * TicksPerSecond
<1> DEFINE a == Seconds(at)
           m == Seconds(made)
           T == TicksPerSecond
<1>1. a \in Nat /\ m \in Nat /\ T \in Nat \ {0} /\ SessionTTL \in Nat
  BY SecondsNat, TTLAssumption
<1>2. a * T <= at /\ at < (a + 1) * T /\ m * T <= made /\ made < (m + 1) * T
  BY SecondsBounds
<1>3. ASSUME NEW x \in Nat, NEW y \in Nat, x <= y
      PROVE  x * T <= y * T
  BY <1>1, <1>3
<1> HIDE DEF a, m, T
<1>4. ASSUME a < m + SessionTTL PROVE at - made < SessionTTL * T
  <2>1. (a + 1) * T <= (m + SessionTTL) * T
    BY <1>1, <1>3, <1>4
  <2>2. (m + SessionTTL) * T = m * T + SessionTTL * T
    BY <1>1
  <2> DEFINE x == m * T
             y == SessionTTL * T
             z == (a + 1) * T
  <2>3. x \in Nat /\ y \in Nat /\ z \in Nat /\ z <= x + y
    BY <1>1, <2>1, <2>2
  <2>4. at < z /\ x <= made
    BY <1>2
  <2> HIDE DEF x, y, z
  <2>5. at - made < y
    BY <2>3, <2>4
  <2>6. QED
    BY <2>5 DEF y
<1>5. ASSUME a >= m + SessionTTL PROVE at - made > (SessionTTL - 1) * T
  <2>1. (m + SessionTTL) * T <= a * T
    BY <1>1, <1>3, <1>5
  <2>2. (m + SessionTTL) * T = (m + 1) * T + (SessionTTL - 1) * T
    BY <1>1
  <2> DEFINE x == (m + 1) * T
             y == (SessionTTL - 1) * T
             z == a * T
  <2>3. x \in Nat /\ y \in Int /\ z \in Nat /\ x + y <= z
    BY <1>1, <2>1, <2>2
  <2>4. z <= at /\ made < x
    BY <1>2
  <2> HIDE DEF x, y, z
  <2>5. at - made > y
    BY <2>3, <2>4
  <2>6. QED
    BY <2>5 DEF y
<1>6. QED
  BY <1>4, <1>5 DEF a, m, T

\* A delivered token and its stamp never change.
LEMMA TokensStay ==
  ASSUME AuthInv, [Next]_vars, NEW r \in VerifyReqs, token[r] # None
  PROVE  token'[r] = token[r] /\ stamp'[r] = stamp[r]
<1>1. TypeOK /\ pc[r] = "done"
  BY DEF AuthInv, TypeOK
<1>2. CASE UNCHANGED <<token, stamp>>
  BY <1>2
<1>3. ASSUME NEW q \in VerifyReqs, Stamp(q) \/ IssueToken(q)
      PROVE  token'[r] = token[r] /\ stamp'[r] = stamp[r]
  BY <1>1, <1>3 DEF Stamp, IssueToken, TypeOK
<1>4. QED
  BY <1>2, <1>3
  DEF Next, IssueStart, IssueInsert, IssueFails, SignMessage, VerifyStart, VerifyStep,
      VerifyFails, GetChallenge, CheckChallenge, SelectChallenge, ReadChallenge, CheckAgain,
      MarkUsed, SelectProfile, InsertProfile, SessionStart, SessionLookup, SessionFails, Tick,
      Restart, vars, verifyVars

\* Tokens are dated when they are made, session checks answered by that date.
LEMMA LifetimeStep ==
  ASSUME AuthInv, TokenDated, SessionDated, [Next]_vars
  PROVE  TokenDated' /\ SessionDated'
<1> USE NoneAssumption
<1>0. TypeOK /\ TypeOK'
  BY AuthStep DEF AuthInv
<1>1. TokenDated'
  <2>1. ASSUME NEW r \in VerifyReqs, token[r] # None
        PROVE  token'[r].exp = Seconds(stamp'[r]) + SessionTTL
    BY <2>1, TokensStay DEF TokenDated
  <2>2. CASE UNCHANGED token
    BY <2>1, <2>2 DEF TokenDated
  <2>3. ASSUME NEW r \in VerifyReqs, IssueToken(r)
        PROVE  TokenDated'
    <3>1. stamp'[r] = now /\ token'[r] = SessionToken(profileId[r], body[r].wallet)
          /\ \A q \in VerifyReqs : q # r => token'[q] = token[q]
      BY <1>0, <2>3 DEF IssueToken, TypeOK
    <3>2. token'[r].exp = Seconds(stamp'[r]) + SessionTTL
      BY <3>1 DEF SessionToken
    <3>3. QED
      BY <2>1, <3>1, <3>2 DEF TokenDated
  <2>4. QED
    BY <2>2, <2>3
    DEF Next, IssueStart, IssueInsert, IssueFails, SignMessage, VerifyStart, VerifyStep,
        VerifyFails, GetChallenge, CheckChallenge, SelectChallenge, ReadChallenge, CheckAgain,
        Stamp, MarkUsed, SelectProfile, InsertProfile, SessionStart, SessionLookup, SessionFails,
        Tick, Restart, vars, verifyVars
<1> DEFINE Dated(x, exp) ==
      /\ x.pc = "lookup" => x.reply = "none"
      /\ x.pc = "lookup" \/ x.reply = "ok" => Seconds(x.at) < exp
      /\ x.reply = "unauthenticated" => Seconds(x.at) >= exp
<1>2. ASSUME NEW s \in SessionReqs, session[s].pc # "idle"
      PROVE  /\ session[s].from \in VerifyReqs /\ token[session[s].from] # None
             /\ token[session[s].from].exp \in Nat /\ session[s] \in SessionReq
             /\ token'[session[s].from] = token[session[s].from]
             /\ Dated(session[s], token[session[s].from].exp)
  <2>1. session[s].from \in VerifyReqs /\ token[session[s].from] # None
        /\ session[s] \in SessionReq
    BY <1>0, <1>2 DEF TypeOK, SessionReq
  <2>2. token[session[s].from] \in Token
    BY <1>0, <2>1 DEF TypeOK
  <2>3. QED
    BY <1>2, <2>1, <2>2, TokensStay DEF SessionDated, Token
<1>3. ASSUME NEW s \in SessionReqs, session'[s].pc # "idle",
             /\ session'[s].from \in VerifyReqs
             /\ Dated(session'[s], token'[session'[s].from].exp)
             /\ \A t \in SessionReqs : t # s => session'[t] = session[t]
      PROVE  SessionDated'
  BY <1>2, <1>3 DEF SessionDated
<1>4. ASSUME UNCHANGED session PROVE SessionDated'
  <2>1. \A s \in SessionReqs : session'[s] = session[s]
    BY <1>4
  <2>2. ASSUME NEW s \in SessionReqs, session'[s].pc # "idle"
        PROVE  Dated(session'[s], token'[session'[s].from].exp)
    BY <1>2, <2>1, <2>2
  <2>3. QED
    BY <2>2 DEF SessionDated
<1>5. ASSUME NEW s \in SessionReqs, SessionStart(s) PROVE SessionDated'
  <2>1. PICK r \in VerifyReqs :
          /\ token[r] # None
          /\ session' = [session EXCEPT ![s] =
               IF Unexpired(token[r])
                 THEN [pc |-> "lookup", from |-> r, at |-> now, reply |-> "none"]
                 ELSE [pc |-> "done", from |-> r, at |-> now, reply |-> "unauthenticated"]]
    BY <1>5 DEF SessionStart
  <2>2. token'[r] = token[r] /\ token[r].exp \in Nat /\ Seconds(now) \in Nat
    BY <1>0, <2>1, TokensStay, SecondsNat DEF TypeOK, Token
  <2>3. /\ session'[s].from = r /\ session'[s].at = now
        /\ IF Seconds(now) < token[r].exp
             THEN session'[s].pc = "lookup" /\ session'[s].reply = "none"
             ELSE session'[s].pc = "done" /\ session'[s].reply = "unauthenticated"
        /\ \A t \in SessionReqs : t # s => session'[t] = session[t]
    BY <1>0, <2>1 DEF TypeOK, Unexpired
  <2>4. Dated(session'[s], token'[session'[s].from].exp) /\ session'[s].pc # "idle"
    BY <2>2, <2>3
  <2> HIDE DEF Dated
  <2>5. QED
    BY <1>3, <2>3, <2>4
<1>6. ASSUME NEW s \in SessionReqs, NEW code \in Reply, session[s].pc = "lookup",
             session' = [session EXCEPT ![s].pc = "done", ![s].reply = code],
             code # "unauthenticated"
      PROVE  SessionDated'
  <2>1. session[s] \in SessionReq
    BY <1>0 DEF TypeOK
  <2> DEFINE y == [session[s] EXCEPT !.pc = "done", !.reply = code]
  <2>2. session'[s] = y /\ \A t \in SessionReqs : t # s => session'[t] = session[t]
    BY <1>0, <1>6 DEF TypeOK
  <2>3. y.pc = "done" /\ y.reply = code /\ y.from = session[s].from /\ y.at = session[s].at
    BY <2>1 DEF SessionReq
  <2> HIDE DEF y
  <2>4. Dated(session'[s], token'[session'[s].from].exp)
    BY <1>2, <1>6, <2>2, <2>3
  <2>5. session'[s].pc # "idle" /\ session'[s].from \in VerifyReqs
    BY <1>2, <1>6, <2>2, <2>3
  <2> HIDE DEF Dated
  <2>6. QED
    BY <1>3, <2>2, <2>4, <2>5
<1>7. ASSUME NEW s \in SessionReqs, SessionLookup(s) \/ SessionFails(s) PROVE SessionDated'
  <2>1. session[s].pc = "lookup"
    BY <1>7 DEF SessionLookup, SessionFails
  <2>2. Holder(token[session[s].from]) \in profiles
    BY <1>2, <2>1 DEF AuthInv, TokenBacked
  <2>3. \E code \in Reply \ {"unauthenticated"} :
          session' = [session EXCEPT ![s].pc = "done", ![s].reply = code]
    BY <1>7, <2>2 DEF SessionLookup, SessionFails, SessionAnswer
  <2>4. QED
    BY <1>6, <2>1, <2>3
<1>8. ASSUME Restart PROVE SessionDated'
  <2> SUFFICES ASSUME NEW s \in SessionReqs, session'[s].pc # "idle"
               PROVE  Dated(session'[s], token'[session'[s].from].exp)
    BY Zenon DEF SessionDated
  <2>1. session[s] \in SessionReq
        /\ session'[s] = IF session[s].pc = "lookup"
                           THEN [session[s] EXCEPT !.pc = "done", !.reply = "dropped"]
                           ELSE session[s]
    BY <1>0, <1>8 DEF Restart, TypeOK
  <2>2. session[s].pc # "idle"
    BY <2>1
  <2>3. CASE session[s].pc = "lookup"
    <3>1. /\ session'[s].pc = "done" /\ session'[s].reply = "dropped"
          /\ session'[s].from = session[s].from
      BY <2>1, <2>3 DEF SessionReq
    <3>2. QED
      BY <3>1
  <2>4. CASE session[s].pc # "lookup"
    BY <1>2, <2>1, <2>2, <2>4
  <2>5. QED
    BY <2>3, <2>4
<1>9. SessionDated'
  BY <1>4, <1>5, <1>7, <1>8
  DEF Next, IssueStart, IssueInsert, IssueFails, SignMessage, VerifyStart, VerifyStep,
      VerifyFails, GetChallenge, CheckChallenge, SelectChallenge, ReadChallenge, CheckAgain,
      Stamp, MarkUsed, SelectProfile, InsertProfile, IssueToken, Tick, vars
<1>10. QED
  BY <1>1, <1>9

\* A session token is accepted for less than its lifetime, and refused as expired no
\* earlier than one second before its end, whatever the rounding of the clock.
THEOREM TokensLiveAsLong == Spec => []TokenLifetime
<1>1. Init => TokenDated /\ SessionDated
  BY DEF Init, TokenDated, SessionDated
<1>2. AuthInv /\ TokenDated /\ SessionDated => TokenLifetime
  <2> SUFFICES ASSUME AuthInv, TokenDated, SessionDated,
                      NEW s \in SessionReqs, session[s].pc # "idle"
               PROVE  LET age == session[s].at - stamp[session[s].from]
                      IN  /\ session[s].reply = "ok" => age < SessionTTL * TicksPerSecond
                          /\ session[s].reply = "unauthenticated" =>
                               age > (SessionTTL - 1) * TicksPerSecond
    BY DEF TokenLifetime
  <2>1. /\ session[s].from \in VerifyReqs /\ session[s].at \in Nat
        /\ token[session[s].from] # None
    BY NoneAssumption DEF AuthInv, TypeOK, SessionReq
  <2>2. stamp[session[s].from] \in Nat
        /\ token[session[s].from].exp = Seconds(stamp[session[s].from]) + SessionTTL
    BY <2>1 DEF AuthInv, TypeOK, TokenDated
  <2>3. QED
    BY <2>1, <2>2, AgeBounds DEF SessionDated
<1>3. QED
  BY <1>1, <1>2, LifetimeStep, AuthInvariant, PTL DEF Spec
=============================================================================

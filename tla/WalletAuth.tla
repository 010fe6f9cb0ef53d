----------------------------- MODULE WalletAuth -----------------------------
(***************************************************************************)
(* Wallet sign-in: nonce.ts, session.ts, authorization.ts (requireActor)   *)
(* and the three auth route handlers, as requests that run concurrently    *)
(* over the tables auth_challenges and profiles.                           *)
(*                                                                         *)
(* Every await of a handler is a step boundary: a database call is one     *)
(* step (the database applies it atomically), and what the handler does    *)
(* with the answer, up to its next await, is the next one.  The clock may  *)
(* move between any two steps.  A request is used once; a client that      *)
(* retries is another request.                                             *)
(*                                                                         *)
(* The rate limiter is modelled in RateLimit; here its verdict is a        *)
(* nondeterministic choice, which is what an unreliable shared store gives.*)
(***************************************************************************)
EXTENDS Integers

CONSTANTS
  Wallets,         \* lower-cased wallet addresses
  Nonces,          \* one 32-byte nonce per run of issueChallenge
  VerifyReqs,      \* POST /auth/verify requests
  SessionReqs,     \* GET /auth/session requests
  None,            \* SQL null, or no row
  NonceTTL,        \* AUTH_NONCE_TTL_SECONDS, in clock ticks
  SessionTTL,      \* AUTH_SESSION_TTL_SECONDS, in seconds
  TicksPerSecond,  \* Date.now() counts ticks; a session token counts seconds
  WalletUnique,    \* does celoht-supabase keep profiles.wallet_address unique?
  MaxTime,         \* bound on the clock
  MaxFaults        \* bound on failed calls and restarts

ASSUME TTLAssumption ==
  /\ NonceTTL \in Nat \ {0}
  /\ SessionTTL \in Nat \ {0}
  /\ TicksPerSecond \in Nat \ {0}
ASSUME BoundAssumption == MaxTime \in Nat /\ MaxFaults \in Nat
ASSUME WalletUniqueAssumption == WalletUnique \in BOOLEAN

Challenge == [wallet : Wallets, expires : Nat, used : Nat \cup {None}]
Profile == [id : VerifyReqs, wallet : Wallets]
\* A verify request: what it claims, whether the signature is the owner's, and when the
\* owner's request arrived (history: no step reads it).
Body == [wallet : Wallets, nonce : Nonces, own : BOOLEAN, at : Nat]
Token == [sub : VerifyReqs, wallet : Wallets, iat : Nat, exp : Nat]

ASSUME NoneAssumption ==
  /\ None \notin Nat
  /\ None \notin Wallets
  /\ None \notin VerifyReqs
  /\ None \notin Nonces
  /\ None \notin Challenge
  /\ None \notin Body
  /\ None \notin Token

VARIABLES
  now,              \* Date.now() of the server
  faults,           \* failed calls and restarts so far
  auth_challenges,  \* table: nonce -> row, or None
  profiles,         \* table: set of rows; a row's id names the request that made it
  issuing,          \* POST /auth/nonce: [pc, wallet, expires] per nonce
  signed,           \* nonces whose message the wallet's owner has signed
  \* POST /auth/verify, per request; stamp is the last clock reading it kept
  pc, body, row, stamp, profileId, token, reply,
  session           \* GET /auth/session: [pc, from, at, reply] per request

tables == <<auth_challenges, profiles>>
verifyVars == <<pc, body, row, stamp, profileId, token, reply>>
vars == <<now, faults, tables, issuing, signed, verifyVars, session>>

VerifyPC ==
  {"idle", "getChallenge", "checkChallenge", "selectChallenge", "checkAgain",
   "stamp", "markUsed", "selectProfile", "insertProfile", "issueToken", "done"}
Reply ==
  {"none", "ok", "unauthenticated", "rate_limited", "internal_error", "dropped"}
Issuing ==
  [pc : {"idle", "insert", "ready", "failed"},
   wallet : Wallets \cup {None}, expires : Nat]
SessionReq ==
  [pc : {"idle", "lookup", "done"}, from : VerifyReqs \cup {None},
   at : Nat, reply : Reply]

TypeOK ==
  /\ now \in Nat /\ faults \in Nat
  /\ auth_challenges \in [Nonces -> Challenge \cup {None}]
  /\ profiles \subseteq Profile
  /\ issuing \in [Nonces -> Issuing]
  /\ \A n \in Nonces : issuing[n].pc # "idle" => issuing[n].wallet # None
  /\ signed \subseteq Nonces
  /\ pc \in [VerifyReqs -> VerifyPC]
  /\ body \in [VerifyReqs -> Body \cup {None}]
  /\ \A r \in VerifyReqs : pc[r] = "idle" <=> body[r] = None
  /\ row \in [VerifyReqs -> Challenge \cup {None}]
  /\ stamp \in [VerifyReqs -> Nat]
  /\ profileId \in [VerifyReqs -> VerifyReqs \cup {None}]
  /\ \A r \in VerifyReqs : pc[r] = "issueToken" => profileId[r] # None
  /\ token \in [VerifyReqs -> Token \cup {None}]
  /\ \A r \in VerifyReqs : token[r] # None => pc[r] = "done"
  /\ reply \in [VerifyReqs -> Reply]
  /\ session \in [SessionReqs -> SessionReq]
  /\ \A s \in SessionReqs :
       session[s].pc # "idle" => session[s].from # None /\ token[session[s].from] # None

Init ==
  /\ now = 0 /\ faults = 0
  /\ auth_challenges = [n \in Nonces |-> None]
  /\ profiles = {}
  /\ issuing = [n \in Nonces |-> [pc |-> "idle", wallet |-> None, expires |-> 0]]
  /\ signed = {}
  /\ pc = [r \in VerifyReqs |-> "idle"]
  /\ body = [r \in VerifyReqs |-> None]
  /\ row = [r \in VerifyReqs |-> None]
  /\ stamp = [r \in VerifyReqs |-> 0]
  /\ profileId = [r \in VerifyReqs |-> None]
  /\ token = [r \in VerifyReqs |-> None]
  /\ reply = [r \in VerifyReqs |-> "none"]
  /\ session = [s \in SessionReqs |->
                 [pc |-> "idle", from |-> None, at |-> 0, reply |-> "none"]]

Seconds(t) == t \div TicksPerSecond

-----------------------------------------------------------------------------
(* POST /auth/nonce.  The nonce is drawn and the expiry computed, then the  *)
(* row is inserted, then the client is answered.                           *)

IssueStart(n) ==
  /\ issuing[n].pc = "idle"
  /\ \E w \in Wallets :
       issuing' = [issuing EXCEPT ![n] =
                    [pc |-> "insert", wallet |-> w, expires |-> now + NonceTTL]]
  /\ UNCHANGED <<now, faults, tables, signed, verifyVars, session>>

IssueInsert(n) ==
  /\ issuing[n].pc = "insert"
  /\ auth_challenges' =
       [auth_challenges EXCEPT ![n] =
         [wallet |-> issuing[n].wallet, expires |-> issuing[n].expires, used |-> None]]
  /\ \/ /\ issuing' = [issuing EXCEPT ![n].pc = "ready"]
        /\ UNCHANGED faults
     \/ /\ faults < MaxFaults        \* inserted, but the answer was lost
        /\ faults' = faults + 1
        /\ issuing' = [issuing EXCEPT ![n].pc = "failed"]
  /\ UNCHANGED <<now, profiles, signed, verifyVars, session>>

IssueFails(n) ==
  /\ issuing[n].pc = "insert"
  /\ faults < MaxFaults
  /\ faults' = faults + 1
  /\ issuing' = [issuing EXCEPT ![n].pc = "failed"]
  /\ UNCHANGED <<now, tables, signed, verifyVars, session>>

\* The owner of the wallet signs the message that came with the nonce.
SignMessage(n) ==
  /\ issuing[n].pc = "ready"
  /\ n \notin signed
  /\ signed' = signed \cup {n}
  /\ UNCHANGED <<now, faults, tables, issuing, verifyVars, session>>

-----------------------------------------------------------------------------
(* POST /auth/verify.                                                       *)

Goto(r, label) == pc' = [pc EXCEPT ![r] = label] /\ UNCHANGED reply

\* The handler returns (or throws, which withApiErrorHandling turns into a
\* reply) and its locals die with it.
Answer(r, code) ==
  /\ pc' = [pc EXCEPT ![r] = "done"]
  /\ reply' = [reply EXCEPT ![r] = code]

\* `own` says whether the signature recovers to the claimed wallet over the
\* message built for this nonce: only the owner's own signature does.
VerifyStart(r) ==
  /\ pc[r] = "idle"
  /\ \E w \in Wallets, n \in Nonces, own \in BOOLEAN :
       /\ own => n \in signed /\ issuing[n].wallet = w
       /\ body' = [body EXCEPT ![r] =
                   [wallet |-> w, nonce |-> n, own |-> own, at |-> IF own THEN now ELSE 0]]
  /\ \/ Answer(r, "rate_limited")
     \/ Goto(r, "getChallenge")
  /\ UNCHANGED <<now, faults, tables, issuing, signed, row, stamp, profileId, token, session>>

\* select .. where wallet_address = wallet and nonce = nonce
ChallengeRow(wallet, nonce) ==
  LET c == auth_challenges[nonce]
  IN  IF c # None /\ c.wallet = wallet THEN c ELSE None

\* Both reads of the challenge, getChallenge's and consumeChallenge's.
ReadChallenge(r, from, to) ==
  /\ pc[r] = from
  /\ row' = [row EXCEPT ![r] = ChallengeRow(body[r].wallet, body[r].nonce)]
  /\ Goto(r, to)
  /\ UNCHANGED <<now, faults, tables, issuing, signed, body, stamp, profileId, token, session>>

GetChallenge(r) == ReadChallenge(r, "getChallenge", "checkChallenge")
SelectChallenge(r) == ReadChallenge(r, "selectChallenge", "checkAgain")

MutantRedeemableTooBriefly(c) == c # None /\ c.used = None /\ now + 1 < c.expires
Redeemable(c) == c # None /\ c.used = None /\ now < c.expires

CheckChallenge(r) ==
  /\ pc[r] = "checkChallenge"
  /\ IF Redeemable(row[r]) /\ body[r].own
       THEN Goto(r, "selectChallenge")
       ELSE Answer(r, "unauthenticated")
  /\ UNCHANGED <<now, faults, tables, issuing, signed, body, row, stamp, profileId, token, session>>

CheckAgain(r) ==
  /\ pc[r] = "checkAgain"
  /\ IF Redeemable(row[r])
       THEN Goto(r, "stamp")
       ELSE Answer(r, "unauthenticated")
  /\ UNCHANGED <<now, faults, tables, issuing, signed, body, row, stamp, profileId, token, session>>

\* consumedAt reads the clock again, after the check: it may be a tick later.
Stamp(r) ==
  /\ pc[r] = "stamp"
  /\ stamp' = [stamp EXCEPT ![r] = now]
  /\ Goto(r, "markUsed")
  /\ UNCHANGED <<now, faults, tables, issuing, signed, body, row, profileId, token, session>>

\* update .. where used_at is null and expires_at > consumedAt
MutantOpenIfUnexpired(c, at) == c # None /\ at < c.expires
MutantOpenIfUnused(c, at) == c # None /\ c.used = None
StillOpen(c, at) == c # None /\ c.used = None /\ at < c.expires

MutantMarkUsedUnchecked(r) ==
  LET n == body[r].nonce IN
  /\ pc[r] = "markUsed"
  /\ auth_challenges' =
       IF StillOpen(auth_challenges[n], stamp[r])
         THEN [auth_challenges EXCEPT ![n].used = stamp[r]] ELSE auth_challenges
  /\ Goto(r, "selectProfile")
  /\ UNCHANGED <<now, faults, profiles, issuing, signed, body, row, stamp, profileId, token, session>>

MarkUsed(r) ==
  LET n == body[r].nonce IN
  /\ pc[r] = "markUsed"
  /\ IF StillOpen(auth_challenges[n], stamp[r])
       THEN /\ auth_challenges' = [auth_challenges EXCEPT ![n].used = stamp[r]]
            /\ \/ /\ Goto(r, "selectProfile")
                  /\ UNCHANGED faults
               \/ /\ faults < MaxFaults       \* burned, but the answer was lost
                  /\ faults' = faults + 1
                  /\ Answer(r, "internal_error")
       ELSE /\ Answer(r, "unauthenticated")
            /\ UNCHANGED <<faults, auth_challenges>>
  /\ UNCHANGED <<now, profiles, issuing, signed, body, row, stamp, profileId, token, session>>

MutantProfilesOfAnyone(wallet) == profiles
ProfilesOf(wallet) == {p \in profiles : p.wallet = wallet}

\* maybeSingle() fails when the wallet has several rows.
SelectProfile(r) ==
  LET found == ProfilesOf(body[r].wallet) IN
  /\ pc[r] = "selectProfile"
  /\ \/ /\ found = {}
        /\ Goto(r, "insertProfile")
        /\ UNCHANGED profileId
     \/ \E p \in found :
          /\ found = {p}
          /\ profileId' = [profileId EXCEPT ![r] = p.id]
          /\ Goto(r, "issueToken")
     \/ /\ \E p, q \in found : p # q
        /\ Answer(r, "internal_error")
        /\ UNCHANGED profileId
  /\ UNCHANGED <<now, faults, tables, issuing, signed, body, row, stamp, token, session>>

InsertProfile(r) ==
  /\ pc[r] = "insertProfile"
  /\ IF WalletUnique /\ ProfilesOf(body[r].wallet) # {}
       THEN /\ Answer(r, "internal_error")
            /\ UNCHANGED <<faults, profiles, profileId>>
       ELSE /\ profiles' = profiles \cup {[id |-> r, wallet |-> body[r].wallet]}
            /\ \/ /\ profileId' = [profileId EXCEPT ![r] = r]
                  /\ Goto(r, "issueToken")
                  /\ UNCHANGED faults
               \/ /\ faults < MaxFaults       \* inserted, but the answer was lost
                  /\ faults' = faults + 1
                  /\ Answer(r, "internal_error")
                  /\ UNCHANGED profileId
  /\ UNCHANGED <<now, auth_challenges, issuing, signed, body, row, stamp, token, session>>

MutantSessionTokenBackdated(sub, wallet) ==
  [sub |-> sub, wallet |-> wallet,
   iat |-> Seconds(now), exp |-> Seconds(now) - SessionTTL]

SessionToken(sub, wallet) ==
  [sub |-> sub, wallet |-> wallet,
   iat |-> Seconds(now), exp |-> Seconds(now) + SessionTTL]

IssueToken(r) ==
  /\ pc[r] = "issueToken"
  /\ stamp' = [stamp EXCEPT ![r] = now]
  /\ token' = [token EXCEPT ![r] = SessionToken(profileId[r], body[r].wallet)]
  /\ Answer(r, "ok")
  /\ UNCHANGED <<now, faults, tables, issuing, signed, body, row, profileId, session>>

\* A database call that does nothing and reports an error.
VerifyFails(r) ==
  /\ pc[r] \in {"getChallenge", "selectChallenge", "markUsed", "selectProfile", "insertProfile"}
  /\ faults < MaxFaults
  /\ faults' = faults + 1
  /\ Answer(r, "internal_error")
  /\ UNCHANGED <<now, tables, issuing, signed, body, row, stamp, profileId, token, session>>

-----------------------------------------------------------------------------
(* GET /auth/session: requireActor, then the limiter.                       *)

MutantUnexpiredForOneMore(t) == Seconds(now) <= t.exp
Unexpired(t) == Seconds(now) < t.exp

\* The cookie carries a token some sign-in delivered; signing out clears the
\* cookie but leaves the token valid, so an old token may still be sent.
SessionStart(s) ==
  /\ session[s].pc = "idle"
  /\ \E r \in VerifyReqs :
       /\ token[r] # None
       /\ session' = [session EXCEPT ![s] =
            IF Unexpired(token[r])
              THEN [pc |-> "lookup", from |-> r, at |-> now, reply |-> "none"]
              ELSE [pc |-> "done", from |-> r, at |-> now, reply |-> "unauthenticated"]]
  /\ UNCHANGED <<now, faults, tables, issuing, signed, verifyVars>>

SessionAnswer(s, code) ==
  session' = [session EXCEPT ![s].pc = "done", ![s].reply = code]

\* select .. from profiles where id = sub and wallet_address = wallet
Holder(t) == [id |-> t.sub, wallet |-> t.wallet]

SessionLookup(s) ==
  /\ session[s].pc = "lookup"
  /\ IF Holder(token[session[s].from]) \in profiles
       THEN \E code \in {"ok", "rate_limited"} : SessionAnswer(s, code)
       ELSE SessionAnswer(s, "unauthenticated")
  /\ UNCHANGED <<now, faults, tables, issuing, signed, verifyVars>>

SessionFails(s) ==
  /\ session[s].pc = "lookup"
  /\ faults < MaxFaults
  /\ faults' = faults + 1
  /\ SessionAnswer(s, "internal_error")
  /\ UNCHANGED <<now, tables, issuing, signed, verifyVars>>

-----------------------------------------------------------------------------

Tick ==
  /\ now < MaxTime
  /\ now' = now + 1
  /\ UNCHANGED <<faults, tables, issuing, signed, verifyVars, session>>

\* The process restarts: requests in flight are dropped, the tables remain.
Restart ==
  /\ faults < MaxFaults
  /\ faults' = faults + 1
  /\ issuing' = [n \in Nonces |->
       IF issuing[n].pc = "insert" THEN [issuing[n] EXCEPT !.pc = "failed"] ELSE issuing[n]]
  /\ pc' = [r \in VerifyReqs |-> IF pc[r] = "idle" THEN "idle" ELSE "done"]
  /\ reply' = [r \in VerifyReqs |->
       IF pc[r] \in {"idle", "done"} THEN reply[r] ELSE "dropped"]
  /\ session' = [s \in SessionReqs |->
       IF session[s].pc = "lookup"
         THEN [session[s] EXCEPT !.pc = "done", !.reply = "dropped"] ELSE session[s]]
  /\ UNCHANGED <<now, tables, signed, body, row, stamp, profileId, token>>

VerifyStep(r) ==
  \/ GetChallenge(r) \/ CheckChallenge(r) \/ SelectChallenge(r) \/ CheckAgain(r)
  \/ Stamp(r) \/ MarkUsed(r) \/ SelectProfile(r) \/ InsertProfile(r) \/ IssueToken(r)

Next ==
  \/ \E n \in Nonces : IssueStart(n) \/ IssueInsert(n) \/ IssueFails(n) \/ SignMessage(n)
  \/ \E r \in VerifyReqs : VerifyStart(r) \/ VerifyStep(r) \/ VerifyFails(r)
  \/ \E s \in SessionReqs : SessionStart(s) \/ SessionLookup(s) \/ SessionFails(s)
  \/ Tick
  \/ Restart

Spec == Init /\ [][Next]_vars

-----------------------------------------------------------------------------
(* Properties.                                                              *)

\* Has r redeemed the challenge it names, with the answer in hand?
Redeemed(r) ==
  \/ pc[r] \in {"selectProfile", "insertProfile", "issueToken"}
  \/ token[r] # None

\* Replay protection (AUTHENTICATION.md, "two concurrent verification attempts
\* with the same nonce cannot both succeed"): however the reads and updates of
\* concurrent verify requests interleave, a nonce is redeemed by one of them.
SingleRedemption ==
  \A r1, r2 \in VerifyReqs :
    Redeemed(r1) /\ Redeemed(r2) /\ body[r1].nonce = body[r2].nonce => r1 = r2

\* Wallet-spoofing and expired-challenge protection: a challenge is burned only by a
\* request that carried the signature of the wallet it was made out to, that arrived
\* before the challenge expired, and whose used_at was read between the two.  Nothing
\* bounds when the update itself lands: it may come after the expiry.
SpentProperly ==
  \A n \in Nonces :
    LET c == auth_challenges[n] IN
    c # None /\ c.used # None =>
      \E r \in VerifyReqs :
        /\ pc[r] \in {"selectProfile", "insertProfile", "issueToken", "done"}
        /\ body[r].nonce = n /\ body[r].wallet = c.wallet /\ body[r].own
        /\ body[r].at <= c.used /\ c.used < c.expires /\ c.used <= now

\* A session token names the wallet that the redeemed challenge was made out to
\* and the profile row of that wallet.
TokenBacked ==
  \A r \in VerifyReqs : token[r] # None =>
    /\ auth_challenges[body[r].nonce] # None
    /\ auth_challenges[body[r].nonce].used # None
    /\ auth_challenges[body[r].nonce].wallet = token[r].wallet
    /\ Holder(token[r]) \in profiles

\* A verify request that has ended was answered, whoever raced for its challenge or
\* its profile row and whichever call failed, and a correctly signed sign-in is
\* refused as unauthenticated only when the challenge is really gone: redeemed, or
\* past its expiry.
AnsweredForCause ==
  \A r \in VerifyReqs :
    /\ pc[r] = "done" => reply[r] # "none"
    /\ reply[r] = "unauthenticated" /\ body[r].own =>
         LET c == auth_challenges[body[r].nonce]
         IN  c # None /\ (c.used # None \/ c.expires <= now)

\* Token lifetime, in spite of the rounding to seconds: a token is accepted for
\* less than the TTL after it was made, and refused as expired no earlier than
\* one second before that.
TokenLifetime ==
  \A s \in SessionReqs : session[s].pc # "idle" =>
    LET age == session[s].at - stamp[session[s].from]
    IN  /\ session[s].reply = "ok" => age < SessionTTL * TicksPerSecond
        /\ session[s].reply = "unauthenticated" => age > (SessionTTL - 1) * TicksPerSecond

\* What the tables and the delivered tokens mean in OneTimeChallenge.
OwnerOf ==
  [n \in Nonces |-> IF auth_challenges[n] = None THEN None ELSE auth_challenges[n].wallet]
SpentNonces ==
  {n \in Nonces : auth_challenges[n] # None /\ auth_challenges[n].used # None}
Granted(r) == [request |-> r, nonce |-> body[r].nonce, wallet |-> token[r].wallet]
GrantedSessions == {Granted(r) : r \in {q \in VerifyReqs : token[q] # None}}

Abstract ==
  INSTANCE OneTimeChallenge WITH
    Requests <- VerifyReqs, owner <- OwnerOf, spent <- SpentNonces,
    sessions <- GrantedSessions

\* The handlers together implement the one-time challenge: every step of theirs
\* is a step of the abstract store or leaves it alone.
ImplementsOneTimeChallenge == Abstract!Spec

\* AUTHENTICATION.md promises that a redeemed challenge leads to
\* "find-or-create profiles row" and a session: without a fault no sign-in ends
\* in an internal error.  The select and the insert are two calls.
FindOrCreateSucceeds ==
  \A r \in VerifyReqs : reply[r] = "internal_error" => faults > 0
=============================================================================

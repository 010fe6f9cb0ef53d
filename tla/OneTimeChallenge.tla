-------------------------- MODULE OneTimeChallenge --------------------------
(***************************************************************************)
(* What the wallet sign-in promises, without saying how: a challenge is    *)
(* made out to one wallet, is spent at most once, and at most one sign-in  *)
(* request ever obtains a session from it, a session of that wallet.       *)
(* WalletAuth implements this with five database calls per sign-in.        *)
(***************************************************************************)
CONSTANTS Wallets, Nonces, Requests, None

VARIABLES
  owner,     \* owner[n]: the wallet challenge n was made out to, or None
  spent,     \* the challenges that have been redeemed
  sessions   \* sessions granted: [request, nonce, wallet]

vars == <<owner, spent, sessions>>

Session == [request : Requests, nonce : Nonces, wallet : Wallets]

TypeOK ==
  /\ owner \in [Nonces -> Wallets \cup {None}]
  /\ spent \subseteq Nonces
  /\ sessions \subseteq Session

Init ==
  /\ owner = [n \in Nonces |-> None]
  /\ spent = {}
  /\ sessions = {}

Issue(n, w) ==
  /\ owner[n] = None
  /\ owner' = [owner EXCEPT ![n] = w]
  /\ UNCHANGED <<spent, sessions>>

Spend(n) ==
  /\ owner[n] # None
  /\ n \notin spent
  /\ spent' = spent \cup {n}
  /\ UNCHANGED <<owner, sessions>>

\* A spent challenge yields its one session, or none at all when the request
\* that spent it dies before it answers.
Grant(r, n) ==
  /\ n \in spent
  /\ \A s \in sessions : s.nonce # n /\ s.request # r
  /\ sessions' = sessions \cup {[request |-> r, nonce |-> n, wallet |-> owner[n]]}
  /\ UNCHANGED <<owner, spent>>

Next ==
  \E n \in Nonces :
    \/ \E w \in Wallets : Issue(n, w)
    \/ Spend(n)
    \/ \E r \in Requests : Grant(r, n)

Spec == Init /\ [][Next]_vars
=============================================================================

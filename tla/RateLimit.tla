------------------------------ MODULE RateLimit -----------------------------
(***************************************************************************)
(* rateLimit.ts: the verdict of checkRateLimit for the requests that share *)
(* one key ("verify:<wallet>", "nonce:<wallet>", "auth-session:<profile>");*)
(* keys share no state.  With a shared store configured, a script counts   *)
(* the requests of a fixed window in Redis; without one, production blocks *)
(* everything and development keeps a sliding window in memory.            *)
(*                                                                         *)
(* The call to the store is three steps: the request leaves, the script    *)
(* runs, the answer comes back.  The client gives up after two seconds, at *)
(* any point, and the script may still run after that.                     *)
(***************************************************************************)
EXTENDS Integers, FiniteSets

CONSTANTS
  Requests,   \* calls of checkRateLimit with this key, finitely many, each made once
  Limit,      \* how many the window admits
  Window,     \* windowMs, in ticks
  None,
  MaxTime     \* bound on the clock

\* The key in Redis: its count and when it expires.
Counter == [count : Nat \ {0}, expires : Nat]

ASSUME RateAssumption ==
  /\ Limit \in Nat \ {0} /\ Window \in Nat \ {0} /\ MaxTime \in Nat
  /\ IsFiniteSet(Requests)
ASSUME NoneAssumption == None \notin Nat /\ None \notin BOOLEAN /\ None \notin Counter

VARIABLES
  production, shared,   \* NODE_ENV; are both Upstash variables set?
  now,
  bucket,    \* buckets.get(key): the requests whose timestamp it holds
  store,     \* the key in Redis: [count, expires], or None
  window,    \* number of windows the store has opened (history)
  pc,
  at,        \* when the request was counted, by memory or by the script
  count,     \* what the script returned to it
  opened,    \* the window it was counted in (history)
  blocked    \* the verdict: None until there is one

env == <<production, shared>>
vars == <<env, now, bucket, store, window, pc, at, count, opened, blocked>>

TypeOK ==
  /\ production \in BOOLEAN /\ shared \in BOOLEAN
  /\ now \in Nat
  /\ bucket \subseteq Requests
  /\ store \in Counter \cup {None}
  /\ window \in Nat
  /\ pc \in [Requests -> {"idle", "sent", "executed", "abandoned", "done"}]
  /\ at \in [Requests -> Nat]
  /\ count \in [Requests -> Nat]
  /\ opened \in [Requests -> Nat]
  /\ blocked \in [Requests -> BOOLEAN \cup {None}]

Init ==
  /\ production \in BOOLEAN /\ shared \in BOOLEAN
  /\ now = 0
  /\ bucket = {}
  /\ store = None
  /\ window = 0
  /\ pc = [r \in Requests |-> "idle"]
  /\ at = [r \in Requests |-> 0]
  /\ count = [r \in Requests |-> 0]
  /\ opened = [r \in Requests |-> 0]
  /\ blocked = [r \in Requests |-> None]

Verdict(r, limited, label) ==
  /\ pc' = [pc EXCEPT ![r] = label]
  /\ blocked' = [blocked EXCEPT ![r] = limited]

\* Production without a shared store blocks.
FailClosed(r) ==
  /\ pc[r] = "idle" /\ ~shared /\ production
  /\ Verdict(r, TRUE, "done")
  /\ UNCHANGED <<env, now, bucket, store, window, at, count, opened>>

\* The timestamps that are still in the window.
Recent == {q \in bucket : now - at[q] < Window}

\* isRateLimited: the attempt is recorded whatever the verdict.
CheckMemory(r) ==
  /\ pc[r] = "idle" /\ ~shared /\ ~production
  /\ bucket' = Recent \cup {r}
  /\ at' = [at EXCEPT ![r] = now]
  /\ Verdict(r, Cardinality(Recent) + 1 > Limit, "done")
  /\ UNCHANGED <<env, now, store, window, count, opened>>

Send(r) ==
  /\ pc[r] = "idle" /\ shared
  /\ pc' = [pc EXCEPT ![r] = "sent"]
  /\ UNCHANGED <<env, now, bucket, store, window, at, count, opened, blocked>>

\* Redis drops the key when its time is over.
Live == store # None /\ now < store.expires

\* INCR, and PEXPIRE when the count is 1, in one script.
MutantIncrementRefreshing ==
  [count |-> IF Live THEN store.count + 1 ELSE 1, expires |-> now + Window]
MutantIncrementNoExpiry ==
  [count |-> IF Live THEN store.count + 1 ELSE 1, expires |-> None]
Increment ==
  IF Live THEN [store EXCEPT !.count = @ + 1]
          ELSE [count |-> 1, expires |-> now + Window]

Execute(r) ==
  /\ pc[r] \in {"sent", "abandoned"}
  /\ store' = Increment
  /\ window' = IF Live THEN window ELSE window + 1
  /\ at' = [at EXCEPT ![r] = now]
  /\ count' = [count EXCEPT ![r] = store'.count]
  /\ opened' = [opened EXCEPT ![r] = window']
  /\ pc' = [pc EXCEPT ![r] = IF @ = "sent" THEN "executed" ELSE "done"]
  /\ UNCHANGED <<env, now, bucket, blocked>>

Answer(r) ==
  /\ pc[r] = "executed"
  /\ Verdict(r, count[r] > Limit, "done")
  /\ UNCHANGED <<env, now, bucket, store, window, at, count, opened>>

MutantGiveUpOpen(r) ==
  /\ pc[r] \in {"sent", "executed"}
  /\ Verdict(r, FALSE, IF pc[r] = "sent" THEN "abandoned" ELSE "done")
  /\ UNCHANGED <<env, now, bucket, store, window, at, count, opened>>

\* A timeout, a network error, a status that is not 2xx, a result that is not an
\* integer: the request is blocked.  If the script has not run, it still may.
GiveUp(r) ==
  /\ pc[r] \in {"sent", "executed"}
  /\ Verdict(r, TRUE, IF pc[r] = "sent" THEN "abandoned" ELSE "done")
  /\ UNCHANGED <<env, now, bucket, store, window, at, count, opened>>

Tick ==
  /\ now < MaxTime
  /\ now' = now + 1
  /\ UNCHANGED <<env, bucket, store, window, pc, at, count, opened, blocked>>

Check(r) ==
  \/ FailClosed(r) \/ CheckMemory(r) \/ Send(r) \/ Execute(r) \/ Answer(r) \/ GiveUp(r)

Next == Tick \/ \E r \in Requests : Check(r)

Spec == Init /\ [][Next]_vars

-----------------------------------------------------------------------------
(* Properties.                                                              *)

Admitted == {r \in Requests : blocked[r] = FALSE}

\* Development: no span of Window ticks, wherever it starts, admits more than
\* Limit requests.
SlidingWindowBound ==
  ~shared /\ ~production => \A t \in 0 .. now :
    Cardinality({r \in Admitted : t <= at[r] /\ at[r] < t + Window}) <= Limit

\* Production: a window of the shared store admits at most Limit requests, however
\* scripts, answers and timeouts are interleaved; windows do not overlap, so any
\* span of Window ticks, counted where the scripts ran, admits at most twice that.
FixedWindowBound ==
  shared =>
    /\ \A w \in 1 .. window : Cardinality({r \in Admitted : opened[r] = w}) <= Limit
    /\ \A t \in 0 .. now :
         Cardinality({r \in Admitted : t <= at[r] /\ at[r] < t + Window}) <= 2 * Limit

\* Nobody is locked out without cause, or for good: a limiter that counts blocks a
\* request only when Limit others were counted in the Window before it (in memory
\* blocked attempts count too).
BlocksBusyKeysOnly ==
  \A r \in Requests :
    LET counted == IF shared THEN {q \in Requests : count[q] # 0} ELSE {q \in Requests : pc[q] = "done"}
        block == IF shared THEN pc[r] = "executed" /\ count[r] > Limit
                           ELSE blocked[r] = TRUE /\ ~production
    IN  block => Cardinality({q \in counted \ {r} :
                                at[q] <= at[r] /\ at[r] - at[q] < Window}) >= Limit

\* Production admits a request only on an answer of the store that counted it
\* within the limit: never without a store, never on a timeout or an error.
AdmittedOnlyByStore ==
  production => \A r \in Admitted : shared /\ 1 <= count[r] /\ count[r] <= Limit

\* Neither limiter admits more than it promises, in memory, in the shared store, or
\* when the store does not answer.
AdmissionBounds == SlidingWindowBound /\ FixedWindowBound /\ AdmittedOnlyByStore
=============================================================================

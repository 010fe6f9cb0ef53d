---------------------------- MODULE ServiceProofs ---------------------------
(***************************************************************************)
(* Theorems about RateLimit and about Service, which runs it: for any      *)
(* finite number of requests, any limit, window and set of environments,   *)
(* and any number of outages and restarts.                                 *)
(***************************************************************************)
EXTENDS Service, FiniteSetTheorems, TLAPS

USE RateAssumption, NoneAssumption

-----------------------------------------------------------------------------
(* The inductive invariants of the limiter.                                 *)

\* What a request knows at each of its steps: no verdict before the answer, no
\* count before the script ran, and no admission without a count within the limit.
VerdictInStep ==
  \A r \in Requests :
    /\ pc[r] \in {"idle", "sent", "executed"} => blocked[r] = None
    /\ pc[r] = "abandoned" => blocked[r] # FALSE
    /\ pc[r] \in {"idle", "sent", "abandoned"} => count[r] = 0
    /\ pc[r] = "executed" => count[r] # 0
    /\ blocked[r] = FALSE /\ (production \/ shared) => 1 <= count[r] /\ count[r] <= Limit

\* Only a configured store is called.
OnlyTheConfigured ==
  \A r \in Requests : count[r] # 0 \/ pc[r] \in {"sent", "executed", "abandoned"} => shared

Counted == {q \in Requests : count[q] # 0}

\* The store's key is that of the last window it opened; no two requests of a window
\* have one count, the counts leave no gap, and a window ends before the next begins.
StoreInStep ==
  /\ window # 0 <=> store # None
  /\ store # None =>
       /\ store.expires <= now + Window
       /\ \A k \in 1 .. store.count : \E q \in Counted : opened[q] = window /\ count[q] = k
  /\ \A q \in Counted :
       /\ 1 <= opened[q] /\ opened[q] <= window /\ at[q] <= now
       /\ opened[q] = window =>
            /\ count[q] <= store.count
            /\ store.expires - Window <= at[q] /\ at[q] < store.expires
       /\ opened[q] < window => at[q] + Window < store.expires
       /\ opened[q] + 1 < window => at[q] + 2 * Window < store.expires

CountsInStep ==
  \A r, q \in Counted :
    /\ opened[r] = opened[q] =>
         /\ r # q => count[r] # count[q]
         /\ at[r] - at[q] < Window
    /\ opened[r] >= opened[q] + 2 => at[r] - at[q] >= Window

CountsLeaveNoGap ==
  \A r \in Counted : \A k \in 1 .. (count[r] - 1) :
    \E q \in Counted : opened[q] = opened[r] /\ count[q] = k /\ at[q] <= at[r]

StoreInv == StoreInStep /\ CountsInStep /\ CountsLeaveNoGap

\* In memory: the bucket holds every attempt of the last Window ticks.
Span(t) == {r \in Admitted : t <= at[r] /\ at[r] < t + Window}
BusyBefore(r) ==
  {q \in Requests \ {r} : pc[q] = "done" /\ at[q] <= at[r] /\ at[r] - at[q] < Window}

MemoryInv ==
  ~shared /\ ~production =>
    /\ \A r \in bucket : pc[r] = "done"
    /\ \A r \in Requests :
         /\ pc[r] \in {"idle", "done"}
         /\ blocked[r] # None <=> pc[r] = "done"
         /\ at[r] <= now
         /\ pc[r] = "done" /\ now - at[r] < Window => r \in bucket
         /\ blocked[r] = TRUE => Cardinality(BusyBefore(r)) >= Limit
    /\ \A t \in Nat : Cardinality(Span(t)) <= Limit

LimiterInv == TypeOK /\ VerdictInStep /\ OnlyTheConfigured /\ StoreInv /\ MemoryInv

-----------------------------------------------------------------------------
(* Types and verdicts.                                                      *)

\* What the script leaves, point by point: a live key counts one more, any other
\* key starts again, and the request keeps the time, the count and the window.
LEMMA Script ==
  ASSUME TypeOK, NEW r \in Requests, Execute(r)
  PROVE  /\ store' \in Counter
         /\ Live => window' = window /\ store'.count = store.count + 1
                    /\ store'.expires = store.expires
         /\ ~Live => window' = window + 1 /\ store'.count = 1 /\ store'.expires = now + Window
         /\ \A q \in Requests :
              /\ at'[q] = IF q = r THEN now ELSE at[q]
              /\ count'[q] = IF q = r THEN store'.count ELSE count[q]
              /\ opened'[q] = IF q = r THEN window' ELSE opened[q]
              /\ pc'[q] = IF q = r THEN IF pc[r] = "sent" THEN "executed" ELSE "done" ELSE pc[q]
         /\ pc[r] \in {"sent", "abandoned"}
         /\ production' = production /\ shared' = shared /\ now' = now /\ bucket' = bucket
         /\ blocked' = blocked
<1>1. store' = Increment
  BY DEF Execute
<1>2. CASE Live
  <2>1. store \in Counter
    BY <1>2 DEF TypeOK, Live
  <2>2. store' = [store EXCEPT !.count = store.count + 1]
    BY <1>1, <1>2 DEF Increment
  <2>3. store' \in Counter /\ store'.count = store.count + 1 /\ store'.expires = store.expires
    BY <2>1, <2>2 DEF Counter
  <2>. QED
    BY <1>2, <2>3 DEF TypeOK, Execute, env
<1>3. CASE ~Live
  <2>1. store' = [count |-> 1, expires |-> now + Window]
    BY <1>1, <1>3 DEF Increment
  <2>2. store' \in Counter /\ store'.count = 1 /\ store'.expires = now + Window
    BY <2>1 DEF TypeOK, Counter
  <2>. QED
    BY <1>3, <2>2 DEF TypeOK, Execute, env
<1>. QED
  BY <1>2, <1>3

\* Every step of the limiter keeps the types.
LEMMA LimiterTypes ==
  ASSUME TypeOK, [Next]_vars
  PROVE  TypeOK'
<1>1. ASSUME NEW r \in Requests, Execute(r)
      PROVE  TypeOK'
  <2>1. at' \in [Requests -> Nat] /\ pc' \in [Requests -> {"idle", "sent", "executed", "abandoned", "done"}]
    BY <1>1 DEF TypeOK, Execute
  <2>2. store'.count \in Nat /\ window' \in Nat
    BY <1>1, Script DEF TypeOK, Counter
  <2>3. count' \in [Requests -> Nat] /\ opened' \in [Requests -> Nat]
    BY <1>1, <2>2 DEF TypeOK, Execute
  <2>. QED
    BY <1>1, <2>1, <2>2, <2>3, Script DEF TypeOK
<1>2. ASSUME NEW r \in Requests, CheckMemory(r)
      PROVE  TypeOK'
  <2>1. (Cardinality(Recent) + 1 > Limit) \in BOOLEAN
    OBVIOUS
  <2>. QED
    BY <1>2, <2>1 DEF TypeOK, CheckMemory, Verdict, Recent, env
<1>3. ASSUME NEW r \in Requests, FailClosed(r) \/ Send(r)
      PROVE  TypeOK'
  BY <1>3 DEF TypeOK, FailClosed, Send, Verdict, env
<1>4. ASSUME NEW r \in Requests, Answer(r)
      PROVE  TypeOK'
  BY <1>4 DEF TypeOK, Answer, Verdict, env
<1>5. ASSUME NEW r \in Requests, GiveUp(r)
      PROVE  TypeOK'
  BY <1>5 DEF TypeOK, GiveUp, Verdict, env
<1>6. CASE Tick
  BY <1>6 DEF TypeOK, Tick, env
<1>7. CASE UNCHANGED vars
  BY <1>7 DEF TypeOK, vars, env
<1>. QED
  BY <1>1, <1>2, <1>3, <1>4, <1>5, <1>6, <1>7 DEF Next, Check

\* Every step of the limiter keeps the requests' knowledge in step.
LEMMA LimiterVerdicts ==
  ASSUME TypeOK, VerdictInStep, [Next]_vars
  PROVE  VerdictInStep'
<1>1. ASSUME NEW r \in Requests, Execute(r)
      PROVE  VerdictInStep'
  <2>1. store'.count \in Nat \ {0}
    BY <1>1, Script DEF Counter
  <2>2. blocked' = blocked /\ blocked[r] # FALSE /\ (pc[r] = "sent" => blocked[r] = None)
    BY <1>1, Script, None # FALSE DEF VerdictInStep, TypeOK
  <2>3. count'[r] \in Nat \ {0} /\ pc'[r] = (IF pc[r] = "sent" THEN "executed" ELSE "done")
    BY <1>1, <2>1, Script
  <2>4. \A q \in Requests \ {r} : count'[q] = count[q] /\ pc'[q] = pc[q]
    BY <1>1, Script
  <2>5. production' = production /\ shared' = shared
    BY <1>1, Script
  <2>. QED
    BY <2>2, <2>3, <2>4, <2>5 DEF VerdictInStep
<1>2. ASSUME NEW r \in Requests, FailClosed(r) \/ CheckMemory(r)
      PROVE  VerdictInStep'
  <2>1. PICK v \in BOOLEAN :
          /\ Verdict(r, v, "done")
          /\ production \/ shared => v = TRUE
          /\ production' = production /\ shared' = shared /\ count' = count
    <3>1. (Cardinality(Recent) + 1 > Limit) \in BOOLEAN
      OBVIOUS
    <3>. QED
      BY <1>2, <3>1 DEF FailClosed, CheckMemory, env, TypeOK
  <2>. QED
    BY <1>2, <2>1 DEF VerdictInStep, TypeOK, FailClosed, CheckMemory, Verdict, env
<1>3. ASSUME NEW r \in Requests, Send(r)
      PROVE  VerdictInStep'
  BY <1>3 DEF VerdictInStep, TypeOK, Send, env
<1>4. ASSUME NEW r \in Requests, Answer(r)
      PROVE  VerdictInStep'
  <2>1. /\ pc'[r] = "done" /\ count[r] \in Nat \ {0} /\ count' = count
        /\ blocked'[r] = FALSE => ~(count[r] > Limit)
        /\ \A q \in Requests \ {r} : blocked'[q] = blocked[q] /\ pc'[q] = pc[q]
        /\ production' = production /\ shared' = shared
    BY <1>4 DEF VerdictInStep, TypeOK, Answer, Verdict, env
  <2>2. blocked'[r] = FALSE => 1 <= count'[r] /\ count'[r] <= Limit
    BY <2>1
  <2>. QED
    BY <2>1, <2>2 DEF VerdictInStep
<1>5. ASSUME NEW r \in Requests, GiveUp(r)
      PROVE  VerdictInStep'
  BY <1>5 DEF VerdictInStep, TypeOK, GiveUp, Verdict, env
<1>6. CASE Tick
  BY <1>6 DEF VerdictInStep, Tick, env
<1>7. CASE UNCHANGED vars
  BY <1>7 DEF VerdictInStep, vars, env
<1>. QED
  BY <1>1, <1>2, <1>3, <1>4, <1>5, <1>6, <1>7 DEF Next, Check

\* No step of the limiter calls a store that is not configured.
LEMMA LimiterConfigured ==
  ASSUME TypeOK, OnlyTheConfigured, [Next]_vars
  PROVE  OnlyTheConfigured'
<1>1. ASSUME NEW r \in Requests, Execute(r)
      PROVE  OnlyTheConfigured'
  BY <1>1, Script DEF OnlyTheConfigured, TypeOK
<1>2. ASSUME NEW r \in Requests, FailClosed(r) \/ CheckMemory(r) \/ Send(r)
      PROVE  OnlyTheConfigured'
  BY <1>2 DEF OnlyTheConfigured, TypeOK, FailClosed, CheckMemory, Send, Verdict, env
<1>3. ASSUME NEW r \in Requests, Answer(r) \/ GiveUp(r)
      PROVE  OnlyTheConfigured'
  BY <1>3 DEF OnlyTheConfigured, TypeOK, Answer, GiveUp, Verdict, env
<1>4. CASE Tick \/ UNCHANGED vars
  BY <1>4 DEF OnlyTheConfigured, Tick, vars, env
<1>. QED
  BY <1>1, <1>2, <1>3, <1>4 DEF Next, Check

-----------------------------------------------------------------------------
(* The windows of the store.                                                *)

\* A step that runs no script leaves the windows in step, also when time passes.
LEMMA NoScript ==
  ASSUME TypeOK, TypeOK', StoreInv,
         store' = store, window' = window, count' = count, opened' = opened, now <= now',
         \A q \in Counted : at'[q] = at[q]
  PROVE  StoreInv'
<1>1. Counted' = Counted
  BY DEF Counted
<1>2. store # None => store.expires \in Nat /\ store.count \in Nat
  BY DEF TypeOK, Counter
<1>3. \A q \in Counted : at[q] \in Nat /\ opened[q] \in Nat /\ count[q] \in Nat
  BY DEF TypeOK, Counted
<1>4. StoreInStep'
  <2>1. store # None => store.expires <= now' + Window
    BY <1>2 DEF StoreInv, StoreInStep, TypeOK
  <2>2. \A q \in Counted : at[q] <= now'
    BY <1>3 DEF StoreInv, StoreInStep, TypeOK
  <2>. QED
    BY <1>1, <2>1, <2>2 DEF StoreInv, StoreInStep
<1>5. CountsInStep'
  BY <1>1 DEF StoreInv, CountsInStep
<1>6. CountsLeaveNoGap'
  BY <1>1 DEF StoreInv, CountsLeaveNoGap
<1>. QED
  BY <1>4, <1>5, <1>6 DEF StoreInv

\* The script keeps the windows in step, whether it counts in the window that runs or
\* opens the next one.
LEMMA ScriptInWindow ==
  ASSUME TypeOK, VerdictInStep, StoreInv, NEW r \in Requests, Execute(r)
  PROVE  StoreInv'
<1>. DEFINE old == {q \in Requests \ {r} : count[q] # 0}
<1>1. TypeOK'
  BY LimiterTypes DEF Next, Check
<1>2. /\ Counted = old /\ Counted' = old \cup {r}
      /\ store' # None /\ store'.count \in Nat \ {0} /\ store'.expires \in Nat
      /\ store # None => store.count \in Nat \ {0} /\ store.expires \in Nat
  <2>1. count[r] = 0 /\ r \notin Counted
    BY Script DEF VerdictInStep, Counted
  <2>2. store' # None /\ store'.count \in Nat \ {0} /\ store'.expires \in Nat
    BY Script DEF Counter
  <2>3. store # None => store.count \in Nat \ {0} /\ store.expires \in Nat
    BY DEF TypeOK, Counter
  <2>4. Counted' = old \cup {r}
    BY <2>2, Script DEF Counted
  <2>. QED
    BY <2>1, <2>2, <2>3, <2>4 DEF Counted
<1>3. /\ \A q \in old : /\ q \in Requests /\ q # r
                        /\ at[q] \in Nat /\ opened[q] \in Nat /\ count[q] \in Nat
                        /\ at'[q] = at[q] /\ opened'[q] = opened[q] /\ count'[q] = count[q]
      /\ at'[r] = now /\ opened'[r] = window' /\ count'[r] = store'.count
      /\ now' = now /\ now \in Nat /\ window \in Nat
  BY Script DEF TypeOK
<1>4. /\ window # 0 <=> store # None
      /\ store # None => store.expires <= now + Window
      /\ store # None => \A k \in 1 .. store.count : \E q \in old : opened[q] = window /\ count[q] = k
      /\ \A q \in old :
           /\ 1 <= opened[q] /\ opened[q] <= window /\ at[q] <= now
           /\ opened[q] = window =>
                count[q] <= store.count /\ store.expires - Window <= at[q] /\ at[q] < store.expires
           /\ opened[q] < window => at[q] + Window < store.expires
           /\ opened[q] + 1 < window => at[q] + 2 * Window < store.expires
  BY <1>2 DEF StoreInv, StoreInStep
<1>5. /\ \A p, q \in old :
           /\ opened[p] = opened[q] => (p # q => count[p] # count[q]) /\ at[p] - at[q] < Window
           /\ opened[p] >= opened[q] + 2 => at[p] - at[q] >= Window
      /\ \A p \in old : \A k \in 1 .. (count[p] - 1) :
           \E q \in old : opened[q] = opened[p] /\ count[q] = k /\ at[q] <= at[p]
  BY <1>2 DEF StoreInv, CountsInStep, CountsLeaveNoGap
<1>. HIDE DEF old
<1>6. CASE Live
  <2>1. /\ window' = window /\ store'.count = store.count + 1 /\ store'.expires = store.expires
        /\ store # None /\ now < store.expires
    BY <1>6, Script DEF Live
  <2>2. \A q \in old : opened[q] = window => count[q] < store'.count /\ now - at[q] < Window
    BY <1>2, <1>3, <1>4, <2>1
  <2>3. StoreInStep'
    <3>1. \A k \in 1 .. store'.count : \E q \in Counted' : opened'[q] = window' /\ count'[q] = k
      <4>. SUFFICES ASSUME NEW k \in 1 .. store'.count
                    PROVE  \E q \in Counted' : opened'[q] = window' /\ count'[q] = k
        OBVIOUS
      <4>1. CASE k = store'.count
        BY <4>1, <1>2, <1>3
      <4>2. CASE k # store'.count
        <5>1. k \in 1 .. store.count
          BY <4>2, <1>2, <2>1
        <5>2. PICK q \in old : opened[q] = window /\ count[q] = k
          BY <5>1, <1>4, <2>1
        <5>. QED
          BY <5>2, <1>2, <1>3, <2>1
      <4>. QED
        BY <4>1, <4>2
    <3>2. /\ window' # 0 /\ store' # None /\ store'.expires <= now' + Window
      BY <1>2, <1>3, <1>4, <2>1
    <3>3. \A q \in Counted' :
           /\ 1 <= opened'[q] /\ opened'[q] <= window' /\ at'[q] <= now'
           /\ opened'[q] = window' =>
                /\ count'[q] <= store'.count
                /\ store'.expires - Window <= at'[q] /\ at'[q] < store'.expires
           /\ opened'[q] < window' => at'[q] + Window < store'.expires
           /\ opened'[q] + 1 < window' => at'[q] + 2 * Window < store'.expires
      <4>1. ASSUME NEW q \in old
            PROVE  /\ 1 <= opened'[q] /\ opened'[q] <= window' /\ at'[q] <= now'
                   /\ opened'[q] = window' =>
                        /\ count'[q] <= store'.count
                        /\ store'.expires - Window <= at'[q] /\ at'[q] < store'.expires
                   /\ opened'[q] < window' => at'[q] + Window < store'.expires
                   /\ opened'[q] + 1 < window' => at'[q] + 2 * Window < store'.expires
        BY <1>2, <1>3, <1>4, <2>1
      <4>2. /\ 1 <= opened'[r] /\ opened'[r] = window' /\ at'[r] <= now'
            /\ count'[r] <= store'.count
            /\ store'.expires - Window <= at'[r] /\ at'[r] < store'.expires
        BY <1>2, <1>3, <1>4, <2>1
      <4>3. ~(opened'[r] < window') /\ ~(opened'[r] + 1 < window')
        BY <1>3, <2>1, <4>2
      <4>. SUFFICES ASSUME NEW q \in Counted'
                    PROVE  /\ 1 <= opened'[q] /\ opened'[q] <= window' /\ at'[q] <= now'
                           /\ opened'[q] = window' =>
                                /\ count'[q] <= store'.count
                                /\ store'.expires - Window <= at'[q] /\ at'[q] < store'.expires
                           /\ opened'[q] < window' => at'[q] + Window < store'.expires
                           /\ opened'[q] + 1 < window' => at'[q] + 2 * Window < store'.expires
        OBVIOUS
      <4>4. CASE q \in old
        BY <4>1, <4>4
      <4>5. CASE q = r
        BY <1>3, <2>1, <4>2, <4>3, <4>5
      <4>. QED
        BY <1>2, <4>4, <4>5
    <3>. QED
      BY <3>1, <3>2, <3>3 DEF StoreInStep
  <2>4. CountsInStep'
    <3>1. \A q \in old : opened[q] <= window
      BY <1>4
    <3>2. \A q \in old : window >= opened[q] + 2 => now - at[q] >= Window
      BY <1>2, <1>3, <1>4, <2>1
    <3>3. \A q \in old : at[q] - now < Window
      BY <1>3, <1>4
    <3>4. ASSUME NEW p \in old \cup {r}, NEW q \in old \cup {r}
          PROVE  /\ opened'[p] = opened'[q] =>
                      (p # q => count'[p] # count'[q]) /\ at'[p] - at'[q] < Window
                 /\ opened'[p] >= opened'[q] + 2 => at'[p] - at'[q] >= Window
      <4>1. CASE p \in old /\ q \in old
        BY <4>1, <1>3, <1>5
      <4>2. CASE p = r /\ q \in old
        BY <4>2, <1>2, <1>3, <2>1, <2>2, <3>2
      <4>3. CASE p \in old /\ q = r
        BY <4>3, <1>2, <1>3, <2>1, <2>2, <3>1, <3>3
      <4>4. CASE p = r /\ q = r
        BY <4>4, <1>3, <2>1
      <4>. QED
        BY <4>1, <4>2, <4>3, <4>4
    <3>. QED
      BY <1>2, <3>4 DEF CountsInStep
  <2>5. CountsLeaveNoGap'
    <3>1. ASSUME NEW k \in 1 .. (count'[r] - 1)
          PROVE  \E q \in Counted' : opened'[q] = opened'[r] /\ count'[q] = k /\ at'[q] <= at'[r]
      <4>1. k \in 1 .. store.count
        BY <1>2, <1>3, <2>1
      <4>2. PICK q \in old : opened[q] = window /\ count[q] = k
        BY <4>1, <1>4, <2>1
      <4>. QED
        BY <4>2, <1>2, <1>3, <1>4, <2>1
    <3>2. ASSUME NEW p \in old, NEW k \in 1 .. (count'[p] - 1)
          PROVE  \E q \in Counted' : opened'[q] = opened'[p] /\ count'[q] = k /\ at'[q] <= at'[p]
      <4>1. PICK q \in old : opened[q] = opened[p] /\ count[q] = k /\ at[q] <= at[p]
        BY <1>3, <1>5
      <4>. QED
        BY <4>1, <1>2, <1>3
    <3>. QED
      BY <1>2, <3>1, <3>2 DEF CountsLeaveNoGap
  <2>. QED
    BY <2>3, <2>4, <2>5 DEF StoreInv
<1>7. CASE ~Live
  <2>1. /\ window' = window + 1 /\ store'.count = 1 /\ store'.expires = now + Window
        /\ store # None => store.expires <= now
    BY <1>2, <1>3, <1>7, Script DEF Live
  <2>2. \A q \in old : /\ opened[q] < window'
                       /\ at[q] < now /\ store # None
                       /\ opened[q] < window => at[q] + Window < now
    BY <1>2, <1>3, <1>4, <2>1
  <2>3. StoreInStep'
    <3>1. \A k \in 1 .. store'.count : \E q \in Counted' : opened'[q] = window' /\ count'[q] = k
      BY <1>2, <1>3, <2>1
    <3>2. window' # 0 /\ store' # None /\ store'.expires <= now' + Window
      BY <1>2, <1>3, <2>1
    <3>3. ASSUME NEW q \in old
          PROVE  /\ 1 <= opened'[q] /\ opened'[q] < window' /\ at'[q] <= now'
                 /\ at'[q] + Window < store'.expires
                 /\ opened'[q] + 1 < window' => at'[q] + 2 * Window < store'.expires
      BY <1>3, <1>4, <2>1, <2>2
    <3>4. /\ 1 <= opened'[r] /\ opened'[r] = window' /\ at'[r] <= now'
          /\ count'[r] <= store'.count
          /\ store'.expires - Window <= at'[r] /\ at'[r] < store'.expires
      BY <1>2, <1>3, <2>1
    <3>5. opened'[r] \in Nat /\ window' \in Nat /\ \A q \in old : opened'[q] \in Nat
      BY <1>3, <2>1
    <3>. QED
      BY <1>2, <3>1, <3>2, <3>3, <3>4, <3>5 DEF StoreInStep
  <2>4. CountsInStep'
    <3>1. ASSUME NEW p \in old \cup {r}, NEW q \in old \cup {r}
          PROVE  /\ opened'[p] = opened'[q] =>
                      (p # q => count'[p] # count'[q]) /\ at'[p] - at'[q] < Window
                 /\ opened'[p] >= opened'[q] + 2 => at'[p] - at'[q] >= Window
      <4>1. CASE p \in old /\ q \in old
        BY <4>1, <1>3, <1>5
      <4>2. CASE p = r /\ q \in old
        BY <4>2, <1>3, <2>1, <2>2
      <4>3. CASE p \in old /\ q = r
        BY <4>3, <1>3, <2>1, <2>2
      <4>4. CASE p = r /\ q = r
        BY <4>4, <1>3, <2>1
      <4>. QED
        BY <4>1, <4>2, <4>3, <4>4
    <3>. QED
      BY <1>2, <3>1 DEF CountsInStep
  <2>5. CountsLeaveNoGap'
    <3>1. 1 .. (count'[r] - 1) = {}
      BY <1>3, <2>1
    <3>2. ASSUME NEW p \in old, NEW k \in 1 .. (count'[p] - 1)
          PROVE  \E q \in Counted' : opened'[q] = opened'[p] /\ count'[q] = k /\ at'[q] <= at'[p]
      <4>1. PICK q \in old : opened[q] = opened[p] /\ count[q] = k /\ at[q] <= at[p]
        BY <1>3, <1>5
      <4>. QED
        BY <4>1, <1>2, <1>3
    <3>. QED
      BY <1>2, <3>1, <3>2 DEF CountsLeaveNoGap
  <2>. QED
    BY <2>3, <2>4, <2>5 DEF StoreInv
<1>. QED
  BY <1>6, <1>7

\* Every step of the limiter keeps the windows in step.
LEMMA LimiterWindows ==
  ASSUME TypeOK, VerdictInStep, StoreInv, [Next]_vars
  PROVE  StoreInv'
<1>. TypeOK'
  BY LimiterTypes
<1>1. ASSUME NEW r \in Requests, Execute(r)
      PROVE  StoreInv'
  BY <1>1, ScriptInWindow
<1>2. ASSUME NEW r \in Requests, CheckMemory(r)
      PROVE  StoreInv'
  <2>1. \A q \in Counted : at'[q] = at[q]
    BY <1>2 DEF CheckMemory, VerdictInStep, Counted, TypeOK
  <2>. QED
    BY <1>2, <2>1, NoScript DEF CheckMemory, TypeOK
<1>3. ASSUME NEW r \in Requests, FailClosed(r) \/ Send(r) \/ Answer(r) \/ GiveUp(r)
      PROVE  StoreInv'
  <2>1. /\ store' = store /\ window' = window /\ count' = count /\ opened' = opened
        /\ now' = now /\ at' = at
    BY <1>3 DEF FailClosed, Send, Answer, GiveUp
  <2>. QED
    BY <2>1, NoScript DEF TypeOK
<1>4. CASE Tick \/ UNCHANGED vars
  BY <1>4, NoScript DEF Tick, vars, TypeOK
<1>. QED
  BY <1>1, <1>2, <1>3, <1>4 DEF Next, Check

-----------------------------------------------------------------------------
(* The memory of a development process.                                     *)

\* Requests are finitely many, and so is every set of them.
LEMMA FewRequests ==
  ASSUME NEW S, S \subseteq Requests
  PROVE  IsFiniteSet(S) /\ Cardinality(S) \in Nat
BY FS_Subset, FS_CardinalityType

\* A set within another has no more elements.
LEMMA NoMore ==
  ASSUME NEW S, NEW T, S \subseteq T, T \subseteq Requests
  PROVE  Cardinality(S) <= Cardinality(T)
BY FewRequests, FS_Subset

\* An attempt in memory leaves the bucket complete, blocks a request only when Limit
\* others are in the window, and admits one only when there are fewer.
LEMMA AttemptInMemory ==
  ASSUME TypeOK, MemoryInv, NEW r \in Requests, CheckMemory(r)
  PROVE  MemoryInv'
<1>1. /\ ~shared /\ ~production /\ ~shared' /\ ~production'
      /\ now' = now /\ now \in Nat
      /\ pc[r] = "idle" /\ pc'[r] = "done" /\ at'[r] = now
      /\ \A q \in Requests \ {r} :
           pc'[q] = pc[q] /\ at'[q] = at[q] /\ blocked'[q] = blocked[q]
      /\ bucket' = Recent \cup {r}
  BY DEF CheckMemory, Verdict, TypeOK, env
<1>2. blocked'[r] = (Cardinality(Recent) + 1 > Limit)
  BY DEF CheckMemory, Verdict, TypeOK
<1>3. /\ blocked'[r] = TRUE => Cardinality(Recent) + 1 > Limit
      /\ blocked'[r] = FALSE => ~(Cardinality(Recent) + 1 > Limit)
  BY <1>2, Zenon
<1>4. blocked'[r] # None
  <2>1. (Cardinality(Recent) + 1 > Limit) \in BOOLEAN
    OBVIOUS
  <2>. QED
    BY <1>2, <2>1, Zenon
<1>5. /\ \A q \in bucket : pc[q] = "done"
      /\ \A q \in Requests :
           /\ pc[q] \in {"idle", "done"}
           /\ blocked[q] # None <=> pc[q] = "done"
           /\ at[q] <= now /\ at[q] \in Nat
           /\ pc[q] = "done" /\ now - at[q] < Window => q \in bucket
           /\ blocked[q] = TRUE => Cardinality(BusyBefore(q)) >= Limit
      /\ \A t \in Nat : Cardinality(Span(t)) <= Limit
  BY <1>1 DEF MemoryInv, TypeOK
<1>6. /\ Recent = {q \in Requests : pc[q] = "done" /\ now - at[q] < Window}
      /\ Recent \subseteq Requests \ {r}
      /\ IsFiniteSet(Recent) /\ Cardinality(Recent) \in Nat
  BY <1>1, <1>5, FewRequests DEF Recent, TypeOK
<1>7. \A q \in bucket' : pc'[q] = "done"
  BY <1>1, <1>6
<1>8. ASSUME NEW q \in Requests
      PROVE  /\ pc'[q] \in {"idle", "done"}
             /\ at'[q] <= now'
             /\ pc'[q] = "done" /\ now' - at'[q] < Window => q \in bucket'
  BY <1>1, <1>5, <1>6
<1>9. ASSUME NEW q \in Requests
      PROVE  blocked'[q] # None <=> pc'[q] = "done"
  <2>1. CASE q = r
    BY <1>1, <1>4, <2>1, Zenon
  <2>2. CASE q # r
    BY <1>1, <1>5, <2>2
  <2>. QED
    BY <2>1, <2>2
<1>10. ASSUME NEW q \in Requests, blocked'[q] = TRUE
      PROVE  Cardinality(BusyBefore(q)') >= Limit
  <2>1. BusyBefore(q)' \subseteq Requests /\ BusyBefore(q) \subseteq Requests
    BY DEF BusyBefore
  <2>2. Cardinality(BusyBefore(q)') \in Nat /\ Cardinality(BusyBefore(q)) \in Nat
    BY <2>1, FewRequests
  <2>3. CASE q = r
    <3>1. Cardinality(Recent) >= Limit
      <4>1. Cardinality(Recent) + 1 > Limit
        BY <1>3, <1>10, <2>3, Zenon
      <4>. QED
        BY <1>6, <4>1
    <3>2. Recent \subseteq BusyBefore(q)'
      BY <1>1, <1>5, <1>6, <2>3 DEF BusyBefore
    <3>. QED
      BY <1>6, <2>1, <2>2, <3>1, <3>2, NoMore
  <2>4. CASE q # r
    <3>1. blocked[q] = TRUE /\ at'[q] = at[q]
      BY <1>1, <1>10, <2>4
    <3>2. BusyBefore(q) \subseteq BusyBefore(q)'
      BY <1>1, <3>1 DEF BusyBefore
    <3>. QED
      BY <1>5, <2>1, <2>2, <3>1, <3>2, NoMore
  <2>. QED
    BY <2>3, <2>4
<1>11. ASSUME NEW t \in Nat
      PROVE  Cardinality(Span(t)') <= Limit
  <2>1. Span(t) \subseteq Requests /\ Span(t)' \subseteq Requests
    BY DEF Span, Admitted
  <2>2. Cardinality(Span(t)) \in Nat /\ Cardinality(Span(t)') \in Nat
    BY <2>1, FewRequests
  <2>3. CASE r \in Span(t)'
    <3>1. t <= now /\ now < t + Window /\ blocked'[r] = FALSE
      BY <1>1, <2>3 DEF Span, Admitted
    <3>2. Cardinality(Recent) + 1 <= Limit
      <4>1. ~(Cardinality(Recent) + 1 > Limit)
        BY <1>3, <3>1, Zenon
      <4>. QED
        BY <1>6, <4>1
    <3>3. Span(t)' \subseteq Recent \cup {r}
      <4>. SUFFICES ASSUME NEW q \in Span(t)', q # r
                    PROVE  q \in Recent
        OBVIOUS
      <4>1. q \in Requests /\ blocked[q] = FALSE /\ t <= at[q]
        BY <1>1 DEF Span, Admitted
      <4>2. pc[q] = "done"
        BY <1>5, <4>1, None # FALSE
      <4>3. now - at[q] < Window
        BY <1>1, <1>5, <3>1, <4>1
      <4>. QED
        BY <1>6, <4>1, <4>2, <4>3
    <3>4. Cardinality(Recent \cup {r}) = Cardinality(Recent) + 1
      BY <1>6, FS_AddElement
    <3>5. Cardinality(Span(t)') <= Cardinality(Recent \cup {r})
      BY <1>6, <3>3, NoMore
    <3>. QED
      BY <1>6, <2>2, <3>2, <3>4, <3>5
  <2>4. CASE r \notin Span(t)'
    <3>1. Span(t)' \subseteq Span(t)
      BY <1>1, <2>4 DEF Span, Admitted
    <3>. QED
      BY <1>5, <2>1, <2>2, <3>1, NoMore
  <2>. QED
    BY <2>3, <2>4
<1>. QED
  BY <1>7, <1>8, <1>9, <1>10, <1>11 DEF MemoryInv

\* Every step of the limiter keeps the memory in step.
LEMMA LimiterMemory ==
  ASSUME TypeOK, OnlyTheConfigured, MemoryInv, [Next]_vars
  PROVE  MemoryInv'
<1>1. ASSUME NEW r \in Requests, CheckMemory(r)
      PROVE  MemoryInv'
  BY <1>1, AttemptInMemory
<1>2. ASSUME NEW r \in Requests, FailClosed(r) \/ Send(r)
      PROVE  MemoryInv'
  <2>1. shared' = shared /\ production' = production
    BY <1>2 DEF FailClosed, Send, env
  <2>2. shared \/ production
    BY <1>2 DEF FailClosed, Send
  <2>3. shared' \/ production'
    BY <2>1, <2>2, Zenon
  <2>. QED
    BY <2>3 DEF MemoryInv
<1>3. ASSUME NEW r \in Requests, Execute(r) \/ Answer(r) \/ GiveUp(r)
      PROVE  MemoryInv'
  <2>1. shared /\ shared' = shared
    BY <1>3 DEF OnlyTheConfigured, Execute, Answer, GiveUp, env
  <2>. QED
    BY <2>1 DEF MemoryInv
<1>4. CASE Tick
  <2>1. /\ production' = production /\ shared' = shared /\ bucket' = bucket
        /\ pc' = pc /\ at' = at /\ blocked' = blocked /\ now' = now + 1
        /\ now \in Nat /\ at \in [Requests -> Nat]
    BY <1>4 DEF Tick, env, TypeOK
  <2>2. \A r \in Requests : BusyBefore(r)' = BusyBefore(r)
    BY <2>1 DEF BusyBefore
  <2>3. \A t \in Nat : Span(t)' = Span(t)
    BY <2>1 DEF Span, Admitted
  <2>. QED
    BY <2>1, <2>2, <2>3 DEF MemoryInv
<1>5. CASE UNCHANGED vars
  BY <1>5 DEF MemoryInv, vars, env, Span, Admitted, BusyBefore
<1>. QED
  BY <1>1, <1>2, <1>3, <1>4, <1>5 DEF Next, Check

-----------------------------------------------------------------------------
(* The theorems about the limiter.                                          *)

\* The limiter's invariant holds at every step, for any number of requests, any
\* limit and any window, in every environment.
THEOREM LimiterInvariant == Spec => []LimiterInv
<1>1. Init => LimiterInv
  <2>. SUFFICES ASSUME Init
                PROVE  LimiterInv
    OBVIOUS
  <2>1. TypeOK
    BY DEF Init, TypeOK
  <2>2. VerdictInStep /\ OnlyTheConfigured
    BY None # FALSE DEF Init, VerdictInStep, OnlyTheConfigured
  <2>3. StoreInv
    BY DEF Init, StoreInv, StoreInStep, CountsInStep, CountsLeaveNoGap, Counted
  <2>4. MemoryInv
    <3>1. Admitted = {}
      BY None # FALSE DEF Init, Admitted
    <3>2. \A t \in Nat : Span(t) = {}
      BY <3>1 DEF Span
    <3>3. \A t \in Nat : Cardinality(Span(t)) <= Limit
      BY <3>2, FS_EmptySet
    <3>4. \A r \in Requests : pc[r] = "idle" /\ blocked[r] = None /\ at[r] <= now
      BY DEF Init
    <3>5. \A r \in Requests : ~(blocked[r] = TRUE)
      BY <3>4, None # TRUE
    <3>6. bucket = {}
      BY DEF Init
    <3>. QED
      BY <3>3, <3>4, <3>5, <3>6 DEF MemoryInv
  <2>. QED
    BY <2>1, <2>2, <2>3, <2>4 DEF LimiterInv
<1>2. LimiterInv /\ [Next]_vars => LimiterInv'
  BY LimiterTypes, LimiterVerdicts, LimiterConfigured, LimiterWindows, LimiterMemory
  DEF LimiterInv
<1>. QED
  BY <1>1, <1>2, PTL DEF Spec

\* Every variable of the limiter keeps its type.
THEOREM LimiterTypeCorrect == Spec => []TypeOK
<1>1. LimiterInv => TypeOK
  BY DEF LimiterInv
<1>. QED
  BY <1>1, LimiterInvariant, PTL

\* A limiter that asks a store, or would have to, admits a request only with a count
\* within the limit.
LEMMA AdmittedWithCount ==
  ASSUME TypeOK, VerdictInStep, production \/ shared, NEW r \in Admitted
  PROVE  /\ r \in Requests /\ opened[r] \in Nat /\ at[r] \in Nat
         /\ count[r] \in 1 .. Limit /\ r \in Counted
<1>1. r \in Requests /\ blocked[r] = FALSE
  BY DEF Admitted
<1>2. 1 <= count[r] /\ count[r] <= Limit
  BY <1>1, Zenon DEF VerdictInStep
<1>3. opened[r] \in Nat /\ at[r] \in Nat /\ count[r] \in Nat
  BY <1>1 DEF TypeOK
<1>. QED
  BY <1>1, <1>2, <1>3 DEF Counted

\* A window of the store admits at most Limit requests: their counts are different
\* numbers from 1 to Limit.
LEMMA WindowBound ==
  ASSUME LimiterInv, shared, NEW w
  PROVE  Cardinality({r \in Admitted : opened[r] = w}) <= Limit
<1>. DEFINE S == {r \in Admitted : opened[r] = w}
            f == [r \in S |-> count[r]]
<1>1. \A r \in S : r \in Requests /\ count[r] \in 1 .. Limit /\ r \in Counted
  BY AdmittedWithCount DEF LimiterInv
<1>2. \A r, q \in S : count[r] = count[q] => r = q
  BY <1>1 DEF LimiterInv, StoreInv, CountsInStep
<1>3. f \in Injection(S, 1 .. Limit)
  BY <1>1, <1>2 DEF Injection, IsInjective
<1>4. IsFiniteSet(1 .. Limit) /\ Cardinality(1 .. Limit) = Limit
  BY FS_Interval
<1>. HIDE DEF S, f
<1>5. Cardinality(S) <= Limit
  BY <1>3, <1>4, FS_Injection
<1>. QED
  BY <1>5 DEF S

\* Two windows cover the requests admitted in any span of Window ticks, because two
\* windows with another between them are further apart.
LEMMA SpanBound ==
  ASSUME LimiterInv, shared, NEW t \in Nat
  PROVE  Cardinality(Span(t)) <= 2 * Limit
<1>. DEFINE S(w) == {r \in Admitted : opened[r] = w}
<1>1. \A r \in Span(t) : /\ r \in Admitted /\ r \in Counted /\ opened[r] \in Nat
                         /\ at[r] \in Nat /\ t <= at[r] /\ at[r] < t + Window
  BY AdmittedWithCount DEF LimiterInv, Span
<1>2. \A r, q \in Span(t) : opened[r] < opened[q] + 2
  <2>. SUFFICES ASSUME NEW r \in Span(t), NEW q \in Span(t), opened[r] >= opened[q] + 2
                PROVE  FALSE
    BY <1>1
  <2>1. at[r] - at[q] >= Window
    BY <1>1 DEF LimiterInv, StoreInv, CountsInStep
  <2>. QED
    BY <1>1, <2>1
<1>3. PICK w \in Int : Span(t) \subseteq S(w) \cup S(w + 1)
  <2>1. CASE Span(t) = {}
    BY <2>1
  <2>2. CASE Span(t) # {}
    <3>1. PICK p \in Span(t) : TRUE
      BY <2>2
    <3>2. CASE \E q \in Span(t) : opened[q] = opened[p] - 1
      <4>1. PICK q \in Span(t) : opened[q] = opened[p] - 1
        BY <3>2
      <4>2. \A r \in Span(t) : opened[r] \in {opened[p] - 1, opened[p]}
        BY <1>1, <1>2, <4>1
      <4>3. Span(t) \subseteq S(opened[p] - 1) \cup S((opened[p] - 1) + 1)
        BY <1>1, <4>2
      <4>. QED
        BY <1>1, <4>3
    <3>3. CASE ~ \E q \in Span(t) : opened[q] = opened[p] - 1
      <4>1. \A r \in Span(t) : opened[r] \in {opened[p], opened[p] + 1}
        BY <1>1, <1>2, <3>3
      <4>2. Span(t) \subseteq S(opened[p]) \cup S(opened[p] + 1)
        BY <1>1, <4>1
      <4>. QED
        BY <1>1, <4>2
    <3>. QED
      BY <3>2, <3>3
  <2>. QED
    BY <2>1, <2>2
<1>4. S(w) \subseteq Requests /\ S(w + 1) \subseteq Requests
  BY DEF Admitted
<1>5. Cardinality(S(w)) <= Limit /\ Cardinality(S(w + 1)) <= Limit
  BY WindowBound
<1>. HIDE DEF S
<1>6. /\ IsFiniteSet(S(w)) /\ Cardinality(S(w)) \in Nat
      /\ IsFiniteSet(S(w + 1)) /\ Cardinality(S(w + 1)) \in Nat
  BY <1>4, FewRequests
<1>7. /\ S(w) \cap S(w + 1) \subseteq Requests
      /\ S(w) \cup S(w + 1) \subseteq Requests
      /\ Span(t) \subseteq Requests
  BY <1>4 DEF Span, Admitted
<1>8. Cardinality(S(w) \cap S(w + 1)) \in Nat /\ Cardinality(S(w) \cup S(w + 1)) \in Nat
      /\ Cardinality(Span(t)) \in Nat
  BY <1>7, FewRequests
<1>9. Cardinality(S(w) \cup S(w + 1)) =
        Cardinality(S(w)) + Cardinality(S(w + 1)) - Cardinality(S(w) \cap S(w + 1))
  BY <1>6, FS_Union
<1>10. Cardinality(Span(t)) <= Cardinality(S(w) \cup S(w + 1))
  BY <1>3, <1>7, NoMore
<1>. QED
  BY <1>5, <1>6, <1>8, <1>9, <1>10

\* The limiter admits no more than it promises: in memory Limit requests in any span
\* of Window ticks, with a store Limit in a window and twice that in a span, and in
\* production none that the store did not count within the limit.
THEOREM AdmitsWithinBounds == Spec => []AdmissionBounds
<1>1. LimiterInv => AdmissionBounds
  <2>. SUFFICES ASSUME LimiterInv
                PROVE  AdmissionBounds
    OBVIOUS
  <2>1. SlidingWindowBound
    BY DEF LimiterInv, MemoryInv, SlidingWindowBound, Span, TypeOK
  <2>2. FixedWindowBound
    <3>. SUFFICES ASSUME shared
                  PROVE  /\ \A w \in 1 .. window : Cardinality({r \in Admitted : opened[r] = w}) <= Limit
                         /\ \A t \in 0 .. now :
                              Cardinality({r \in Admitted : t <= at[r] /\ at[r] < t + Window}) <= 2 * Limit
      BY DEF FixedWindowBound
    <3>1. \A t \in 0 .. now : t \in Nat
      BY DEF LimiterInv, TypeOK
    <3>. QED
      BY <3>1, WindowBound, SpanBound DEF Span
  <2>3. AdmittedOnlyByStore
    <3>. SUFFICES ASSUME production, NEW r \in Admitted
                  PROVE  shared /\ 1 <= count[r] /\ count[r] <= Limit
      BY DEF AdmittedOnlyByStore
    <3>1. r \in Requests /\ count[r] \in 1 .. Limit /\ count[r] # 0
      BY AdmittedWithCount DEF LimiterInv
    <3>2. shared
      BY <3>1 DEF LimiterInv, OnlyTheConfigured
    <3>. QED
      BY <3>1, <3>2
  <2>. QED
    BY <2>1, <2>2, <2>3 DEF AdmissionBounds
<1>. QED
  BY <1>1, LimiterInvariant, PTL

\* A limiter that counts blocks a request only when Limit others were counted in the
\* Window before it: the counts below the request's own leave no gap.
THEOREM BlocksForCause == Spec => []BlocksBusyKeysOnly
<1>1. LimiterInv => BlocksBusyKeysOnly
  <2>. SUFFICES ASSUME LimiterInv, NEW r \in Requests
                PROVE
                  LET counted == IF shared THEN {q \in Requests : count[q] # 0} ELSE {q \in Requests : pc[q] = "done"}
                      block == IF shared THEN pc[r] = "executed" /\ count[r] > Limit
                                         ELSE blocked[r] = TRUE /\ ~production
                  IN  block => Cardinality({q \in counted \ {r} :
                                              at[q] <= at[r] /\ at[r] - at[q] < Window}) >= Limit
    BY DEF BlocksBusyKeysOnly
  <2>1. CASE shared
    <3>. SUFFICES ASSUME pc[r] = "executed", count[r] > Limit
                  PROVE  Cardinality({q \in {p \in Requests : count[p] # 0} \ {r} :
                                        at[q] <= at[r] /\ at[r] - at[q] < Window}) >= Limit
      BY <2>1
    <3>. DEFINE S == {q \in {p \in Requests : count[p] # 0} \ {r} :
                        at[q] <= at[r] /\ at[r] - at[q] < Window}
                g == [k \in 1 .. Limit |-> CHOOSE q \in S : count[q] = k]
    <3>1. r \in Counted /\ count[r] \in Nat
      BY DEF LimiterInv, TypeOK, Counted
    <3>2. \A k \in 1 .. Limit : \E q \in S : count[q] = k
      <4>. SUFFICES ASSUME NEW k \in 1 .. Limit
                    PROVE  \E q \in S : count[q] = k
        OBVIOUS
      <4>1. k \in 1 .. (count[r] - 1) /\ k # count[r]
        BY <3>1
      <4>2. PICK q \in Counted : opened[q] = opened[r] /\ count[q] = k /\ at[q] <= at[r]
        BY <3>1, <4>1 DEF LimiterInv, StoreInv, CountsLeaveNoGap
      <4>3. at[r] - at[q] < Window
        BY <3>1, <4>2 DEF LimiterInv, StoreInv, CountsInStep
      <4>. QED
        BY <4>1, <4>2, <4>3 DEF Counted
    <3>. HIDE DEF S
    <3>3. \A k \in 1 .. Limit : g[k] \in S /\ count[g[k]] = k
      BY <3>2
    <3>4. g \in [1 .. Limit -> S]
      BY <3>3
    <3>. HIDE DEF g
    <3>5. \A j, k \in 1 .. Limit : g[j] = g[k] => j = k
      BY <3>3
    <3>6. g \in Injection(1 .. Limit, S)
      BY <3>4, <3>5 DEF Injection, IsInjective
    <3>7. IsFiniteSet(S) /\ Cardinality(S) \in Nat
      BY FewRequests DEF S
    <3>8. Cardinality(1 .. Limit) = Limit
      BY FS_Interval
    <3>9. Cardinality(1 .. Limit) <= Cardinality(S)
      BY <3>6, <3>7, FS_Injection
    <3>. QED
      BY <3>7, <3>8, <3>9 DEF S
  <2>2. CASE ~shared
    <3>. SUFFICES ASSUME blocked[r] = TRUE, ~production
                  PROVE  Cardinality({q \in {p \in Requests : pc[p] = "done"} \ {r} :
                                        at[q] <= at[r] /\ at[r] - at[q] < Window}) >= Limit
      BY <2>2
    <3>1. Cardinality(BusyBefore(r)) >= Limit
      BY <2>2 DEF LimiterInv, MemoryInv
    <3>2. BusyBefore(r) = {q \in {p \in Requests : pc[p] = "done"} \ {r} :
                             at[q] <= at[r] /\ at[r] - at[q] < Window}
      BY DEF BusyBefore
    <3>. QED
      BY <3>1, <3>2
  <2>. QED
    BY <2>1, <2>2
<1>. QED
  BY <1>1, LimiterInvariant, PTL

-----------------------------------------------------------------------------
(* The inductive invariant of the service.                                  *)

\* A cached configuration is that of the environment the process runs in; a request
\* past the edge was not refused there, and one that was served was admitted.
ServedInStep ==
  /\ cached => Valid
  /\ \A r \in Requests :
       /\ pc[r] # "idle" /\ ~Answered(r) => ~CrossOrigin(r)
       /\ servedIn[r] # None => Answered(r) /\ blocked[r] = FALSE

\* In production it was served in an official environment, and not for another origin.
ServedOfficially ==
  production => \A r \in Requests : servedIn[r] # None =>
    /\ servedIn[r] = [parses |-> TRUE, canonical |-> TRUE, store |-> TRUE,
                      origin |-> "home", chain |-> TRUE]
    /\ OriginOf[r] # "foreign"

\* What a probe found healthy was reachable since it began, and so was everything
\* once it answers, and as long as the platform sends traffic.
ProbeInStep ==
  /\ probe # None =>
       cached /\ up \subseteq seen /\ \A d \in Dependencies : probe[d] = "healthy" => d \in seen
  /\ health = "healthy" => cached /\ seen = Dependencies
  /\ host = "platform" /\ live => cached /\ seen = Dependencies

ServiceInv ==
  ServiceTypeOK /\ VerdictInStep /\ ServedInStep /\ ServedOfficially /\ ProbeInStep

USE ServiceAssumption

\* The steps that belong to the limiter change nothing of the service; those of the
\* service, but a restart, change nothing of the limiter.
LEMMA ServiceSteps ==
  ASSUME [ServiceNext]_serviceVars
  PROVE  \/ Boot \/ StartProbe \/ AnswerProbe \/ GoLive \/ Restart
         \/ \E d \in Dependencies : Settle(d) \/ Outage(d) \/ Recovery(d)
         \/ \E r \in Requests : Refuse(r) \/ Respond(r)
         \/ [Next]_vars /\ UNCHANGED service
<1>1. ASSUME NEW r \in Requests, Admit(r) \/ RunScript(r) \/ TakeVerdict(r)
      PROVE  [Next]_vars /\ UNCHANGED service
  BY <1>1 DEF Admit, RunScript, TakeVerdict, Next, Check
<1>2. Clock => [Next]_vars /\ UNCHANGED service
  BY DEF Clock, Next
<1>3. UNCHANGED serviceVars => [Next]_vars /\ UNCHANGED service
  BY DEF serviceVars, service
<1>. QED
  BY <1>1, <1>2, <1>3 DEF ServiceNext

\* A step of the limiter changes neither the mode nor the store it was configured with.
LEMMA LimiterEnvironment ==
  ASSUME [Next]_vars
  PROVE  production' = production /\ shared' = shared
BY DEF Next, Check, FailClosed, CheckMemory, Send, Execute, Answer, GiveUp, Tick, vars, env

\* Every step of the service but a restart is, for the limiter, a step or none.
LEMMA LimiterRuns ==
  ASSUME [ServiceNext]_serviceVars, ~Restart
  PROVE  [Next]_vars
<1>1. Boot \/ StartProbe \/ AnswerProbe \/ GoLive => UNCHANGED vars
  BY DEF Boot, StartProbe, AnswerProbe, GoLive, limiter
<1>2. ASSUME NEW d \in Dependencies, Settle(d) \/ Outage(d) \/ Recovery(d)
      PROVE  UNCHANGED vars
  BY <1>2 DEF Settle, Outage, Recovery, limiter
<1>3. ASSUME NEW r \in Requests, Refuse(r) \/ Respond(r)
      PROVE  UNCHANGED vars
  BY <1>3 DEF Refuse, Respond, limiter
<1>. QED
  BY <1>1, <1>2, <1>3, ServiceSteps

\* What the types of Service say beyond those of the limiter.
HostTypes ==
  /\ host \in Hosts /\ environment \in Environments
  /\ production = (host # "development") /\ shared = environment.store
  /\ process \in {"starting", "up", "exited"} /\ live \in BOOLEAN
  /\ live => process = "up"
ProbeTypes ==
  /\ cached \in BOOLEAN
  /\ up \subseteq Dependencies /\ seen \subseteq Dependencies
  /\ outages \in 0 .. MaxOutages /\ restarts \in 0 .. MaxRestarts
  /\ probe \in [Dependencies -> Results] \cup {None}
  /\ health \in {"none", "healthy", "unavailable", "unconfigured"}
ReplyTypes ==
  /\ reply \in [Requests -> Replies]
  /\ servedIn \in [Requests -> Environments \cup {None}]

\* The types of Service are those of its limiter and the three parts above.
LEMMA ServiceTypesInParts ==
  ServiceTypeOK <=> TypeOK /\ HostTypes /\ ProbeTypes /\ ReplyTypes
BY DEF ServiceTypeOK, HostTypes, ProbeTypes, ReplyTypes

\* Valid and Configured are truth values, as are all fields but one of an environment.
LEMMA EnvironmentTypes ==
  ASSUME ServiceTypeOK
  PROVE  /\ environment.parses \in BOOLEAN /\ environment.canonical \in BOOLEAN
         /\ environment.store \in BOOLEAN /\ environment.chain \in BOOLEAN
         /\ environment.origin \in {"home", "foreign", None}
         /\ Valid \in BOOLEAN /\ Configured \in BOOLEAN /\ production \in BOOLEAN
<1>1. environment \in Environment /\ cached \in BOOLEAN /\ production \in BOOLEAN
  BY DEF ServiceTypeOK, TypeOK
<1>2. /\ environment.parses \in BOOLEAN /\ environment.canonical \in BOOLEAN
      /\ environment.store \in BOOLEAN /\ environment.chain \in BOOLEAN
      /\ environment.origin \in {"home", "foreign", None}
  BY <1>1 DEF Environment
<1>3. Valid \in BOOLEAN
  BY <1>1, <1>2, Zenon DEF Valid
<1>4. Configured \in BOOLEAN
  BY <1>1, <1>3, Zenon DEF Configured
<1>. QED
  BY <1>1, <1>2, <1>3, <1>4

\* Every step of the service keeps the host, its process and its environment in step.
LEMMA ServiceHost ==
  ASSUME ServiceTypeOK, [ServiceNext]_serviceVars
  PROVE  HostTypes'
<1>. HostTypes
  BY ServiceTypesInParts
<1>1. CASE Boot
  BY <1>1 DEF Boot, HostTypes, limiter, vars, env
<1>2. CASE StartProbe \/ AnswerProbe
  BY <1>2 DEF StartProbe, AnswerProbe, HostTypes, deployment, limiter, vars, env
<1>3. CASE GoLive
  BY <1>3 DEF GoLive, HostTypes, limiter, vars, env
<1>4. CASE Restart
  BY <1>4 DEF Restart, HostTypes
<1>5. ASSUME NEW d \in Dependencies, Settle(d) \/ Outage(d) \/ Recovery(d)
      PROVE  HostTypes'
  BY <1>5 DEF Settle, Outage, Recovery, HostTypes, deployment, limiter, vars, env
<1>6. ASSUME NEW r \in Requests, Refuse(r) \/ Respond(r)
      PROVE  HostTypes'
  BY <1>6 DEF Refuse, Respond, HostTypes, deployment, limiter, vars, env
<1>7. CASE [Next]_vars /\ UNCHANGED service
  BY <1>7, LimiterEnvironment DEF HostTypes, deployment, service
<1>. QED
  BY <1>1, <1>2, <1>3, <1>4, <1>5, <1>6, <1>7, ServiceSteps

\* Every step of the service keeps the types of the cache and of the probe.
LEMMA ServiceProbe ==
  ASSUME ServiceTypeOK, [ServiceNext]_serviceVars
  PROVE  ProbeTypes'
<1>. ProbeTypes /\ Valid \in BOOLEAN /\ Configured \in BOOLEAN
  BY ServiceTypesInParts, EnvironmentTypes
<1>1. CASE Boot
  <2>1. cached' \in BOOLEAN
    BY <1>1 DEF Boot, ProbeTypes
  <2>. QED
    BY <1>1, <2>1 DEF Boot, ProbeTypes, probing
<1>2. CASE StartProbe
  <2>1. cached' \in BOOLEAN
    BY <1>2 DEF StartProbe
  <2>2. [d \in Dependencies |-> "pending"] \in [Dependencies -> Results]
    BY DEF Results
  <2>. QED
    BY <1>2, <2>1, <2>2 DEF StartProbe, ProbeTypes
<1>3. CASE AnswerProbe
  BY <1>3 DEF AnswerProbe, ProbeTypes
<1>4. CASE GoLive
  BY <1>4 DEF GoLive, ProbeTypes, probing
<1>5. CASE Restart
  <2>1. cached' \in BOOLEAN
    BY <1>5 DEF Restart
  <2>2. restarts' \in 0 .. MaxRestarts /\ outages' = outages
    BY <1>5 DEF Restart, ProbeTypes
  <2>3. up' = up /\ seen' = {} /\ probe' = None /\ health' = "none"
    BY <1>5 DEF Restart
  <2>. QED
    BY <2>1, <2>2, <2>3 DEF ProbeTypes
<1>6. ASSUME NEW d \in Dependencies, Settle(d)
      PROVE  ProbeTypes'
  BY <1>6 DEF Settle, ProbeTypes, Results
<1>7. ASSUME NEW d \in Dependencies, Outage(d) \/ Recovery(d)
      PROVE  ProbeTypes'
  BY <1>7 DEF Outage, Recovery, ProbeTypes, probing
<1>8. ASSUME NEW r \in Requests, Refuse(r) \/ Respond(r)
      PROVE  ProbeTypes'
  <2>1. cached' \in BOOLEAN
    BY <1>8 DEF Refuse, Respond, ProbeTypes
  <2>. QED
    BY <1>8, <2>1 DEF Refuse, Respond, ProbeTypes, probing
<1>9. CASE [Next]_vars /\ UNCHANGED service
  BY <1>9 DEF ProbeTypes, probing, service
<1>. QED
  BY <1>1, <1>2, <1>3, <1>4, <1>5, <1>6, <1>7, <1>8, <1>9, ServiceSteps

\* Every step of the service keeps the types of the replies.
LEMMA ServiceReplies ==
  ASSUME ServiceTypeOK, [ServiceNext]_serviceVars
  PROVE  ReplyTypes'
<1>. ReplyTypes /\ environment \in Environments
  BY ServiceTypesInParts DEF HostTypes
<1>1. CASE Boot \/ StartProbe \/ AnswerProbe \/ GoLive
  BY <1>1 DEF Boot, StartProbe, AnswerProbe, GoLive, ReplyTypes
<1>2. CASE Restart
  BY <1>2 DEF Restart, ReplyTypes, Replies
<1>3. ASSUME NEW d \in Dependencies, Settle(d) \/ Outage(d) \/ Recovery(d)
      PROVE  ReplyTypes'
  BY <1>3 DEF Settle, Outage, Recovery, ReplyTypes
<1>4. ASSUME NEW r \in Requests, Refuse(r)
      PROVE  ReplyTypes'
  BY <1>4 DEF Refuse, Reply, ReplyTypes, Replies
<1>5. ASSUME NEW r \in Requests, Respond(r)
      PROVE  ReplyTypes'
  <2>1. \E c \in Replies : reply' = [reply EXCEPT ![r] = c]
    BY <1>5 DEF Respond, Reply, Replies
  <2>2. servedIn' = servedIn \/ servedIn' = [servedIn EXCEPT ![r] = environment]
    BY <1>5 DEF Respond
  <2>. QED
    BY <2>1, <2>2 DEF ReplyTypes
<1>6. CASE [Next]_vars /\ UNCHANGED service
  BY <1>6 DEF ReplyTypes, service
<1>. QED
  BY <1>1, <1>2, <1>3, <1>4, <1>5, <1>6, ServiceSteps

\* A restart turns a request that waits into one nobody waits for, and changes nothing
\* else of the limiter.
LEMMA RestartTypes ==
  ASSUME ServiceTypeOK, Restart
  PROVE  /\ TypeOK'
         /\ \A r \in Requests :
              pc'[r] = CASE pc[r] = "sent" -> "abandoned"
                         [] pc[r] = "executed" -> "done"
                         [] OTHER -> pc[r]
         /\ production /\ production' = production
         /\ blocked' = blocked /\ count' = count
<1>1. \A r \in Requests :
        pc'[r] = CASE pc[r] = "sent" -> "abandoned"
                   [] pc[r] = "executed" -> "done"
                   [] OTHER -> pc[r]
  BY DEF Restart
<1>2. production /\ production' = production
  BY DEF Restart, ServiceTypeOK
<1>3. shared' \in BOOLEAN
  <2>1. environment' \in Environment /\ shared' = environment'.store
    BY DEF Restart
  <2>. QED
    BY <2>1 DEF Environment
<1>4. pc' \in [Requests -> {"idle", "sent", "executed", "abandoned", "done"}]
  BY DEF Restart, ServiceTypeOK, TypeOK
<1>5. TypeOK'
  BY <1>2, <1>3, <1>4 DEF Restart, ServiceTypeOK, TypeOK
<1>6. blocked' = blocked /\ count' = count
  BY DEF Restart
<1>. QED
  BY <1>1, <1>2, <1>5, <1>6

\* Every step of the service keeps its types and those of its limiter, and what each
\* request knows.
LEMMA ServiceTypes ==
  ASSUME ServiceTypeOK, VerdictInStep, [ServiceNext]_serviceVars
  PROVE  ServiceTypeOK' /\ VerdictInStep'
<1>. TypeOK
  BY DEF ServiceTypeOK
<1>1. TypeOK' /\ VerdictInStep'
  <2>1. CASE Restart
    <3>1. TypeOK'
      BY <2>1, RestartTypes
    <3>2. \A r \in Requests :
            /\ pc'[r] \notin {"sent", "executed"} /\ (pc'[r] = "idle" => pc[r] = "idle")
            /\ pc'[r] = "abandoned" => pc[r] \in {"sent", "abandoned"}
      BY <2>1, RestartTypes
    <3>3. \A r \in Requests : pc[r] = "sent" => blocked[r] # FALSE
      BY None # FALSE DEF VerdictInStep
    <3>4. blocked' = blocked /\ count' = count /\ production
      BY <2>1, RestartTypes
    <3>. SUFFICES ASSUME NEW r \in Requests
                  PROVE  /\ pc'[r] \in {"idle", "sent", "executed"} => blocked'[r] = None
                         /\ pc'[r] = "abandoned" => blocked'[r] # FALSE
                         /\ pc'[r] \in {"idle", "sent", "abandoned"} => count'[r] = 0
                         /\ pc'[r] = "executed" => count'[r] # 0
                         /\ blocked'[r] = FALSE /\ (production' \/ shared') =>
                              1 <= count'[r] /\ count'[r] <= Limit
      BY <3>1 DEF VerdictInStep
    <3>5. /\ pc'[r] \in {"idle", "sent", "executed"} => blocked'[r] = None
          /\ pc'[r] = "abandoned" => blocked'[r] # FALSE
          /\ pc'[r] \in {"idle", "sent", "abandoned"} => count'[r] = 0
          /\ pc'[r] = "executed" => count'[r] # 0
      BY <3>2, <3>3, <3>4 DEF VerdictInStep
    <3>6. blocked[r] = FALSE => 1 <= count[r] /\ count[r] <= Limit
      BY <3>4, Zenon DEF VerdictInStep
    <3>. QED
      BY <3>4, <3>5, <3>6
  <2>2. CASE ~Restart
    BY <2>2, LimiterRuns, LimiterTypes, LimiterVerdicts
  <2>. QED
    BY <2>1, <2>2
<1>2. HostTypes' /\ ProbeTypes' /\ ReplyTypes'
  BY ServiceHost, ServiceProbe, ServiceReplies
<1>3. ServiceTypeOK'
  BY <1>1, <1>2 DEF ServiceTypeOK, HostTypes, ProbeTypes, ReplyTypes
<1>. QED
  BY <1>1, <1>3

-----------------------------------------------------------------------------
(* What is served, and when the platform sends traffic.                     *)

\* Requests keep their place: a step of the limiter moves only a request that is
\* admitted at the edge or in flight, or one whose script runs late, and changes no
\* verdict that was there when its request was answered.
LEMMA LimiterInService ==
  ASSUME ServiceInv, [Next]_vars, UNCHANGED service, [ServiceNext]_serviceVars,
         NEW r \in Requests
  PROVE  /\ pc'[r] # "idle" => pc[r] # "idle" \/ ~CrossOrigin(r)
         /\ Answered(r) => blocked'[r] = blocked[r]
<1>. TypeOK /\ TypeOK' /\ VerdictInStep
  BY LimiterTypes DEF ServiceInv, ServiceTypeOK
<1>1. ASSUME NEW q \in Requests, Admit(q)
      PROVE  /\ pc'[r] # "idle" => pc[r] # "idle" \/ ~CrossOrigin(r)
             /\ Answered(r) => blocked'[r] = blocked[r]
  BY <1>1 DEF Admit, FailClosed, CheckMemory, Send, Verdict, TypeOK
<1>2. ASSUME NEW q \in Requests, RunScript(q)
      PROVE  /\ pc'[r] # "idle" => pc[r] # "idle" \/ ~CrossOrigin(r)
             /\ Answered(r) => blocked'[r] = blocked[r]
  BY <1>2, Script DEF RunScript
<1>3. ASSUME NEW q \in Requests, TakeVerdict(q)
      PROVE  /\ pc'[r] # "idle" => pc[r] # "idle" \/ ~CrossOrigin(r)
             /\ Answered(r) => blocked'[r] = blocked[r]
  BY <1>3 DEF TakeVerdict, InFlight, Answer, GiveUp, Verdict, TypeOK
<1>4. ASSUME pc' = pc, blocked' = blocked
      PROVE  /\ pc'[r] # "idle" => pc[r] # "idle" \/ ~CrossOrigin(r)
             /\ Answered(r) => blocked'[r] = blocked[r]
  BY <1>4
<1>5. CASE Clock \/ UNCHANGED serviceVars
  BY <1>4, <1>5 DEF Clock, Tick, serviceVars, vars
<1>6. CASE Boot \/ StartProbe \/ AnswerProbe \/ GoLive
  BY <1>4, <1>6 DEF Boot, StartProbe, AnswerProbe, GoLive, limiter, vars
<1>7. ASSUME NEW d \in Dependencies, Settle(d) \/ Outage(d) \/ Recovery(d)
      PROVE  pc' = pc /\ blocked' = blocked
  BY <1>7 DEF Settle, Outage, Recovery, limiter, vars
<1>8. ASSUME NEW q \in Requests, Refuse(q) \/ Respond(q)
      PROVE  pc' = pc /\ blocked' = blocked
  BY <1>8 DEF Refuse, Respond, limiter, vars
<1>9. CASE Restart
  BY <1>9 DEF Restart, service, ServiceInv, ServiceTypeOK
<1>. QED
  BY <1>1, <1>2, <1>3, <1>4, <1>5, <1>6, <1>7, <1>8, <1>9 DEF ServiceNext

\* Every step of the service keeps the cache, the edge and the served requests in step.
LEMMA ServiceServes ==
  ASSUME ServiceInv, [ServiceNext]_serviceVars
  PROVE  ServedInStep'
<1>. /\ ServiceTypeOK /\ TypeOK /\ VerdictInStep /\ ServedInStep
     /\ ServiceTypeOK' /\ TypeOK' /\ VerdictInStep'
  BY ServiceTypes DEF ServiceInv, ServiceTypeOK
<1>. /\ Valid \in BOOLEAN /\ Configured \in BOOLEAN /\ cached \in BOOLEAN
  BY EnvironmentTypes DEF ServiceTypeOK
<1>. DEFINE Same == /\ UNCHANGED <<production, environment, pc, blocked, reply, servedIn>>
                    /\ cached' => Valid
<1>1. ASSUME Same
      PROVE  ServedInStep'
  <2>1. Valid' = Valid /\ \A r \in Requests : CrossOrigin(r)' = CrossOrigin(r)
    BY <1>1 DEF Valid, CrossOrigin
  <2>. QED
    BY <1>1, <2>1 DEF ServedInStep, Answered
<1>2. CASE Boot \/ StartProbe \/ AnswerProbe \/ GoLive
  <2>1. cached' => Valid
    BY <1>2 DEF Boot, StartProbe, AnswerProbe, GoLive, Configured, ServedInStep
  <2>. QED
    BY <1>1, <1>2, <2>1
    DEF Boot, StartProbe, AnswerProbe, GoLive, limiter, vars, env, deployment
<1>3. ASSUME NEW d \in Dependencies, Settle(d) \/ Outage(d) \/ Recovery(d)
      PROVE  ServedInStep'
  <2>1. cached' => Valid
    BY <1>3 DEF Settle, Outage, Recovery, ServedInStep
  <2>. QED
    BY <1>1, <1>3, <2>1 DEF Settle, Outage, Recovery, limiter, vars, env, deployment
<1>4. CASE Restart
  <2>1. /\ ~cached' /\ servedIn' = servedIn /\ blocked' = blocked
        /\ \A r \in Requests : reply'[r] = IF InFlight(r) THEN "dropped" ELSE reply[r]
    BY <1>4 DEF Restart
  <2>2. ASSUME NEW r \in Requests
        PROVE  /\ pc'[r] # "idle" => Answered(r)'
               /\ Answered(r) => Answered(r)'
    BY <1>4, <2>1, RestartTypes DEF Answered, InFlight
  <2>. QED
    BY <2>1, <2>2 DEF ServedInStep
<1>5. ASSUME NEW r \in Requests, Refuse(r) \/ Respond(r)
      PROVE  ServedInStep'
  <2>1. /\ UNCHANGED <<production, environment, pc, blocked>>
        /\ \A q \in Requests \ {r} : reply'[q] = reply[q] /\ servedIn'[q] = servedIn[q]
        /\ Answered(r)'
    BY <1>5 DEF Refuse, Respond, Reply, Answered, limiter, vars, env, deployment, ServiceTypeOK
  <2>2. servedIn'[r] # None => blocked[r] = FALSE
    <3>1. CASE Refuse(r)
      BY <3>1 DEF Refuse, ServedInStep
    <3>2. CASE Respond(r)
      <4>1. blocked[r] \in BOOLEAN
        BY <3>2 DEF Respond, TypeOK
      <4>2. servedIn'[r] # None => servedIn[r] # None \/ ~blocked[r]
        BY <3>2, Zenon DEF Respond
      <4>. QED
        BY <4>1, <4>2, Zenon DEF ServedInStep
    <3>. QED
      BY <1>5, <3>1, <3>2
  <2>3. cached' => Valid
    BY <1>5 DEF Refuse, Respond, Configured, ServedInStep
  <2>4. Valid' = Valid /\ \A q \in Requests : CrossOrigin(q)' = CrossOrigin(q)
    BY <2>1 DEF Valid, CrossOrigin
  <2>. QED
    BY <2>1, <2>2, <2>3, <2>4 DEF ServedInStep, Answered
<1>6. CASE [Next]_vars /\ UNCHANGED service
  <2>1. UNCHANGED <<environment, cached, reply, servedIn, production>>
    BY <1>6, LimiterEnvironment DEF service, deployment
  <2>2. Valid' = Valid /\ \A r \in Requests : CrossOrigin(r)' = CrossOrigin(r)
    BY <2>1 DEF Valid, CrossOrigin
  <2>. QED
    BY <1>6, <2>1, <2>2, LimiterInService DEF ServedInStep, Answered
<1>. QED
  BY <1>2, <1>3, <1>4, <1>5, <1>6, ServiceSteps

\* A handler that reads its table in production does so in an official environment,
\* for a request of the app's own origin or of none.
LEMMA ServiceOfficial ==
  ASSUME ServiceInv, [ServiceNext]_serviceVars
  PROVE  ServedOfficially'
<1>. /\ ServiceTypeOK /\ VerdictInStep /\ ServedInStep /\ ServedOfficially
  BY DEF ServiceInv
<1>. DEFINE Official == [parses |-> TRUE, canonical |-> TRUE, store |-> TRUE,
                         origin |-> "home", chain |-> TRUE]
<1>1. production' = production
  <2>1. Restart => production' = production
    BY DEF Restart
  <2>. QED
    BY <2>1, LimiterRuns, LimiterEnvironment
<1>2. ASSUME servedIn' = servedIn
      PROVE  ServedOfficially'
  BY <1>1, <1>2 DEF ServedOfficially
<1>3. CASE Boot \/ StartProbe \/ AnswerProbe \/ GoLive \/ Restart
  BY <1>2, <1>3 DEF Boot, StartProbe, AnswerProbe, GoLive, Restart
<1>4. ASSUME NEW d \in Dependencies, Settle(d) \/ Outage(d) \/ Recovery(d)
      PROVE  ServedOfficially'
  BY <1>2, <1>4 DEF Settle, Outage, Recovery
<1>5. ASSUME NEW r \in Requests, Refuse(r)
      PROVE  ServedOfficially'
  BY <1>2, <1>5 DEF Refuse
<1>6. ASSUME NEW r \in Requests, Respond(r)
      PROVE  ServedOfficially'
  <2>1. CASE servedIn' = servedIn
    BY <1>2, <2>1
  <2>2. CASE servedIn' # servedIn
    <3>1. /\ servedIn' = [servedIn EXCEPT ![r] = environment]
          /\ Configured /\ blocked[r] # None /\ ~Answered(r)
      BY <1>6, <2>2 DEF Respond
    <3>2. pc[r] # "idle"
      BY <3>1 DEF VerdictInStep
    <3>3. ~CrossOrigin(r)
      BY <3>1, <3>2 DEF ServedInStep
    <3>4. Valid
      BY <3>1 DEF Configured, ServedInStep
    <3>5. environment \in Environment /\ OriginOf[r] \in {"home", "foreign", "none"}
      BY DEF ServiceTypeOK
    <3>6. production => /\ environment.parses /\ environment.canonical /\ environment.store
                        /\ environment.origin = "home" /\ environment.chain
      BY <3>4 DEF Valid
    <3>7. production => environment = Official
      BY <3>5, <3>6 DEF Environment
    <3>8. production => OriginOf[r] # "foreign"
      BY <3>3, <3>6 DEF CrossOrigin
    <3>9. \A q \in Requests :
            servedIn'[q] = IF q = r THEN environment ELSE servedIn[q]
      BY <3>1 DEF ServiceTypeOK
    <3>. QED
      BY <1>1, <3>7, <3>8, <3>9 DEF ServedOfficially
  <2>. QED
    BY <2>1, <2>2
<1>7. CASE [Next]_vars /\ UNCHANGED service
  BY <1>2, <1>7 DEF service
<1>. QED
  BY <1>3, <1>4, <1>5, <1>6, <1>7, ServiceSteps

\* Every step of the service keeps the probe, its answer and the traffic in step.
LEMMA ServiceProbes ==
  ASSUME ServiceInv, [ServiceNext]_serviceVars
  PROVE  ProbeInStep'
<1>. /\ ServiceTypeOK /\ ServedInStep /\ ProbeInStep
     /\ Valid \in BOOLEAN /\ Configured \in BOOLEAN /\ cached \in BOOLEAN
  BY EnvironmentTypes DEF ServiceInv, ServiceTypeOK
<1>1. CASE Boot
  <2>1. cached => cached'
    BY <1>1 DEF Boot, ServedInStep
  <2>. QED
    BY <1>1, <2>1 DEF Boot, ProbeInStep, probing
<1>2. CASE StartProbe
  <2>1. Configured /\ cached' /\ probe' = [d \in Dependencies |-> "pending"] /\ health' = "none"
        => ProbeInStep'
    BY <1>2 DEF StartProbe, ProbeInStep, deployment
  <2>2. ~Configured /\ health' = "unconfigured" /\ UNCHANGED <<probe, seen>> => ProbeInStep'
    <3>. SUFFICES ASSUME ~Configured, health' = "unconfigured", UNCHANGED <<probe, seen>>
                  PROVE  ProbeInStep'
      OBVIOUS
    <3>1. ~cached
      BY Zenon DEF Configured
    <3>. QED
      BY <1>2, <3>1 DEF StartProbe, ProbeInStep, deployment
  <2>. QED
    BY <1>2, <2>1, <2>2 DEF StartProbe
<1>3. CASE AnswerProbe
  <2>1. health' = "healthy" => cached /\ seen = Dependencies
    BY <1>3 DEF AnswerProbe, ProbeInStep, ServiceTypeOK
  <2>. QED
    BY <1>3, <2>1 DEF AnswerProbe, ProbeInStep, deployment
<1>4. CASE GoLive
  BY <1>4 DEF GoLive, ProbeInStep, probing
<1>5. CASE Restart
  BY <1>5 DEF Restart, ProbeInStep
<1>6. ASSUME NEW d \in Dependencies, Settle(d)
      PROVE  ProbeInStep'
  <2>1. /\ probe # None /\ probe \in [Dependencies -> Results]
        /\ probe' = [probe EXCEPT ![d] = IF Reachable(d) THEN "healthy" ELSE "unavailable"]
        /\ UNCHANGED <<cached, up, seen, health, host, live>>
    BY <1>6 DEF Settle, deployment, ServiceTypeOK
  <2>2. probe'[d] = "healthy" => d \in seen
    BY <2>1 DEF Reachable, ProbeInStep
  <2>3. \A e \in Dependencies : probe'[e] = "healthy" => e \in seen
    BY <2>1, <2>2 DEF ProbeInStep
  <2>. QED
    BY <2>1, <2>3 DEF ProbeInStep
<1>7. ASSUME NEW d \in Dependencies, Outage(d)
      PROVE  ProbeInStep'
  BY <1>7 DEF Outage, ProbeInStep, deployment, probing
<1>8. ASSUME NEW d \in Dependencies, Recovery(d)
      PROVE  ProbeInStep'
  BY <1>8 DEF Recovery, ProbeInStep, deployment, ServiceTypeOK
<1>9. ASSUME NEW r \in Requests, Refuse(r) \/ Respond(r)
      PROVE  ProbeInStep'
  <2>1. cached => cached'
    BY <1>9 DEF Refuse, Respond, Configured
  <2>. QED
    BY <1>9, <2>1 DEF Refuse, Respond, ProbeInStep, deployment, probing
<1>10. CASE [Next]_vars /\ UNCHANGED service
  BY <1>10 DEF ProbeInStep, deployment, probing, service
<1>. QED
  BY <1>1, <1>2, <1>3, <1>4, <1>5, <1>6, <1>7, <1>8, <1>9, <1>10, ServiceSteps

-----------------------------------------------------------------------------
(* The theorems about the service.                                          *)

\* The service's invariant holds at every step, on every host, in every environment,
\* and whatever goes down or is restarted.
THEOREM ServiceInvariant == ServiceSpec => []ServiceInv
<1>1. ServiceInit => ServiceInv
  <2>. SUFFICES ASSUME ServiceInit
                PROVE  ServiceInv
    OBVIOUS
  <2>1. TypeOK
    BY DEF ServiceInit, Init, TypeOK
  <2>2. HostTypes
    BY DEF ServiceInit, HostTypes
  <2>3. ProbeTypes
    <3>1. cached \in BOOLEAN
      BY DEF ServiceInit
    <3>2. outages \in 0 .. MaxOutages /\ restarts \in 0 .. MaxRestarts
      BY DEF ServiceInit
    <3>. QED
      BY <3>1, <3>2 DEF ServiceInit, ProbeTypes
  <2>4. ReplyTypes
    BY DEF ServiceInit, ReplyTypes, Replies
  <2>5. VerdictInStep
    BY None # FALSE DEF ServiceInit, Init, VerdictInStep
  <2>6. ServedInStep /\ ServedOfficially
    BY DEF ServiceInit, Init, ServedInStep, ServedOfficially
  <2>7. ProbeInStep
    BY DEF ServiceInit, ProbeInStep
  <2>. QED
    BY <2>1, <2>2, <2>3, <2>4, <2>5, <2>6, <2>7, ServiceTypesInParts DEF ServiceInv
<1>2. ServiceInv /\ [ServiceNext]_serviceVars => ServiceInv'
  BY ServiceTypes, ServiceServes, ServiceOfficial, ServiceProbes DEF ServiceInv
<1>. QED
  BY <1>1, <1>2, PTL DEF ServiceSpec

\* Every variable of the service keeps its type, and the limiter's environment is the
\* one the process runs in.
THEOREM ServiceTypeCorrect == ServiceSpec => []ServiceTypeOK
<1>1. ServiceInv => ServiceTypeOK
  BY DEF ServiceInv
<1>. QED
  BY <1>1, ServiceInvariant, PTL

\* In production a handler reads its table only in an official environment, for a
\* request that is not from another origin and that the store counted within the limit.
THEOREM ServiceFailsClosed == ServiceSpec => []FailsClosed
<1>1. ServiceInv => FailsClosed
  <2>. SUFFICES ASSUME ServiceInv, production, NEW r \in Requests, servedIn[r] # None
                PROVE  /\ servedIn[r] = [parses |-> TRUE, canonical |-> TRUE, store |-> TRUE,
                                         origin |-> "home", chain |-> TRUE]
                       /\ OriginOf[r] # "foreign"
                       /\ 1 <= count[r] /\ count[r] <= Limit
    BY DEF FailsClosed
  <2>1. r \in Admitted
    BY DEF ServiceInv, ServedInStep, Admitted
  <2>2. count[r] \in 1 .. Limit
    BY <2>1, AdmittedWithCount DEF ServiceInv, ServiceTypeOK
  <2>. QED
    BY <2>2 DEF ServiceInv, ServedOfficially
<1>. QED
  BY <1>1, ServiceInvariant, PTL

\* The platform gives traffic only to a process that is configured and that could reach
\* every dependency at some moment of its own probe.
THEOREM TrafficOnlyWhenReady == ServiceSpec => []LiveMeansReady
<1>1. ServiceInv => LiveMeansReady
  BY DEF ServiceInv, ServedInStep, ProbeInStep, LiveMeansReady
<1>. QED
  BY <1>1, ServiceInvariant, PTL

=============================================================================

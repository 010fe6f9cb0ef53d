------------------------ MODULE GovernancePageProofs ------------------------
(***************************************************************************)
(* Theorems about GovernancePage, for every set of wallets, proposals and  *)
(* interactions, every voting window and every number of blocks and        *)
(* faults.                                                                 *)
(***************************************************************************)
EXTENDS GovernancePage, TLAPS

USE GovernanceAssumption, NoneAssumption
USE DEF Refreshing, Busy

-----------------------------------------------------------------------------
(* The inductive invariant behind the properties.                           *)

Working(f) == kind[f] \in {"approve", "vote"} /\ InFlight(f)

\* A flow has captured what its kind needs; only approvals and votes, once
\* submitted, have a transaction; one that is being read was read at a past block.
FlowsInStep ==
  \A f \in Flows :
    /\ pc[f] = "idle" <=> kind[f] = "none"
    /\ pc[f] = "idle" => tx[f] = "none"
    /\ pc[f] \in {"submit", "receipt"} \/ tx[f] # "none" => kind[f] \in {"approve", "vote"}
    /\ pc[f] = "submit" => tx[f] = "none"
    /\ kind[f] \in {"connect", "approve", "vote"} => by[f] \in Wallets
    /\ kind[f] = "vote" => on[f] \in Proposals /\ option[f] \in Options
    /\ pc[f] = "deliver" => got[f] # None /\ got[f].for = by[f]
    /\ at[f] <= time

\* The buttons keep a second approval or vote from starting.
OneWorks == \A f, g \in Flows : Working(f) /\ Working(g) => f = g

\* A transaction that succeeded as it was signed has cast its vote.
VotesInStep ==
  /\ confirmed \subseteq votes
  /\ \A f \in Flows : tx[f] = "success" /\ kind[f] = "vote" =>
       [wallet |-> by[f], proposal |-> on[f], option |-> option[f]] \in votes

\* An answer of the endpoint that is not ahead of a contract with these votes, at
\* this time.
Behind(d, cast, now) ==
  /\ \A p \in d.voted : \E v \in cast : v.wallet = d.for /\ v.proposal = p
  /\ \A p \in Proposals :
       /\ d.status[p] # "upcoming" => Opens[p] <= now
       /\ d.status[p] \in {"awaiting_finalization", "finalized"} => Closes[p] < now

AnswersBehind ==
  /\ \A p \in finalized : Closes[p] < time
  /\ data # None => Behind(data, votes, time)
  /\ \A f \in Flows : got[f] # None => Behind(got[f], votes, time)

PageInv == TypeOK /\ FlowsInStep /\ OneWorks /\ VotesInStep /\ AnswersBehind

\* A flow that has had the page to itself still has, and is about its wallet.
AloneInStep ==
  \A f \in alone :
    /\ by[f] = wallet
    /\ \A g \in Flows \ {f} : ~InFlight(g) /\ g \notin alone
    /\ pc[f] = "deliver" =>
         \A v \in confirmed : v.wallet = wallet => v.proposal \in got[f].voted

Current == data # None /\ data.for = wallet
           /\ \A v \in confirmed : v.wallet = wallet => v.proposal \in data.voted

\* Undisturbed, the page is current or is about to be refreshed.
RefreshPending ==
  wallet # None /\ ~disturbed => Current \/ \E f \in Flows : pc[f] \in Refreshing

SettledInv == PageInv /\ AloneInStep /\ RefreshPending

-----------------------------------------------------------------------------
(* The chain and the endpoint.                                              *)

\* What was behind the contract stays behind it: votes and time only grow.
LEMMA BehindStays ==
  ASSUME NEW cast, NEW more, cast \subseteq more, NEW now \in Nat, NEW then \in Nat, now <= then,
         NEW d, Behind(d, cast, now)
  PROVE  Behind(d, more, then)
BY DEF Behind

\* A snapshot is one of the answers, and not ahead of the contract it is read from,
\* though its time is that of an earlier block.
LEMMA SnapshotBehind ==
  ASSUME TypeOK, AnswersBehind, NEW w \in Wallets \cup {None}, NEW now \in 0 .. MaxTime, now <= time
  PROVE  /\ Snapshot(w, now) \in Data /\ Snapshot(w, now) # None /\ Snapshot(w, now).for = w
         /\ Behind(Snapshot(w, now), votes, time)
<1> DEFINE d == Snapshot(w, now)
<1>1. /\ d.for = w /\ d.status = [p \in Proposals |-> Status(p, now)]
      /\ d.voted = {p \in Proposals : w # None /\ HasVoted(w, p)}
  BY DEF Snapshot
<1>2. \A p \in Proposals : Status(p, now) \in Statuses
  BY DEF Status, Statuses
<1>3. d \in Data
  BY <1>1, <1>2 DEF Snapshot, Data
<1>4. \A p \in Proposals :
        /\ Status(p, now) # "upcoming" => Opens[p] <= time
        /\ Status(p, now) \in {"awaiting_finalization", "finalized"} => Closes[p] < time
  BY WindowAssumption DEF Status, AnswersBehind, TypeOK
<1>5. Behind(d, votes, time)
  BY <1>1, <1>4 DEF Behind, HasVoted
<1>6. QED
  BY <1>1, <1>3, <1>5

\* Blocks and finalizations change nothing but the chain, and only forwards.
LEMMA ChainStep ==
  ASSUME PageInv, NextBlock \/ \E p \in Proposals : Finalize(p)
  PROVE  PageInv'
<1> USE DEF PageInv
<1>1. /\ UNCHANGED <<votes, balance, allowed, page, flow, faults, history>>
      /\ time' \in 0 .. MaxTime /\ time <= time' /\ finalized' \subseteq Proposals
      /\ \A p \in finalized' : p \in finalized \/ Closes[p] < time'
  BY DEF NextBlock, Finalize, TypeOK
<1>2. TypeOK'
  BY <1>1 DEF TypeOK, page, flow, history, InFlight
<1>3. FlowsInStep'
  BY <1>1 DEF FlowsInStep, TypeOK, flow
<1>4. OneWorks' /\ VotesInStep'
  BY <1>1 DEF OneWorks, Working, InFlight, VotesInStep, flow, history
<1>5. AnswersBehind'
  <2>1. time \in Nat /\ time' \in Nat /\ votes' = votes
    BY <1>1 DEF TypeOK
  <2>2. \A d : Behind(d, votes, time) => Behind(d, votes', time')
    BY <1>1, <2>1, BehindStays
  <2>3. \A p \in finalized' : Closes[p] < time'
    BY <1>1, <2>1 DEF AnswersBehind, TypeOK
  <2>4. QED
    BY <1>1, <2>2, <2>3 DEF AnswersBehind, page, flow
<1>6. QED
  BY <1>2, <1>3, <1>4, <1>5

\* A transaction is executed or replaced: a vote that succeeds is cast.
LEMMA TransactionStep ==
  ASSUME PageInv, NEW f \in Flows, Mine(f) \/ Replace(f)
  PROVE  PageInv'
<1> USE DEF PageInv
<1>1. /\ UNCHANGED <<time, finalized, page, pc, kind, by, on, option, at, got, history>>
      /\ \E outcome \in {"success", "reverted", "replaced"} : tx' = [tx EXCEPT ![f] = outcome]
      /\ tx[f] = "pending" /\ votes \subseteq votes' /\ faults' \in Nat
  BY DEF Mine, Replace, chain, TypeOK
<1>2. /\ kind[f] \in {"approve", "vote"} /\ by[f] \in Wallets
      /\ kind[f] = "vote" => on[f] \in Proposals /\ option[f] \in Options
      /\ pc[f] # "idle" /\ pc[f] # "submit"
  BY <1>1 DEF FlowsInStep
<1>3. votes' \subseteq Vote /\ balance' \in [Wallets -> Nat] /\ allowed' \subseteq Wallets
  <2>1. CASE UNCHANGED <<votes, balance>> /\ allowed' \subseteq allowed \cup {by[f]}
    BY <1>2, <2>1 DEF TypeOK
  <2>2. CASE kind[f] = "vote" /\ Mine(f) /\ Accepts(by[f], on[f])
    <3>1. /\ votes' = votes \cup {[wallet |-> by[f], proposal |-> on[f], option |-> option[f]]}
          /\ balance' = [balance EXCEPT ![by[f]] = @ - 1] /\ allowed' = allowed \ {by[f]}
      BY <2>2 DEF Mine
    <3>2. balance[by[f]] \in Nat /\ balance[by[f]] > 0
      BY <1>2, <2>2 DEF Accepts, TypeOK
    <3>3. votes' \subseteq Vote
      BY <1>2, <2>2, <3>1 DEF Vote, TypeOK
    <3>4. QED
      BY <1>2, <3>1, <3>2, <3>3 DEF TypeOK
  <2>3. CASE Mine(f) /\ ~(kind[f] = "vote" /\ Accepts(by[f], on[f]))
    <3>1. UNCHANGED <<votes, balance>> /\ allowed' \subseteq allowed \cup {by[f]}
      BY <1>2, <2>3 DEF Mine
    <3>2. QED
      BY <2>1, <3>1
  <2>4. CASE Replace(f)
    BY <2>1, <2>4 DEF Replace, chain
  <2>5. QED
    BY <2>2, <2>3, <2>4
<1>4. TypeOK'
  <2>1. tx' \in [Flows -> {"none", "pending", "success", "reverted", "replaced"}]
    BY <1>1 DEF TypeOK
  <2>2. working' = (\E g \in Flows : kind'[g] \in {"approve", "vote"} /\ InFlight(g)')
    BY <1>1 DEF TypeOK, page, InFlight
  <2>3. QED
    BY <1>1, <1>3, <2>1, <2>2 DEF TypeOK, page, history
<1>5. FlowsInStep'
  BY <1>1, <1>2 DEF FlowsInStep, TypeOK
<1>6. OneWorks'
  BY <1>1 DEF OneWorks, Working, InFlight
<1>7. VotesInStep'
  <2>1. tx'[f] = "success" /\ kind[f] = "vote" =>
          [wallet |-> by[f], proposal |-> on[f], option |-> option[f]] \in votes'
    BY DEF Mine, Replace, TypeOK
  <2>2. \A g \in Flows \ {f} : tx'[g] = tx[g]
    BY <1>1 DEF TypeOK
  <2>3. QED
    BY <1>1, <2>1, <2>2 DEF VotesInStep, history
<1>8. AnswersBehind'
  <2>1. time \in Nat
    BY DEF TypeOK
  <2>2. \A d : Behind(d, votes, time) => Behind(d, votes', time)
    BY <1>1, <2>1, BehindStays
  <2>3. QED
    BY <1>1, <2>2 DEF AnswersBehind, page
<1>9. QED
  BY <1>4, <1>5, <1>6, <1>7, <1>8

\* The endpoint answers for the wallet it was asked about.
LEMMA EndpointStep ==
  ASSUME PageInv, NEW f \in Flows, ReadBlock(f) \/ ReadContract(f)
  PROVE  PageInv'
<1> USE DEF PageInv
<1>1. UNCHANGED <<chain, page, kind, by, on, option, tx, faults, history>>
  BY DEF ReadBlock, ReadContract
<1>2. CASE ReadBlock(f)
  <2>1. /\ pc[f] = "block" /\ pc' = [pc EXCEPT ![f] = "contract"]
        /\ at' = [at EXCEPT ![f] = time] /\ UNCHANGED got
    BY <1>2 DEF ReadBlock
  <2>2. \A g \in Flows : InFlight(g)' <=> InFlight(g)
    BY <2>1 DEF InFlight, TypeOK
  <2>3. TypeOK'
    BY <1>1, <2>1, <2>2 DEF TypeOK, chain, page, history
  <2>4. FlowsInStep'
    BY <1>1, <2>1 DEF FlowsInStep, TypeOK, chain
  <2>5. OneWorks' /\ VotesInStep' /\ AnswersBehind'
    BY <1>1, <2>1, <2>2 DEF OneWorks, Working, VotesInStep, AnswersBehind, chain, page, history
  <2>6. QED
    BY <2>3, <2>4, <2>5
<1>3. CASE ReadContract(f)
  <2> DEFINE d == Snapshot(by[f], at[f])
  <2>1. /\ pc[f] = "contract" /\ pc' = [pc EXCEPT ![f] = "deliver"]
        /\ got' = [got EXCEPT ![f] = d] /\ UNCHANGED at
    BY <1>3 DEF ReadContract
  <2>2. d \in Data /\ d # None /\ d.for = by[f] /\ Behind(d, votes, time)
    <3>1. by[f] \in Wallets \cup {None} /\ at[f] \in 0 .. MaxTime /\ at[f] <= time
      BY DEF FlowsInStep, TypeOK
    <3>2. QED
      BY <3>1, SnapshotBehind
  <2> HIDE DEF d
  <2>3. \A g \in Flows : InFlight(g)' <=> InFlight(g)
    BY <2>1 DEF InFlight, TypeOK
  <2>4. TypeOK'
    BY <1>1, <2>1, <2>2, <2>3 DEF TypeOK, chain, page, history
  <2>5. FlowsInStep'
    BY <1>1, <2>1, <2>2 DEF FlowsInStep, TypeOK, chain
  <2>6. OneWorks' /\ VotesInStep'
    BY <1>1, <2>1, <2>3 DEF OneWorks, Working, VotesInStep, chain, page, history
  <2>7. AnswersBehind'
    BY <1>1, <2>1, <2>2 DEF AnswersBehind, TypeOK, chain, page
  <2>8. QED
    BY <2>4, <2>5, <2>6, <2>7
<1>4. QED
  BY <1>2, <1>3

-----------------------------------------------------------------------------
(* The page.                                                                *)

\* A flow that starts has captured a wallet; an approval or vote is the only one.
LEMMA StartStep ==
  ASSUME PageInv, NEW f \in Flows,
         Connect(f) \/ \E p \in Proposals : ApproveFee(f, p) \/ CastVote(f, p)
  PROVE  PageInv'
<1> USE DEF PageInv
<1> DEFINE Begun(what, w, call) ==
        /\ Start(f, what, w, call)
        /\ what = "connect" <=> call = "block"
        /\ IF what = "connect" THEN working' = working ELSE ~working /\ working' = TRUE
        /\ what = "vote" => on'[f] \in Proposals /\ option'[f] \in Options
<1>1. PICK what \in {"connect", "approve", "vote"}, w \in Wallets, call \in {"block", "submit"} :
        Begun(what, w, call)
  <2>1. CASE Connect(f)
    <3>1. wallet' \in Wallets /\ Begun("connect", wallet', "block")
      BY <2>1 DEF Connect
    <3>2. QED
      BY <3>1
  <2>2. ASSUME NEW p \in Proposals, ApproveFee(f, p)
        PROVE  wallet \in Wallets /\ Begun("approve", wallet, "submit")
    BY <2>2 DEF ApproveFee, Ballot, TypeOK
  <2>3. ASSUME NEW p \in Proposals, CastVote(f, p)
        PROVE  wallet \in Wallets /\ Begun("vote", wallet, "submit")
    <3>1. wallet \in Wallets /\ Start(f, "vote", wallet, "submit") /\ ~working /\ working' = TRUE
      BY <2>3 DEF CastVote, Ballot, TypeOK
    <3>2. on'[f] \in Proposals /\ option'[f] \in Options
      BY <2>3 DEF CastVote, TypeOK
    <3>3. QED
      BY <3>1, <3>2
  <2> HIDE DEF Begun
  <2>4. QED
    BY <2>1, <2>2, <2>3
<1> USE DEF Begun
<1> DEFINE Rest ==
        /\ UNCHANGED <<chain, data, tx, at, got, faults, confirmed, disturbed>>
        /\ wallet' \in Wallets \cup {None}
        /\ on' \in [Flows -> Proposals \cup {None}] /\ option' \in [Flows -> Options \cup {None}]
        /\ \A g \in Flows \ {f} : on'[g] = on[g] /\ option'[g] = option[g]
<1>2. Rest
  <2>1. CASE Connect(f)
    BY <2>1 DEF Connect, TypeOK
  <2>2. ASSUME NEW p \in Proposals, ApproveFee(f, p) PROVE Rest
    BY <2>2 DEF ApproveFee, TypeOK
  <2>3. ASSUME NEW p \in Proposals, CastVote(f, p) PROVE Rest
    BY <2>3 DEF CastVote, TypeOK
  <2>4. QED
    BY <2>1, <2>2, <2>3
<1>3. /\ pc[f] = "idle" /\ pc' = [pc EXCEPT ![f] = call]
      /\ kind' = [kind EXCEPT ![f] = what] /\ by' = [by EXCEPT ![f] = w]
      /\ alone' \subseteq Flows
  BY <1>1 DEF Start
<1>4. \A g \in Flows \ {f} : /\ pc'[g] = pc[g] /\ kind'[g] = kind[g] /\ by'[g] = by[g]
                             /\ (Working(g)' <=> Working(g))
  BY <1>3 DEF Working, InFlight, TypeOK
<1>5. /\ pc'[f] = call /\ kind'[f] = what /\ by'[f] = w /\ tx[f] = "none"
      /\ ~Working(f) /\ (Working(f)' <=> what # "connect")
  BY <1>1, <1>3 DEF Working, InFlight, FlowsInStep, TypeOK
<1>6. working = \E g \in Flows : Working(g)
  BY DEF TypeOK, Working
<1>7. working' = \E g \in Flows : Working(g)'
  <2>1. CASE what = "connect"
    BY <1>1, <1>4, <1>5, <1>6, <2>1
  <2>2. CASE what # "connect"
    BY <1>1, <1>5, <2>2
  <2>3. QED
    BY <2>1, <2>2
<1>8. TypeOK'
  <2>1. working' = (\E g \in Flows : kind'[g] \in {"approve", "vote"} /\ InFlight(g)')
    BY <1>7 DEF Working
  <2>2. /\ pc' \in [Flows -> {"idle", "done"} \cup Busy]
        /\ kind' \in [Flows -> {"none", "load", "connect", "approve", "vote"}]
        /\ by' \in [Flows -> Wallets \cup {None}]
    BY <1>3 DEF TypeOK
  <2>3. QED
    BY <1>2, <1>3, <2>1, <2>2 DEF TypeOK, chain
<1>9. FlowsInStep'
  BY <1>1, <1>2, <1>4, <1>5 DEF FlowsInStep, chain
<1>10. OneWorks'
  BY <1>1, <1>4, <1>5, <1>6 DEF OneWorks
<1>11. VotesInStep'
  BY <1>2, <1>4, <1>5 DEF VotesInStep, chain
<1>12. AnswersBehind'
  BY <1>2 DEF AnswersBehind, chain
<1>13. QED
  BY <1>8, <1>9, <1>10, <1>11, <1>12

\* A flow that ends frees the buttons if it had taken them.
LEMMA FinishFrees ==
  ASSUME TypeOK, OneWorks, NEW f \in Flows, InFlight(f), Finish(f), UNCHANGED kind
  PROVE  /\ pc' = [pc EXCEPT ![f] = "done"]
         /\ \A g \in Flows : Working(g)' <=> Working(g) /\ g # f
         /\ working' = (\E g \in Flows : kind'[g] \in {"approve", "vote"} /\ InFlight(g)')
<1>1. pc' = [pc EXCEPT ![f] = "done"] /\ working' = (working /\ kind[f] \notin {"approve", "vote"})
  BY DEF Finish
<1>2. \A g \in Flows : Working(g)' <=> Working(g) /\ g # f
  BY <1>1 DEF Working, InFlight, TypeOK
<1>3. working = \E g \in Flows : Working(g)
  BY DEF TypeOK, Working
<1>4. working' = \E g \in Flows : Working(g)'
  <2>1. CASE kind[f] \in {"approve", "vote"}
    <3>1. Working(f)
      BY <2>1 DEF Working
    <3>2. \A g \in Flows : ~(Working(g)')
      BY <1>2, <3>1 DEF OneWorks
    <3>3. QED
      BY <1>1, <2>1, <3>2
  <2>2. CASE kind[f] \notin {"approve", "vote"}
    <3>1. ~Working(f)
      BY <2>2 DEF Working
    <3>2. QED
      BY <1>1, <1>2, <1>3, <2>2, <3>1
  <2>3. QED
    BY <2>1, <2>2
<1>5. QED
  BY <1>1, <1>2, <1>4 DEF Working

\* A flow that goes on reports a vote only on the receipt of its own transaction.
LEMMA FlowStep ==
  ASSUME PageInv, NEW f \in Flows, Submit(f) \/ Receipt(f) \/ Deliver(f) \/ FlowFails(f)
  PROVE  PageInv'
<1> USE DEF PageInv
<1> DEFINE ballot == [wallet |-> by[f], proposal |-> on[f], option |-> option[f]]
<1>1. UNCHANGED <<chain, wallet, kind, by, on, option, at, got, alone>> /\ InFlight(f)
  BY DEF Submit, Receipt, Deliver, FlowFails, page, history, InFlight
<1>2. CASE Submit(f)
  <2>1. /\ pc[f] = "submit" /\ tx' = [tx EXCEPT ![f] = "pending"]
        /\ pc' = [pc EXCEPT ![f] = "receipt"]
        /\ UNCHANGED <<data, working, confirmed, disturbed, faults>>
    BY <1>2 DEF Submit, page, history
  <2>2. \A g \in Flows : InFlight(g)' <=> InFlight(g)
    BY <2>1 DEF InFlight, TypeOK
  <2>3. TypeOK'
    BY <1>1, <2>1, <2>2 DEF TypeOK, chain
  <2>4. FlowsInStep'
    BY <1>1, <2>1 DEF FlowsInStep, TypeOK, chain
  <2>5. OneWorks' /\ VotesInStep' /\ AnswersBehind'
    BY <1>1, <2>1, <2>2 DEF OneWorks, Working, VotesInStep, AnswersBehind, TypeOK, chain
  <2>6. QED
    BY <2>3, <2>4, <2>5
<1>3. CASE Receipt(f) /\ ~Finish(f)
  <2>1. /\ pc[f] = "receipt" /\ pc' = [pc EXCEPT ![f] = "block"]
        /\ tx[f] = "success" \/ (tx[f] = "replaced" /\ kind[f] = "approve")
        /\ confirmed' = IF kind[f] = "approve" THEN confirmed ELSE confirmed \cup {ballot}
        /\ UNCHANGED <<data, working, tx, disturbed, faults>>
    <3>1. /\ pc[f] = "receipt" /\ UNCHANGED <<data, tx, disturbed, faults>>
      BY <1>3 DEF Receipt
    <3>2. tx[f] = "success" \/ (tx[f] = "replaced" /\ kind[f] = "approve")
      BY <1>3 DEF Receipt
    <3>3. QED
      BY <1>3, <3>1, <3>2 DEF Receipt
  <2>2. \A g \in Flows : InFlight(g)' <=> InFlight(g)
    BY <2>1 DEF InFlight, TypeOK
  <2>3. confirmed' \subseteq votes
    <3>1. kind[f] # "approve" => kind[f] = "vote" /\ tx[f] = "success"
      BY <2>1 DEF FlowsInStep
    <3>2. QED
      BY <2>1, <3>1 DEF VotesInStep
  <2>4. TypeOK'
    BY <1>1, <2>1, <2>2, <2>3 DEF TypeOK, chain
  <2>5. FlowsInStep'
    BY <1>1, <2>1 DEF FlowsInStep, TypeOK, chain
  <2>6. OneWorks' /\ VotesInStep' /\ AnswersBehind'
    BY <1>1, <2>1, <2>2, <2>3 DEF OneWorks, Working, VotesInStep, AnswersBehind, chain
  <2>7. QED
    BY <2>4, <2>5, <2>6
<1>4. CASE Finish(f) /\ ~Submit(f)
  <2>1. /\ UNCHANGED <<tx, confirmed>> /\ faults' \in Nat /\ disturbed' \in BOOLEAN
        /\ data' = data \/ (data' = got[f] /\ pc[f] = "deliver")
    <3>1. pc'[f] = "done"
      BY <1>4 DEF Finish, TypeOK
    <3>2. CASE Receipt(f)
      BY <3>1, <3>2 DEF Receipt, TypeOK
    <3>3. CASE Deliver(f)
      <4>1. disturbed' \in BOOLEAN
        BY <3>3 DEF Deliver
      <4>2. QED
        BY <3>3, <4>1 DEF Deliver, TypeOK
    <3>4. CASE FlowFails(f)
      <4>1. disturbed' \in BOOLEAN
        BY <3>4 DEF FlowFails
      <4>2. QED
        BY <3>4, <4>1 DEF FlowFails, TypeOK
    <3>5. QED
      BY <1>4, <3>2, <3>3, <3>4
  <2>2. /\ pc' = [pc EXCEPT ![f] = "done"]
        /\ \A g \in Flows : Working(g)' <=> Working(g) /\ g # f
        /\ working' = (\E g \in Flows : kind'[g] \in {"approve", "vote"} /\ InFlight(g)')
    BY <1>1, <1>4, FinishFrees
  <2>3. pc' \in [Flows -> {"idle", "done"} \cup Busy]
    BY <2>2 DEF TypeOK
  <2>4. data' \in Data \cup {None}
    BY <2>1 DEF TypeOK
  <2>5. TypeOK'
    BY <1>1, <2>1, <2>2, <2>3, <2>4 DEF TypeOK, chain
  <2>6. FlowsInStep'
    BY <1>1, <2>1, <2>2 DEF FlowsInStep, TypeOK, chain, InFlight
  <2>7. OneWorks' /\ VotesInStep'
    BY <1>1, <2>1, <2>2 DEF OneWorks, VotesInStep, chain
  <2>8. AnswersBehind'
    BY <1>1, <2>1 DEF AnswersBehind, chain
  <2>9. QED
    BY <2>5, <2>6, <2>7, <2>8
<1>5. QED
  <2>1. Deliver(f) \/ FlowFails(f) => Finish(f)
    BY DEF Deliver, FlowFails
  <2>2. Submit(f) \/ (Receipt(f) /\ ~Finish(f)) \/ (Finish(f) /\ ~Submit(f))
    BY <2>1
  <2> HIDE DEF PageInv
  <2>3. QED
    BY <1>2, <1>3, <1>4, <2>2

\* Every step keeps the page in step with the contract.
LEMMA PageStep ==
  ASSUME PageInv, [Next]_vars
  PROVE  PageInv'
<1>1. CASE UNCHANGED vars
  BY <1>1 DEF vars, chain, page, flow, history, PageInv, TypeOK, FlowsInStep, OneWorks, Working,
              VotesInStep, AnswersBehind, InFlight
<1>2. CASE Next
  BY <1>2, ChainStep, TransactionStep, EndpointStep, StartStep, FlowStep DEF Next, Step
<1>3. QED
  BY <1>1, <1>2

\* Every state that page and contract reach satisfies the invariant.
THEOREM PageInvariant == Spec => []PageInv
<1>1. Init => PageInv
  <2>1. Init => TypeOK
    <3> SUFFICES ASSUME Init PROVE TypeOK
      OBVIOUS
    <3>1. working = (\E f \in Flows : kind[f] \in {"approve", "vote"} /\ InFlight(f))
      BY DEF Init
    <3>2. /\ pc \in [Flows -> {"idle", "done"} \cup Busy]
          /\ kind \in [Flows -> {"none", "load", "connect", "approve", "vote"}]
          /\ time \in 0 .. MaxTime /\ at \in [Flows -> 0 .. MaxTime]
      BY DEF Init
    <3>3. QED
      BY <3>1, <3>2 DEF Init, TypeOK
  <2>2. Init => FlowsInStep /\ OneWorks /\ VotesInStep /\ AnswersBehind
    BY DEF Init, FlowsInStep, OneWorks, Working, InFlight, VotesInStep, AnswersBehind
  <2>3. QED
    BY <2>1, <2>2 DEF PageInv
<1>2. QED
  BY <1>1, PageStep, PTL DEF Spec

\* Every variable keeps its type.
THEOREM GovernanceTypeCorrect == Spec => []TypeOK
BY PageInvariant, PTL DEF PageInv

\* A vote is reported as confirmed only when the contract has counted it.
THEOREM ConfirmedVotesAreCast == Spec => []ConfirmedVoteWasCast
<1>1. PageInv => ConfirmedVoteWasCast
  BY DEF PageInv, VotesInStep, ConfirmedVoteWasCast
<1>2. QED
  BY <1>1, PageInvariant, PTL

\* The page is never ahead of the contract, though block and contract are read apart.
THEOREM PageNeverAhead == Spec => []NeverAheadOfContract
<1>1. PageInv => NeverAheadOfContract
  BY DEF PageInv, AnswersBehind, Behind, NeverAheadOfContract, HasVoted
<1>2. QED
  BY <1>1, PageInvariant, PTL

-----------------------------------------------------------------------------
(* The page once its flows have ended.                                      *)

\* While a flow runs that has had the page to itself, nothing else starts or ends.
LEMMA AloneStep ==
  ASSUME PageInv, AloneInStep, [Next]_vars
  PROVE  AloneInStep'
<1> USE DEF PageInv
<1>1. CASE UNCHANGED <<wallet, by, alone, pc, got, confirmed>>
  BY <1>1 DEF AloneInStep, InFlight
<1>2. ASSUME NEW f \in Flows, Connect(f) \/ \E p \in Proposals : ApproveFee(f, p) \/ CastVote(f, p)
      PROVE  AloneInStep'
  <2>1. \E what, call : Start(f, what, wallet', call) /\ call \in {"block", "submit"}
    BY <1>2 DEF Connect, ApproveFee, CastVote
  <2>2. /\ alone' = (IF \E g \in Flows : InFlight(g) THEN {} ELSE {f})
        /\ by'[f] = wallet' /\ pc'[f] \in {"block", "submit"}
        /\ \A g \in Flows \ {f} : pc'[g] = pc[g]
    BY <2>1 DEF Start, TypeOK
  <2>3. QED
    BY <2>2 DEF AloneInStep, InFlight
<1>3. ASSUME NEW f \in Flows,
             Submit(f) \/ Receipt(f) \/ ReadBlock(f) \/ Deliver(f) \/ FlowFails(f)
      PROVE  AloneInStep'
  <2>1. UNCHANGED <<wallet, by, alone, got>> /\ InFlight(f)
    BY <1>3 DEF Submit, Receipt, ReadBlock, Deliver, FlowFails, page, history, InFlight
  <2>2. /\ \A g \in Flows \ {f} : pc'[g] = pc[g]
        /\ pc'[f] # "deliver"
        /\ confirmed' = confirmed \/ pc'[f] = "block"
    BY <1>3 DEF Submit, Receipt, ReadBlock, Deliver, FlowFails, Finish, page, history, TypeOK
  <2>3. QED
    BY <2>1, <2>2 DEF AloneInStep, InFlight, TypeOK
<1>4. ASSUME NEW f \in Flows, ReadContract(f)
      PROVE  AloneInStep'
  <2>1. /\ UNCHANGED <<wallet, by, alone, confirmed>>
        /\ pc[f] = "contract" /\ pc'[f] = "deliver"
        /\ \A g \in Flows \ {f} : pc'[g] = pc[g] /\ got'[g] = got[g]
        /\ got'[f].voted = {p \in Proposals : by[f] # None /\ HasVoted(by[f], p)}
    BY <1>4 DEF ReadContract, page, history, Snapshot, TypeOK
  <2>2. \A v \in confirmed : v.wallet = by[f] => v.proposal \in got'[f].voted
    <3>1. \A v \in confirmed : v \in votes /\ v.wallet # None /\ v.proposal \in Proposals
      BY DEF VotesInStep, TypeOK, Vote
    <3>2. QED
      BY <2>1, <3>1 DEF HasVoted
  <2>3. InFlight(f)
    BY <2>1 DEF InFlight
  <2>4. QED
    BY <2>1, <2>2, <2>3 DEF AloneInStep, InFlight, TypeOK
<1>5. QED
  BY <1>1, <1>2, <1>3, <1>4
  DEF Next, Step, NextBlock, Finalize, Mine, Replace, vars, page, flow, history

\* A refresh that had the page to itself makes it current; any other is remembered.
LEMMA RefreshStep ==
  ASSUME PageInv, AloneInStep, RefreshPending, [Next]_vars
  PROVE  RefreshPending'
<1> USE DEF PageInv
<1>1. CASE UNCHANGED <<wallet, disturbed, data, confirmed, pc>>
  BY <1>1 DEF RefreshPending, Current
<1>2. ASSUME NEW f \in Flows, Connect(f)
      PROVE  RefreshPending'
  <2>1. pc'[f] = "block"
    BY <1>2 DEF Connect, Start, TypeOK
  <2>2. QED
    BY <2>1 DEF RefreshPending
<1>3. ASSUME NEW f \in Flows,
             (\E p \in Proposals : ApproveFee(f, p) \/ CastVote(f, p)) \/ Submit(f)
             \/ ReadBlock(f) \/ ReadContract(f)
      PROVE  RefreshPending'
  <2>1. UNCHANGED <<wallet, disturbed, data, confirmed>>
    BY <1>3 DEF ApproveFee, CastVote, Submit, ReadBlock, ReadContract, page, history
  <2>2. /\ \A g \in Flows \ {f} : pc'[g] = pc[g]
        /\ pc[f] \in Refreshing => pc'[f] \in Refreshing
    BY <1>3 DEF ApproveFee, CastVote, Start, Submit, ReadBlock, ReadContract, TypeOK
  <2>3. QED
    BY <2>1, <2>2 DEF RefreshPending, Current
<1>4. ASSUME NEW f \in Flows, Receipt(f)
      PROVE  RefreshPending'
  <2>1. /\ UNCHANGED <<wallet, disturbed, data>> /\ pc[f] = "receipt"
        /\ \A g \in Flows \ {f} : pc'[g] = pc[g]
        /\ pc'[f] = "block" \/ confirmed' = confirmed
    BY <1>4 DEF Receipt, Finish, TypeOK
  <2>2. QED
    BY <2>1 DEF RefreshPending, Current
<1>5. ASSUME NEW f \in Flows, Deliver(f), ~disturbed', wallet' # None
      PROVE  Current'
  <2>1. /\ f \in alone /\ pc[f] = "deliver" /\ data' = got[f]
        /\ UNCHANGED <<wallet, confirmed>>
    BY <1>5 DEF Deliver
  <2>2. got[f] # None /\ got[f].for = wallet
    BY <2>1 DEF FlowsInStep, AloneInStep
  <2>3. QED
    BY <2>1, <2>2 DEF AloneInStep, Current
<1>6. ASSUME NEW f \in Flows, FlowFails(f), ~disturbed'
      PROVE  RefreshPending'
  <2>1. ~disturbed /\ pc[f] = "submit"
    BY <1>6 DEF FlowFails
  <2>2. UNCHANGED <<wallet, data, confirmed>> /\ \A g \in Flows \ {f} : pc'[g] = pc[g]
    BY <1>6 DEF FlowFails, Finish, TypeOK
  <2>3. QED
    BY <2>1, <2>2 DEF RefreshPending, Current
<1>7. QED
  BY <1>1, <1>2, <1>3, <1>4, <1>5, <1>6
  DEF RefreshPending, Next, Step, NextBlock, Finalize, Mine, Replace, vars, page, flow, history

\* Every state that page and contract reach satisfies the whole invariant.
THEOREM SettledInvariant == Spec => []SettledInv
<1>1. Init => AloneInStep /\ RefreshPending
  BY DEF Init, AloneInStep, InFlight, RefreshPending
<1>2. SettledInv /\ [Next]_vars => SettledInv'
  BY PageStep, AloneStep, RefreshStep DEF SettledInv
<1>3. Init /\ PageInv => SettledInv
  BY <1>1 DEF SettledInv
<1>4. QED
  BY <1>2, <1>3, PageInvariant, PTL DEF Spec

\* A settled page shows the wallet's ballots, with every vote it called confirmed.
THEOREM SettledPagesAreCurrent == Spec => []SettledPageIsCurrent
<1>1. SettledInv => SettledPageIsCurrent
  BY DEF SettledInv, RefreshPending, Current, SettledPageIsCurrent, InFlight
<1>2. QED
  BY <1>1, SettledInvariant, PTL
=============================================================================

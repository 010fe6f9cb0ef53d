--------------------------- MODULE GovernancePage ---------------------------
(***************************************************************************)
(* The governance page (app/governance/page.tsx) and the endpoint it       *)
(* reads (GET /governance), against the governance contract.               *)
(*                                                                         *)
(* The page runs asynchronous flows: its first load, connecting a wallet,  *)
(* approving the fee, voting.  Each ends in a refresh; a refresh asks the  *)
(* endpoint, which reads the latest block and then the contract.  A flow   *)
(* keeps the wallet it started with, while the page's wallet may change,   *)
(* and refreshes of several flows end in any order.  The contract is       *)
(* authoritative; the page presents it.                                    *)
(***************************************************************************)
EXTENDS Integers

CONSTANTS
  Wallets, Proposals, Options, None,
  Flows,       \* interactions of the user with the page
  Load,        \* the flow that loads the page
  Opens, Closes,  \* startTime and endTime of a proposal
  Funds,       \* the fees a wallet can pay at first
  MaxTime,     \* bound on block time
  MaxFaults    \* bound on failed steps and replaced transactions

Statuses == {"upcoming", "voting", "awaiting_finalization", "finalized"}
Vote == [wallet : Wallets, proposal : Proposals, option : Options]
Data ==
  [for : Wallets \cup {None}, status : [Proposals -> Statuses],
   voted : SUBSET Proposals, funded : BOOLEAN, approved : BOOLEAN]

ASSUME GovernanceAssumption ==
  /\ Load \in Flows
  /\ Opens \in [Proposals -> Nat] /\ Closes \in [Proposals -> Nat]
  /\ Funds \in [Wallets -> Nat]
  /\ MaxTime \in Nat /\ MaxFaults \in Nat
\* The contract's windows, which the page and the endpoint take as they are, end no
\* earlier than they begin.
ASSUME WindowAssumption == \A p \in Proposals : Opens[p] <= Closes[p]
ASSUME NoneAssumption ==
  None \notin Wallets /\ None \notin Proposals /\ None \notin Options /\ None \notin Data

VARIABLES
  time, finalized, votes, balance, allowed,  \* the chain; allowed: exact fee approved
  wallet, data, working,                     \* state of the page
  pc, kind, by, on, option, tx,              \* flows: what was captured, the transaction
  at, got,                                   \* refreshes: block time, answer
  faults,
  confirmed,   \* votes the page has reported as confirmed (history)
  alone,       \* flows that had the page to themselves (history)
  disturbed    \* the last refresh failed or was not alone (history)

chain == <<time, finalized, votes, balance, allowed>>
page == <<wallet, data, working>>
flow == <<pc, kind, by, on, option, tx, at, got>>
history == <<confirmed, alone, disturbed>>
vars == <<chain, page, flow, faults, history>>

Refreshing == {"block", "contract", "deliver"}
Busy == {"submit", "receipt"} \cup Refreshing
InFlight(f) == pc[f] \in Busy

TypeOK ==
  /\ time \in 0 .. MaxTime /\ finalized \subseteq Proposals
  /\ votes \subseteq Vote
  /\ balance \in [Wallets -> Nat] /\ allowed \subseteq Wallets
  /\ wallet \in Wallets \cup {None} /\ data \in Data \cup {None}
  /\ working = (\E f \in Flows : kind[f] \in {"approve", "vote"} /\ InFlight(f))
  /\ pc \in [Flows -> {"idle", "done"} \cup Busy]
  /\ kind \in [Flows -> {"none", "load", "connect", "approve", "vote"}]
  /\ by \in [Flows -> Wallets \cup {None}]
  /\ on \in [Flows -> Proposals \cup {None}]
  /\ option \in [Flows -> Options \cup {None}]
  /\ tx \in [Flows -> {"none", "pending", "success", "reverted", "replaced"}]
  /\ at \in [Flows -> 0 .. MaxTime]
  /\ got \in [Flows -> Data \cup {None}]
  /\ faults \in Nat
  /\ confirmed \subseteq Vote /\ alone \subseteq Flows /\ disturbed \in BOOLEAN

Init ==
  /\ time = 0 /\ finalized = {} /\ votes = {}
  /\ balance = Funds /\ allowed = {}
  /\ wallet = None /\ data = None /\ working = FALSE
  /\ pc = [f \in Flows |-> IF f = Load THEN "block" ELSE "idle"]
  /\ kind = [f \in Flows |-> IF f = Load THEN "load" ELSE "none"]
  /\ by = [f \in Flows |-> None]
  /\ on = [f \in Flows |-> None]
  /\ option = [f \in Flows |-> None]
  /\ tx = [f \in Flows |-> "none"]
  /\ at = [f \in Flows |-> 0]
  /\ got = [f \in Flows |-> None]
  /\ faults = 0
  /\ confirmed = {} /\ alone = {Load} /\ disturbed = FALSE

-----------------------------------------------------------------------------
(* The chain.                                                               *)

HasVoted(w, p) == \E v \in votes : v.wallet = w /\ v.proposal = p

\* What the contract demands of a vote.
Accepts(w, p) ==
  /\ Opens[p] <= time /\ time <= Closes[p]
  /\ p \notin finalized /\ ~HasVoted(w, p)
  /\ w \in allowed /\ balance[w] > 0

NextBlock ==
  /\ time < MaxTime
  /\ time' = time + 1
  /\ UNCHANGED <<finalized, votes, balance, allowed, page, flow, faults, history>>

Finalize(p) ==
  /\ time > Closes[p]
  /\ finalized' = finalized \cup {p}
  /\ UNCHANGED <<time, votes, balance, allowed, page, flow, faults, history>>

\* A submitted transaction is executed as it is sent.
Mine(f) ==
  LET w == by[f] IN
  /\ tx[f] = "pending"
  /\ IF kind[f] = "approve"
       THEN /\ allowed' = allowed \cup {w}
            /\ tx' = [tx EXCEPT ![f] = "success"]
            /\ UNCHANGED <<votes, balance>>
       ELSE IF Accepts(w, on[f])
         THEN /\ votes' = votes \cup {[wallet |-> w, proposal |-> on[f], option |-> option[f]]}
              /\ balance' = [balance EXCEPT ![w] = @ - 1]
              /\ allowed' = allowed \ {w}
              /\ tx' = [tx EXCEPT ![f] = "success"]
         ELSE /\ tx' = [tx EXCEPT ![f] = "reverted"]
              /\ UNCHANGED <<votes, balance, allowed>>
  /\ UNCHANGED <<time, finalized, page, pc, kind, by, on, option, at, got, faults, history>>

\* The user replaces or cancels it in the wallet; the replacement succeeds.
Replace(f) ==
  /\ faults < MaxFaults /\ faults' = faults + 1
  /\ tx[f] = "pending"
  /\ tx' = [tx EXCEPT ![f] = "replaced"]
  /\ UNCHANGED <<chain, page, pc, kind, by, on, option, at, got, history>>

-----------------------------------------------------------------------------
(* The endpoint.                                                            *)

MutantStatusClosesEarly(p, now) ==
  CASE p \in finalized -> "finalized"
    [] p \notin finalized /\ now < Opens[p] -> "upcoming"
    [] p \notin finalized /\ Opens[p] <= now /\ now < Closes[p] -> "voting"
    [] OTHER -> "awaiting_finalization"

\* The status of a proposal: finalization as read now, the window by the
\* timestamp of the block that was read before.
Status(p, now) ==
  CASE p \in finalized -> "finalized"
    [] p \notin finalized /\ now < Opens[p] -> "upcoming"
    [] p \notin finalized /\ Opens[p] <= now /\ now <= Closes[p] -> "voting"
    [] OTHER -> "awaiting_finalization"

Snapshot(w, now) ==
  [for |-> w,
   status |-> [p \in Proposals |-> Status(p, now)],
   voted |-> {p \in Proposals : w # None /\ HasVoted(w, p)},
   funded |-> w # None /\ balance[w] > 0,
   approved |-> w \in allowed]

ReadBlock(f) ==
  /\ pc[f] = "block"
  /\ at' = [at EXCEPT ![f] = time]
  /\ pc' = [pc EXCEPT ![f] = "contract"]
  /\ UNCHANGED <<chain, page, kind, by, on, option, tx, got, faults, history>>

ReadContract(f) ==
  /\ pc[f] = "contract"
  /\ got' = [got EXCEPT ![f] = Snapshot(by[f], at[f])]
  /\ pc' = [pc EXCEPT ![f] = "deliver"]
  /\ UNCHANGED <<chain, page, kind, by, on, option, tx, at, faults, history>>

-----------------------------------------------------------------------------
(* The page.                                                                *)

\* A flow starts with the wallet it captures.
Start(f, what, w, call) ==
  /\ pc[f] = "idle"
  /\ kind' = [kind EXCEPT ![f] = what]
  /\ by' = [by EXCEPT ![f] = w]
  /\ pc' = [pc EXCEPT ![f] = call]
  /\ alone' = IF \E g \in Flows : InFlight(g) THEN {} ELSE {f}

\* refreshGovernance() in place of refreshGovernance(normalized)
MutantConnectRefreshesOld(f) ==
  /\ ~InFlight(Load)
  /\ wallet' \in Wallets
  /\ Start(f, "connect", wallet, "block")
  /\ UNCHANGED <<chain, data, working, on, option, tx, at, got, faults, confirmed, disturbed>>

\* The button is off until the page has loaded, but not while a flow runs.
Connect(f) ==
  /\ ~InFlight(Load)
  /\ wallet' \in Wallets
  /\ Start(f, "connect", wallet', "block")
  /\ UNCHANGED <<chain, data, working, on, option, tx, at, got, faults, confirmed, disturbed>>

Ballot(p) ==
  /\ ~working
  /\ wallet # None /\ data # None
  /\ data.status[p] = "voting" /\ p \notin data.voted /\ data.funded

ApproveFee(f, p) ==
  /\ Ballot(p) /\ ~data.approved
  /\ working' = TRUE
  /\ Start(f, "approve", wallet, "submit")
  /\ UNCHANGED <<chain, wallet, data, on, option, tx, at, got, faults, confirmed, disturbed>>

CastVote(f, p) ==
  /\ Ballot(p) /\ data.approved
  /\ working' = TRUE
  /\ Start(f, "vote", wallet, "submit")
  /\ on' = [on EXCEPT ![f] = p]
  /\ option' \in {[option EXCEPT ![f] = o] : o \in Options}
  /\ UNCHANGED <<chain, wallet, data, tx, at, got, faults, confirmed, disturbed>>

\* The wallet is on Celo Sepolia, or switches to it, and the user signs.
Submit(f) ==
  /\ pc[f] = "submit"
  /\ tx' = [tx EXCEPT ![f] = "pending"]
  /\ pc' = [pc EXCEPT ![f] = "receipt"]
  /\ UNCHANGED <<chain, page, kind, by, on, option, at, got, faults, history>>

\* The end of a flow: finally { setWorking(false) }.
MutantFinishConnectFreesButtons(f) ==
  /\ pc' = [pc EXCEPT ![f] = "done"]
  /\ working' = FALSE

Finish(f) ==
  /\ pc' = [pc EXCEPT ![f] = "done"]
  /\ working' = (working /\ kind[f] \notin {"approve", "vote"})

MutantReceiptTrusted(f) ==
  /\ pc[f] = "receipt"
  /\ tx[f] \in {"success", "reverted", "replaced"}
  /\ IF tx[f] # "reverted"
       THEN /\ pc' = [pc EXCEPT ![f] = "block"]
            /\ confirmed' = IF kind[f] = "approve" THEN confirmed
                 ELSE confirmed \cup {[wallet |-> by[f], proposal |-> on[f], option |-> option[f]]}
            /\ UNCHANGED working
       ELSE Finish(f) /\ UNCHANGED confirmed
  /\ UNCHANGED <<chain, wallet, data, kind, by, on, option, tx, at, got, faults, alone, disturbed>>

\* A vote needs a receipt with its own VoteCast event; an approval, any receipt
\* of success.
Receipt(f) ==
  /\ pc[f] = "receipt"
  /\ tx[f] \in {"success", "reverted", "replaced"}
  /\ IF tx[f] = "success" \/ (tx[f] = "replaced" /\ kind[f] = "approve")
       THEN /\ pc' = [pc EXCEPT ![f] = "block"]
            /\ confirmed' = IF kind[f] = "approve" THEN confirmed
                 ELSE confirmed \cup {[wallet |-> by[f], proposal |-> on[f], option |-> option[f]]}
            /\ UNCHANGED working
       ELSE Finish(f) /\ UNCHANGED confirmed
  /\ UNCHANGED <<chain, wallet, data, kind, by, on, option, tx, at, got, faults, alone, disturbed>>

Deliver(f) ==
  /\ pc[f] = "deliver"
  /\ data' = got[f]
  /\ Finish(f)
  /\ disturbed' = (f \notin alone)
  /\ UNCHANGED <<chain, wallet, kind, by, on, option, tx, at, got, faults, confirmed, alone>>

\* The user refuses, the wallet fails, the receipt does not come in time, or the
\* endpoint fails: it refuses a node without the official deployment.
FlowFails(f) ==
  /\ faults < MaxFaults /\ faults' = faults + 1
  /\ InFlight(f)
  /\ Finish(f)
  /\ disturbed' = (disturbed \/ pc[f] # "submit")
  /\ UNCHANGED <<chain, wallet, data, kind, by, on, option, tx, at, got, confirmed, alone>>

-----------------------------------------------------------------------------

Step(f) ==
  \/ Connect(f) \/ \E p \in Proposals : ApproveFee(f, p) \/ CastVote(f, p)
  \/ Submit(f) \/ Receipt(f)
  \/ ReadBlock(f) \/ ReadContract(f) \/ Deliver(f)
  \/ FlowFails(f)

Next ==
  \/ NextBlock
  \/ \E p \in Proposals : Finalize(p)
  \/ \E f \in Flows : Mine(f) \/ Replace(f) \/ Step(f)

Spec == Init /\ [][Next]_vars

-----------------------------------------------------------------------------
(* Properties.                                                              *)

\* The page reports a vote as confirmed only if the contract has counted it, for
\* the wallet, the proposal and the option the user chose, even when the wallet's
\* transaction was replaced or the page has moved on to another wallet.
ConfirmedVoteWasCast == confirmed \subseteq votes

\* The page is never ahead of the contract: it says that voting is over, or has
\* begun, or that a wallet has voted, only when that is so, though the block and
\* the contract are read at different times.
NeverAheadOfContract ==
  data # None =>
    /\ \A p \in data.voted : HasVoted(data.for, p)
    /\ \A p \in Proposals :
         /\ data.status[p] # "upcoming" => Opens[p] <= time
         /\ data.status[p] \in {"awaiting_finalization", "finalized"} => Closes[p] < time

\* Once all flows have ended, the page shows the ballots of the connected wallet,
\* with every vote it reported as confirmed, unless the last refresh failed or
\* overlapped another flow.
SettledPageIsCurrent ==
  (wallet # None /\ ~disturbed /\ \A f \in Flows : ~InFlight(f)) =>
    /\ data # None /\ data.for = wallet
    /\ \A v \in confirmed : v.wallet = wallet => v.proposal \in data.voted
=============================================================================

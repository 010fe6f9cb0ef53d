---------------------------- MODULE Contributions ---------------------------
(***************************************************************************)
(* Reforestation contributions: POST /reforestation/contributions, which   *)
(* confirms a transaction, and the reads that list contributions (GET      *)
(* /reforestation/contributions of a wallet, the contributions of a        *)
(* project in GET /reforestation/projects).                                *)
(*                                                                         *)
(* The backend writes nothing here.  A confirmation asks a Celo node three *)
(* times (chain, receipt, head) and the database three times (project,     *)
(* transaction, contribution); a list asks the database twice.  Meanwhile  *)
(* blocks are added and reorganised, the indexer fills its tables and      *)
(* administrators publish projects: each answer is of another moment.      *)
(***************************************************************************)
EXTENDS Integers

CONSTANTS
  Wallets, Projects,
  Txs,            \* contribution transactions made on Celo Sepolia
  MakerOf, TargetOf,  \* the wallet and the project of each
  Confirms,       \* POST requests
  Lists,          \* GET requests
  None,
  Confirmations,  \* CELO_CONFIRMATIONS
  MaxHead,        \* bound on the height of the chain
  MaxUpsets       \* bound on reorganisations, withdrawals and failed calls

Heights == 0 .. MaxHead
Receipt == [ok : BOOLEAN, block : Heights]
Body == [wallet : Wallets, project : Projects, tx : Txs]
Scope == [wallet : Wallets] \cup [project : Projects]

ASSUME ContributionsAssumption ==
  /\ MakerOf \in [Txs -> Wallets]
  /\ TargetOf \in [Txs -> Projects]
  /\ Confirmations \in Nat /\ MaxHead \in Nat /\ MaxUpsets \in Nat
  /\ Confirms \cap Lists = {}
ASSUME NoneAssumption == None \notin Receipt /\ None \notin Body /\ None \notin Scope

VARIABLES
  served,         \* the chain that CELO_RPC_URL serves
  head, receipts, \* Celo Sepolia: its height, the receipt of each transaction
  published,      \* projects with status published
  indexed,        \* blockchain_transactions: those with confirmed = true
  contributions,  \* reforestation_contributions: the transaction of each row
  pc, body, found, reply,   \* POST: call, request, receipt, answer
  step, scope, rows, listed, \* GET: call, filter, rows of the first query, answer
  upsets,
  settled,        \* transactions that have been deep enough (history)
  shaken,         \* requests whose receipt and head lie on two sides of a
                  \* reorganisation (history)
  before          \* requests answered before this one began (history)

chainVars == <<served, head, receipts>>
tables == <<published, indexed, contributions>>
confirmVars == <<pc, body, found, reply>>
listVars == <<step, scope, rows, listed>>
history == <<settled, shaken, before>>
vars == <<chainVars, tables, confirmVars, listVars, upsets, history>>

Chains == {"sepolia", "other"}
RpcCalls == {"chain", "receipt", "head"}
DbCalls == {"project", "indexed", "contribution"}
Waiting == {"waiting_for_indexer", "waiting_for_contribution_event"}
Reply ==
  {"none", "not_found", "validation_error", "conflict", "pending_confirmation",
   "confirmed", "service_unavailable", "internal_error"} \cup Waiting

TypeOK ==
  /\ served \in Chains /\ head \in Heights
  /\ receipts \in [Txs -> Receipt \cup {None}]
  /\ published \subseteq Projects
  /\ indexed \subseteq Txs /\ contributions \subseteq Txs
  /\ pc \in [Confirms -> {"idle", "done"} \cup RpcCalls \cup DbCalls]
  /\ body \in [Confirms -> Body \cup {None}]
  /\ \A r \in Confirms : pc[r] = "idle" <=> body[r] = None
  /\ found \in [Confirms -> Receipt \cup {None}]
  /\ \A r \in Confirms : pc[r] = "head" => found[r] # None
  /\ reply \in [Confirms -> Reply]
  /\ step \in [Lists -> {"idle", "rows", "confirmed", "done", "failed"}]
  /\ scope \in [Lists -> Scope \cup {None}]
  /\ rows \in [Lists -> SUBSET Txs] /\ listed \in [Lists -> SUBSET Txs]
  /\ upsets \in Nat
  /\ settled \subseteq Txs /\ shaken \subseteq Confirms
  /\ before \in [Confirms \cup Lists -> SUBSET Confirms]

Init ==
  /\ served \in Chains /\ head = 0
  /\ receipts = [t \in Txs |-> None]
  /\ published = {} /\ indexed = {} /\ contributions = {}
  /\ pc = [r \in Confirms |-> "idle"]
  /\ body = [r \in Confirms |-> None]
  /\ found = [r \in Confirms |-> None]
  /\ reply = [r \in Confirms |-> "none"]
  /\ step = [q \in Lists |-> "idle"]
  /\ scope = [q \in Lists |-> None]
  /\ rows = [q \in Lists |-> {}]
  /\ listed = [q \in Lists |-> {}]
  /\ upsets = 0
  /\ settled = {} /\ shaken = {}
  /\ before = [x \in Confirms \cup Lists |-> {}]

-----------------------------------------------------------------------------
(* The world around the backend.                                            *)

Upset == upsets < MaxUpsets /\ upsets' = upsets + 1

Settled(rs, h) ==
  {t \in Txs : rs[t] # None /\ rs[t].ok /\ h - rs[t].block + 1 >= Confirmations}

\* A block, with at most one of our transactions in it.
AddBlock ==
  /\ head < MaxHead
  /\ head' = head + 1
  /\ \/ UNCHANGED receipts
     \/ \E t \in Txs, ok \in BOOLEAN :
          /\ receipts[t] = None
          /\ receipts' = [receipts EXCEPT ![t] = [ok |-> ok, block |-> head + 1]]
  /\ settled' = settled \cup Settled(receipts', head')
  /\ UNCHANGED <<served, tables, confirmVars, listVars, upsets, shaken, before>>

\* The chain goes back to a lower block; what was above it is not in the chain.
Reorganise ==
  /\ Upset
  /\ \E h \in Heights :
       /\ h < head
       /\ head' = h
       /\ receipts' = [t \in Txs |->
            IF receipts[t] # None /\ receipts[t].block > h THEN None ELSE receipts[t]]
  /\ shaken' = shaken \cup {r \in Confirms : pc[r] = "head"}
  /\ UNCHANGED <<served, tables, confirmVars, listVars, settled, before>>

\* The indexer, with a node of its own, records the event and the depth, in
\* either order.
IndexEvent(t) ==
  /\ receipts[t] # None /\ receipts[t].ok
  /\ contributions' = contributions \cup {t}
  /\ UNCHANGED <<chainVars, published, indexed, confirmVars, listVars, upsets, history>>

IndexConfirmed(t) ==
  /\ t \in Settled(receipts, head)
  /\ indexed' = indexed \cup {t}
  /\ UNCHANGED <<chainVars, published, contributions, confirmVars, listVars, upsets, history>>

IndexRollback(t) ==
  /\ receipts[t] = None
  /\ indexed' = indexed \ {t} /\ contributions' = contributions \ {t}
  /\ UNCHANGED <<chainVars, published, confirmVars, listVars, upsets, history>>

Publish(p) ==
  /\ published' = published \cup {p}
  /\ UNCHANGED <<chainVars, indexed, contributions, confirmVars, listVars, upsets, history>>

Withdraw(p) ==
  /\ Upset
  /\ p \in published
  /\ published' = published \ {p}
  /\ UNCHANGED <<chainVars, indexed, contributions, confirmVars, listVars, history>>

-----------------------------------------------------------------------------
(* POST /reforestation/contributions.                                       *)

Answer(r, code) ==
  /\ pc' = [pc EXCEPT ![r] = "done"]
  /\ reply' = [reply EXCEPT ![r] = code]

Goto(r, call) == pc' = [pc EXCEPT ![r] = call] /\ UNCHANGED reply

Around == <<chainVars, tables, body, listVars, upsets, history>>

Answered == {r \in Confirms : pc[r] = "done"}

Confirm(r) ==
  /\ pc[r] = "idle"
  /\ body' \in {[body EXCEPT ![r] = b] : b \in Body}
  /\ Goto(r, "project")
  /\ before' = [before EXCEPT ![r] = Answered]
  /\ UNCHANGED <<chainVars, tables, found, listVars, upsets, settled, shaken>>

SelectProject(r) ==
  /\ pc[r] = "project"
  /\ IF body[r].project \in published THEN Goto(r, "chain") ELSE Answer(r, "not_found")
  /\ UNCHANGED <<Around, found>>

CheckChain(r) ==
  /\ pc[r] = "chain"
  /\ IF served = "sepolia" THEN Goto(r, "receipt") ELSE Answer(r, "validation_error")
  /\ UNCHANGED <<Around, found>>

MutantReadReceiptUnchecked(r) ==
  LET receipt == receipts[body[r].tx] IN
  /\ pc[r] = "receipt"
  /\ found' = [found EXCEPT ![r] = receipt]
  /\ IF receipt # None /\ ~receipt.ok THEN Answer(r, "conflict") ELSE Goto(r, "head")
  /\ UNCHANGED Around

ReadReceipt(r) ==
  LET receipt == receipts[body[r].tx] IN
  /\ pc[r] = "receipt"
  /\ IF receipt = None
       THEN Answer(r, "pending_confirmation") /\ UNCHANGED found
       ELSE /\ found' = [found EXCEPT ![r] = receipt]
            /\ IF receipt.ok THEN Goto(r, "head") ELSE Answer(r, "conflict")
  /\ UNCHANGED Around

MutantEnoughByOneLess(block) == head - block + 2 >= Confirmations
MutantEnoughExactly(block) == head - block + 1 = Confirmations
Enough(block) == head - block + 1 >= Confirmations

ReadHead(r) ==
  /\ pc[r] = "head"
  /\ IF Enough(found[r].block) THEN Goto(r, "indexed") ELSE Answer(r, "pending_confirmation")
  /\ UNCHANGED <<Around, found>>

FindIndexed(r) ==
  /\ pc[r] = "indexed"
  /\ IF body[r].tx \in indexed
       THEN Goto(r, "contribution") ELSE Answer(r, "waiting_for_indexer")
  /\ UNCHANGED <<Around, found>>

\* select .. where project_id, blockchain_transaction_id and wallet match
Matches(b) ==
  b.tx \in contributions /\ TargetOf[b.tx] = b.project /\ MakerOf[b.tx] = b.wallet

FindContribution(r) ==
  /\ pc[r] = "contribution"
  /\ Answer(r, IF Matches(body[r]) THEN "confirmed" ELSE "waiting_for_contribution_event")
  /\ UNCHANGED <<Around, found>>

\* A call fails or times out; a receipt that is for another transaction or has
\* no block counts as none.
ConfirmFails(r) ==
  /\ Upset
  /\ \/ pc[r] \in RpcCalls /\ Answer(r, "service_unavailable")
     \/ pc[r] \in DbCalls /\ Answer(r, "internal_error")
     \/ pc[r] = "receipt" /\ Answer(r, "pending_confirmation")
  /\ UNCHANGED <<chainVars, tables, body, found, listVars, history>>

-----------------------------------------------------------------------------
(* The lists.                                                               *)

InScope(t, s) ==
  IF s \in [wallet : Wallets] THEN MakerOf[t] = s.wallet ELSE TargetOf[t] = s.project

List(q) ==
  /\ step[q] = "idle"
  /\ step' = [step EXCEPT ![q] = "rows"]
  /\ scope' \in {[scope EXCEPT ![q] = s] : s \in Scope}
  /\ before' = [before EXCEPT ![q] = Answered]
  /\ UNCHANGED <<chainVars, tables, confirmVars, rows, listed, upsets, settled, shaken>>

ReadRows(q) ==
  LET mine == {t \in contributions : InScope(t, scope[q])} IN
  /\ step[q] = "rows"
  /\ rows' = [rows EXCEPT ![q] = mine]
  /\ step' = [step EXCEPT ![q] = IF mine = {} THEN "done" ELSE "confirmed"]
  /\ UNCHANGED <<chainVars, tables, confirmVars, scope, listed, upsets, history>>

MutantReadConfirmedNotJoined(q) ==
  /\ step[q] = "confirmed"
  /\ listed' = [listed EXCEPT ![q] = rows[q]]
  /\ step' = [step EXCEPT ![q] = "done"]
  /\ UNCHANGED <<chainVars, tables, confirmVars, scope, rows, upsets, history>>

ReadConfirmed(q) ==
  /\ step[q] = "confirmed"
  /\ listed' = [listed EXCEPT ![q] = rows[q] \cap indexed]
  /\ step' = [step EXCEPT ![q] = "done"]
  /\ UNCHANGED <<chainVars, tables, confirmVars, scope, rows, upsets, history>>

ListFails(q) ==
  /\ Upset
  /\ step[q] \in {"rows", "confirmed"}
  /\ step' = [step EXCEPT ![q] = "failed"]
  /\ UNCHANGED <<chainVars, tables, confirmVars, scope, rows, listed, history>>

-----------------------------------------------------------------------------

Confirmation(r) ==
  \/ Confirm(r) \/ SelectProject(r)
  \/ CheckChain(r) \/ ReadReceipt(r) \/ ReadHead(r)
  \/ FindIndexed(r) \/ FindContribution(r)
  \/ ConfirmFails(r)

Listing(q) == List(q) \/ ReadRows(q) \/ ReadConfirmed(q) \/ ListFails(q)

World ==
  \/ AddBlock \/ Reorganise
  \/ \E t \in Txs : IndexEvent(t) \/ IndexConfirmed(t) \/ IndexRollback(t)
  \/ \E p \in Projects : Publish(p) \/ Withdraw(p)

Next ==
  \/ World
  \/ \E r \in Confirms : Confirmation(r)
  \/ \E q \in Lists : Listing(q)

Spec == Init /\ [][Next]_vars

-----------------------------------------------------------------------------
(* Properties.                                                              *)

\* A confirmed contribution is the actor's own, to the project it names, and its
\* transaction has been as deep as configured, however the chain and the tables
\* moved between the six calls.
ConfirmedIsOwn ==
  \A r \in Confirms : reply[r] = "confirmed" =>
    LET t == body[r].tx IN
    /\ MakerOf[t] = body[r].wallet /\ TargetOf[t] = body[r].project
    /\ t \in settled

\* An answer that calls a transaction confirmed, even one that still waits for
\* the indexer, is about a transaction that has been deep enough, unless the
\* chain was reorganised between the receipt and the head of that very request.
DepthUnlessReorganised ==
  \A r \in Confirms : reply[r] \in Waiting \cup {"confirmed"} =>
    body[r].tx \in settled \/ r \in shaken

\* What a client is told of a contribution is so: whose it is, and how deep.
AnswersAreSound == ConfirmedIsOwn /\ DepthUnlessReorganised

\* A client that asks again is never told less than before, as long as nothing
\* was reorganised or withdrawn and no call failed.
Rank(code) ==
  CASE code = "not_found" -> 0
    [] code = "pending_confirmation" -> 1
    [] code \in {"conflict", "waiting_for_indexer"} -> 2
    [] code = "waiting_for_contribution_event" -> 3
    [] OTHER -> 4
StatusNeverRegresses ==
  upsets = 0 =>
    \A r \in Confirms : pc[r] = "done" =>
      \A s \in before[r] : body[s] = body[r] => Rank(reply[s]) <= Rank(reply[r])

\* A list holds settled contributions of its wallet or project only,
\* and, if nothing was undone, every one confirmed to anyone before it began.
ListsAgree ==
  \A q \in Lists : step[q] = "done" =>
    /\ \A t \in listed[q] :
         InScope(t, scope[q]) /\ t \in settled
    /\ upsets = 0 =>
         \A r \in before[q] : reply[r] = "confirmed" /\ InScope(body[r].tx, scope[q]) =>
           body[r].tx \in listed[q]
=============================================================================

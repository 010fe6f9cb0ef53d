------------------------- MODULE ContributionsProofs ------------------------
(***************************************************************************)
(* Theorems about Contributions, for every set of wallets, projects,       *)
(* transactions and requests, every depth of confirmation and every number *)
(* of blocks and upsets.                                                   *)
(***************************************************************************)
EXTENDS Contributions, TLAPS

USE NoneAssumption, ContributionsAssumption
USE DEF RpcCalls, DbCalls, Waiting, Reply

-----------------------------------------------------------------------------
(* The inductive invariant behind the properties.                           *)

\* A transaction lies in a block of the chain; what is deep enough, or was indexed as
\* such, has been deep enough.
ChainInStep ==
  /\ \A t \in Txs : receipts[t] # None => receipts[t].block <= head
  /\ Settled(receipts, head) \subseteq settled
  /\ indexed \subseteq settled

\* What a confirmation has seen when it makes its next call, and says when it is done.
ConfirmsInStep ==
  \A r \in Confirms :
    /\ pc[r] = "head" => found[r].ok /\ (r \in shaken \/ receipts[body[r].tx] = found[r])
    /\ pc[r] \in {"indexed", "contribution"} => body[r].tx \in settled \/ r \in shaken
    /\ pc[r] = "contribution" => body[r].tx \in settled
    /\ pc[r] = "done" <=> reply[r] # "none"

\* What a list has read is in its scope, what it answers is settled.
ListsInStep ==
  \A q \in Lists :
    /\ step[q] \in {"idle", "rows"} => rows[q] = {} /\ listed[q] = {}
    /\ \A t \in rows[q] \cup listed[q] : InScope(t, scope[q])
    /\ listed[q] \subseteq settled

SoundInv == TypeOK /\ ChainInStep /\ ConfirmsInStep /\ ListsInStep /\ AnswersAreSound

\* As long as nothing was undone, what a confirmation has seen and said is still so.
StillSo(r) ==
  LET t == body[r].tx IN
  /\ pc[r] \in {"chain", "receipt", "head", "indexed", "contribution"}
     \/ (pc[r] = "done" /\ reply[r] # "not_found") => body[r].project \in published
  /\ pc[r] \in {"receipt", "head", "indexed", "contribution"}
     \/ reply[r] \in {"pending_confirmation", "conflict", "confirmed"} \cup Waiting =>
       served = "sepolia"
  /\ reply[r] = "validation_error" => served # "sepolia"
  /\ reply[r] = "conflict" => receipts[t] # None /\ ~receipts[t].ok
  /\ pc[r] \in {"indexed", "contribution"} \/ reply[r] \in {"confirmed"} \cup Waiting =>
       t \in Settled(receipts, head)
  /\ pc[r] = "contribution" \/ reply[r] \in {"waiting_for_contribution_event", "confirmed"} =>
       t \in indexed
  /\ reply[r] = "confirmed" => Matches(body[r])
  /\ reply[r] \notin {"service_unavailable", "internal_error"}

\* What was confirmed to somebody before a list began is among the rows it has read.
ReadsConfirmed(q) ==
  step[q] = "confirmed" =>
    \A r \in before[q] :
      reply[r] = "confirmed" /\ InScope(body[r].tx, scope[q]) => body[r].tx \in rows[q]

QuietInv ==
  upsets = 0 =>
    /\ indexed \cup contributions \subseteq {t \in Txs : receipts[t] # None /\ receipts[t].ok}
    /\ shaken = {}
    /\ \A r \in Confirms : StillSo(r)
    /\ \A q \in Lists : ReadsConfirmed(q)

BeforeAnswered == \A x \in Confirms \cup Lists : before[x] \subseteq Answered

AskAgainInv == SoundInv /\ QuietInv /\ BeforeAnswered /\ StatusNeverRegresses /\ ListsAgree

-----------------------------------------------------------------------------
(* Types.                                                                   *)

\* A confirmation that goes on or is answered: the others keep call and answer.
LEMMA ConfirmationMoves ==
  ASSUME TypeOK, NEW r \in Confirms, Confirmation(r)
  PROVE  /\ pc' \in [Confirms -> {"idle", "done"} \cup RpcCalls \cup DbCalls]
         /\ reply' \in [Confirms -> Reply]
         /\ \A q \in Confirms : q # r => pc'[q] = pc[q] /\ reply'[q] = reply[q]
         /\ pc[r] # "done" /\ pc'[r] # "idle"
         /\ \/ pc'[r] = "done" /\ reply'[r] # "none"
            \/ pc'[r] # "done" /\ reply'[r] = reply[r]
<1>1. pc[r] # "done"
  BY DEF Confirmation, Confirm, SelectProject, CheckChain, ReadReceipt, ReadHead, FindIndexed,
         FindContribution, ConfirmFails
<1>2. \/ \E call \in RpcCalls \cup DbCalls : Goto(r, call)
      \/ \E code \in Reply \ {"none"} : Answer(r, code)
  BY DEF Confirmation, Confirm, SelectProject, CheckChain, ReadReceipt, ReadHead, FindIndexed,
         FindContribution, ConfirmFails
<1>3. QED
  BY <1>1, <1>2 DEF TypeOK, Goto, Answer

\* Every step keeps the types.
LEMMA TypeStep ==
  ASSUME TypeOK, [Next]_vars
  PROVE  TypeOK'
<1>1. CASE UNCHANGED vars
  BY <1>1 DEF vars, chainVars, tables, confirmVars, listVars, history, TypeOK
<1>2. CASE AddBlock
  <2>1. head' \in Heights /\ head' = head + 1
    BY <1>2 DEF AddBlock, TypeOK, Heights
  <2>2. receipts' \in [Txs -> Receipt \cup {None}]
    BY <1>2, <2>1 DEF AddBlock, TypeOK, Receipt
  <2>3. settled' \subseteq Txs
    BY <1>2 DEF AddBlock, TypeOK, Settled
  <2>4. QED
    BY <1>2, <2>1, <2>2, <2>3 DEF AddBlock, tables, confirmVars, listVars, TypeOK
<1>3. CASE Reorganise
  <2>1. receipts' \in [Txs -> Receipt \cup {None}] /\ head' \in Heights /\ upsets' \in Nat
    BY <1>3 DEF Reorganise, Upset, TypeOK
  <2>2. QED
    BY <1>3, <2>1 DEF Reorganise, tables, confirmVars, listVars, TypeOK
<1>4. ASSUME NEW t \in Txs, IndexEvent(t) \/ IndexConfirmed(t) \/ IndexRollback(t) PROVE TypeOK'
  BY <1>4 DEF IndexEvent, IndexConfirmed, IndexRollback, chainVars, confirmVars, listVars, history,
              TypeOK
<1>5. ASSUME NEW p \in Projects, Publish(p) \/ Withdraw(p) PROVE TypeOK'
  BY <1>5 DEF Publish, Withdraw, Upset, chainVars, confirmVars, listVars, history, TypeOK
<1>6. ASSUME NEW r \in Confirms, Confirmation(r) PROVE TypeOK'
  <2>1. /\ pc' \in [Confirms -> {"idle", "done"} \cup RpcCalls \cup DbCalls]
        /\ reply' \in [Confirms -> Reply]
        /\ \A q \in Confirms : q # r => pc'[q] = pc[q]
        /\ pc'[r] # "idle"
    BY <1>6, ConfirmationMoves
  <2>2. CASE Confirm(r)
    <3>1. PICK b \in Body : body' = [body EXCEPT ![r] = b]
      BY <2>2 DEF Confirm
    <3>2. pc'[r] = "project"
      BY <2>2 DEF Confirm, Goto, TypeOK
    <3>3. before' \in [Confirms \cup Lists -> SUBSET Confirms]
      BY <2>2 DEF Confirm, TypeOK, Answered
    <3>4. QED
      BY <2>1, <2>2, <3>1, <3>2, <3>3 DEF Confirm, chainVars, tables, listVars, TypeOK
  <2>3. CASE ReadReceipt(r)
    <3>1. body[r] # None /\ body[r].tx \in Txs
      BY <2>3 DEF ReadReceipt, TypeOK, Body
    <3>2. found' \in [Confirms -> Receipt \cup {None}]
      BY <2>3, <3>1 DEF ReadReceipt, TypeOK
    <3>3. \A q \in Confirms : pc'[q] = "head" => found'[q] # None
      BY <2>1, <2>3 DEF ReadReceipt, TypeOK, Goto, Answer
    <3>4. pc[r] # "idle" /\ UNCHANGED body
      BY <2>3 DEF ReadReceipt, Around
    <3>5. QED
      BY <2>1, <2>3, <3>2, <3>3, <3>4 DEF ReadReceipt, Around, chainVars, tables, listVars, history,
         TypeOK
  <2>4. CASE SelectProject(r) \/ CheckChain(r) \/ ReadHead(r) \/ FindIndexed(r)
             \/ FindContribution(r) \/ ConfirmFails(r)
    <3>1. pc'[r] # "head" /\ pc[r] # "idle"
      BY <2>4 DEF SelectProject, CheckChain, ReadHead, FindIndexed, FindContribution,
                  ConfirmFails, Goto, Answer, TypeOK
    <3>2. UNCHANGED <<chainVars, tables, body, found, listVars, history>> /\ upsets' \in Nat
      BY <2>4 DEF SelectProject, CheckChain, ReadHead, FindIndexed, FindContribution,
                  ConfirmFails, Around, Upset, TypeOK
    <3>3. QED
      BY <2>1, <3>1, <3>2 DEF chainVars, tables, listVars, history, TypeOK
  <2>5. QED
    BY <1>6, <2>2, <2>3, <2>4 DEF Confirmation
<1>7. ASSUME NEW q \in Lists, Listing(q) PROVE TypeOK'
  <2>1. CASE List(q)
    BY <2>1 DEF List, Answered, chainVars, tables, confirmVars, TypeOK
  <2>2. CASE ReadRows(q)
    <3>1. {t \in contributions : InScope(t, scope[q])} \subseteq Txs
      BY DEF TypeOK
    <3>2. rows' \in [Lists -> SUBSET Txs]
      BY <2>2, <3>1 DEF ReadRows, TypeOK
    <3>3. step' \in [Lists -> {"idle", "rows", "confirmed", "done", "failed"}]
      BY <2>2 DEF ReadRows, TypeOK
    <3>4. QED
      BY <2>2, <3>2, <3>3 DEF ReadRows, chainVars, tables, confirmVars, history, TypeOK
  <2>3. CASE ReadConfirmed(q) \/ ListFails(q)
    BY <2>3 DEF ReadConfirmed, ListFails, Upset, chainVars, tables, confirmVars, history, TypeOK
  <2>4. QED
    BY <1>7, <2>1, <2>2, <2>3 DEF Listing
<1>8. QED
  BY <1>1, <1>2, <1>3, <1>4, <1>5, <1>6, <1>7 DEF Next, World

\* Every variable keeps its type.
THEOREM ContributionsTypeCorrect == Spec => []TypeOK
<1>1. Init => TypeOK
  BY DEF Init, TypeOK, Heights
<1>2. QED
  BY <1>1, TypeStep, PTL DEF Spec

-----------------------------------------------------------------------------
(* Soundness of the answers, whatever is undone.                            *)

\* A new block settles what it makes deep enough.
LEMMA AddBlockSound ==
  ASSUME SoundInv, AddBlock, TypeOK'
  PROVE  SoundInv'
<1> USE DEF SoundInv
<1>1. /\ head' = head + 1 /\ settled' = settled \cup Settled(receipts', head')
      /\ UNCHANGED <<served, tables, confirmVars, listVars, upsets, shaken, before>>
      /\ \A t \in Txs : receipts[t] # None => receipts'[t] = receipts[t]
      /\ \A t \in Txs : receipts'[t] # None =>
           receipts'[t] = receipts[t] \/ receipts'[t].block = head + 1
  BY DEF AddBlock, TypeOK
<1>2. ChainInStep'
  BY <1>1 DEF ChainInStep, TypeOK, tables, Heights, Receipt
<1>3. ConfirmsInStep'
  <2>1. \A r \in Confirms : pc[r] = "head" => found[r] # None /\ body[r].tx \in Txs
    BY DEF TypeOK, Body
  <2>2. QED
    BY <1>1, <2>1 DEF ConfirmsInStep, confirmVars
<1>4. ListsInStep'
  BY <1>1 DEF ListsInStep, listVars, InScope
<1>5. AnswersAreSound'
  BY <1>1 DEF AnswersAreSound, ConfirmedIsOwn, DepthUnlessReorganised, confirmVars
<1>6. QED
  BY <1>2, <1>3, <1>4, <1>5

\* A reorganisation makes nothing deeper, and is remembered of the requests it hits.
LEMMA ReorganiseSound ==
  ASSUME SoundInv, Reorganise, TypeOK'
  PROVE  SoundInv'
<1> USE DEF SoundInv
<1>1. /\ head' < head /\ shaken' = shaken \cup {r \in Confirms : pc[r] = "head"}
      /\ UNCHANGED <<served, tables, confirmVars, listVars, settled, before>>
      /\ \A t \in Txs : receipts'[t] # None =>
           receipts'[t] = receipts[t] /\ receipts[t].block <= head'
  <2>1. PICK h \in Heights :
          /\ h < head /\ head' = h
          /\ receipts' = [t \in Txs |->
               IF receipts[t] # None /\ receipts[t].block > h THEN None ELSE receipts[t]]
    BY DEF Reorganise
  <2>2. \A t \in Txs : receipts[t] # None => receipts[t].block \in Heights
    BY DEF TypeOK, Receipt
  <2>3. QED
    BY <2>1, <2>2 DEF Reorganise, Heights
<1>2. Settled(receipts', head') \subseteq Settled(receipts, head)
  BY <1>1 DEF Settled, TypeOK, Heights, Receipt
<1>3. ChainInStep'
  BY <1>1, <1>2 DEF ChainInStep, tables
<1>4. ConfirmsInStep'
  BY <1>1 DEF ConfirmsInStep, confirmVars
<1>5. ListsInStep'
  BY <1>1 DEF ListsInStep, listVars, InScope
<1>6. AnswersAreSound'
  BY <1>1 DEF AnswersAreSound, ConfirmedIsOwn, DepthUnlessReorganised, confirmVars
<1>7. QED
  BY <1>3, <1>4, <1>5, <1>6

\* The indexer confirms what is deep enough; the administrators change nothing here.
LEMMA TablesSound ==
  ASSUME SoundInv, TypeOK',
         \/ \E t \in Txs : IndexEvent(t) \/ IndexConfirmed(t) \/ IndexRollback(t)
         \/ \E p \in Projects : Publish(p) \/ Withdraw(p)
  PROVE  SoundInv'
<1> USE DEF SoundInv
<1>1. UNCHANGED <<chainVars, confirmVars, listVars, history>>
      /\ indexed' \subseteq indexed \cup Settled(receipts, head)
  BY DEF IndexEvent, IndexConfirmed, IndexRollback, Publish, Withdraw, tables
<1>2. ChainInStep'
  BY <1>1 DEF ChainInStep, chainVars, history, Settled
<1>3. ConfirmsInStep' /\ ListsInStep' /\ AnswersAreSound'
  BY <1>1 DEF ConfirmsInStep, ListsInStep, AnswersAreSound, ConfirmedIsOwn,
              DepthUnlessReorganised, chainVars, confirmVars, listVars, history, InScope
<1>4. QED
  BY <1>2, <1>3

\* A confirmation passes the head only with a receipt deep enough, the table of
\* transactions only with one recorded as such, and is confirmed only as its own.
LEMMA ConfirmationSound ==
  ASSUME SoundInv, TypeOK', NEW r \in Confirms, Confirmation(r)
  PROVE  SoundInv'
<1> USE DEF SoundInv
<1>1. /\ \A q \in Confirms : q # r => pc'[q] = pc[q] /\ reply'[q] = reply[q]
      /\ pc[r] # "done"
      /\ \/ pc'[r] = "done" /\ reply'[r] # "none"
         \/ pc'[r] # "done" /\ reply'[r] = reply[r]
  BY ConfirmationMoves
<1>2. UNCHANGED <<chainVars, tables, listVars, settled, shaken>>
  BY DEF Confirmation, Confirm, SelectProject, CheckChain, ReadReceipt, ReadHead, FindIndexed,
         FindContribution, ConfirmFails, Around, history
<1>3. ChainInStep' /\ ListsInStep'
  BY <1>2 DEF ChainInStep, ListsInStep, chainVars, tables, listVars, InScope
<1>4. \A q \in Confirms : q # r => body'[q] = body[q] /\ found'[q] = found[q]
  BY DEF Confirmation, Confirm, SelectProject, CheckChain, ReadReceipt, ReadHead, FindIndexed,
         FindContribution, ConfirmFails, Around, TypeOK
<1>5. reply[r] = "none"
  BY <1>1 DEF ConfirmsInStep
<1> DEFINE InStep == /\ pc'[r] = "head" => found'[r].ok /\ receipts[body'[r].tx] = found'[r]
                     /\ pc'[r] \in {"indexed", "contribution"} =>
                          body'[r].tx \in settled \/ r \in shaken
                     /\ pc'[r] = "contribution" => body'[r].tx \in settled
                     /\ reply'[r] \in Waiting \cup {"confirmed"} =>
                          body'[r].tx \in settled \/ r \in shaken
                     /\ reply'[r] = "confirmed" =>
                          /\ MakerOf[body'[r].tx] = body'[r].wallet
                          /\ TargetOf[body'[r].tx] = body'[r].project
                          /\ body'[r].tx \in settled
<1>6. CASE Confirm(r)
  <2>1. pc'[r] = "project" /\ reply'[r] = "none"
    BY <1>5, <1>6 DEF Confirm, Goto, TypeOK
  <2>2. InStep
    BY <2>1
  <2> HIDE DEF InStep
  <2>3. QED
    BY <1>1, <1>2, <1>3, <1>4, <2>2
    DEF InStep, ConfirmsInStep, AnswersAreSound, ConfirmedIsOwn, DepthUnlessReorganised, chainVars
<1>7. CASE ~Confirm(r)
  <2>1. UNCHANGED body /\ body[r] \in Body /\ body[r].tx \in Txs
    <3>1. UNCHANGED body /\ pc[r] # "idle"
      BY <1>7 DEF Confirmation, SelectProject, CheckChain, ReadReceipt, ReadHead, FindIndexed,
                  FindContribution, ConfirmFails, Around
    <3>2. QED
      BY <3>1 DEF TypeOK, Body
  <2>2. CASE SelectProject(r) \/ CheckChain(r) \/ ConfirmFails(r)
    <3>1. pc'[r] \in {"chain", "receipt", "done"}
          /\ reply'[r] \in {"none", "not_found", "validation_error", "service_unavailable",
                            "internal_error", "pending_confirmation"}
      BY <1>5, <2>2 DEF SelectProject, CheckChain, ConfirmFails, Goto, Answer, TypeOK
    <3>2. InStep
      BY <3>1
    <3> HIDE DEF InStep
    <3>3. QED
      BY <1>1, <1>2, <1>3, <1>4, <3>2
      DEF InStep, ConfirmsInStep, AnswersAreSound, ConfirmedIsOwn, DepthUnlessReorganised,
          chainVars
  <2>3. CASE ReadReceipt(r)
    <3>1. InStep
      BY <1>5, <2>1, <2>3 DEF ReadReceipt, Goto, Answer, TypeOK
    <3> HIDE DEF InStep
    <3>2. QED
      BY <1>1, <1>2, <1>3, <1>4, <3>1
      DEF InStep, ConfirmsInStep, AnswersAreSound, ConfirmedIsOwn, DepthUnlessReorganised,
          chainVars
  <2>4. CASE ReadHead(r)
    <3>1. CASE Enough(found[r].block)
      <4>1. r \in shaken \/ body[r].tx \in Settled(receipts, head)
        BY <2>1, <2>4, <3>1 DEF ReadHead, Enough, Settled, ConfirmsInStep, TypeOK
      <4>2. pc'[r] = "indexed" /\ reply'[r] = "none"
        BY <1>5, <2>4, <3>1 DEF ReadHead, Goto, TypeOK
      <4>3. InStep
        BY <2>1, <4>1, <4>2 DEF ChainInStep
      <4> HIDE DEF InStep
      <4>4. QED
        BY <1>1, <1>2, <1>3, <1>4, <4>3
        DEF InStep, ConfirmsInStep, AnswersAreSound, ConfirmedIsOwn, DepthUnlessReorganised,
            chainVars
    <3>2. CASE ~Enough(found[r].block)
      <4>1. InStep
        BY <2>1, <2>4, <3>2 DEF ReadHead, Answer, TypeOK
      <4> HIDE DEF InStep
      <4>2. QED
        BY <1>1, <1>2, <1>3, <1>4, <4>1
        DEF InStep, ConfirmsInStep, AnswersAreSound, ConfirmedIsOwn, DepthUnlessReorganised,
            chainVars
    <3>3. QED
      BY <3>1, <3>2
  <2>5. CASE FindIndexed(r)
    <3>1. InStep
      BY <1>5, <2>1, <2>5 DEF FindIndexed, Goto, Answer, TypeOK, ConfirmsInStep, ChainInStep
    <3> HIDE DEF InStep
    <3>2. QED
      BY <1>1, <1>2, <1>3, <1>4, <3>1
      DEF InStep, ConfirmsInStep, AnswersAreSound, ConfirmedIsOwn, DepthUnlessReorganised,
          chainVars
  <2>6. CASE FindContribution(r)
    <3>1. InStep
      BY <1>5, <2>1, <2>6 DEF FindContribution, Matches, Answer, TypeOK, ConfirmsInStep
    <3> HIDE DEF InStep
    <3>2. QED
      BY <1>1, <1>2, <1>3, <1>4, <3>1
      DEF InStep, ConfirmsInStep, AnswersAreSound, ConfirmedIsOwn, DepthUnlessReorganised,
          chainVars
  <2>7. QED
    BY <1>7, <2>2, <2>3, <2>4, <2>5, <2>6 DEF Confirmation
<1>8. QED
  BY <1>6, <1>7

\* A list keeps to its scope, and answers what was indexed.
LEMMA ListingSound ==
  ASSUME SoundInv, TypeOK', NEW q \in Lists, Listing(q)
  PROVE  SoundInv'
<1> USE DEF SoundInv
<1>1. UNCHANGED <<chainVars, tables, confirmVars, settled, shaken>>
      /\ \A p \in Lists : p # q => /\ step'[p] = step[p] /\ scope'[p] = scope[p]
                                   /\ rows'[p] = rows[p] /\ listed'[p] = listed[p]
  BY DEF Listing, List, ReadRows, ReadConfirmed, ListFails, history, TypeOK
<1>2. ChainInStep' /\ ConfirmsInStep' /\ AnswersAreSound'
  BY <1>1 DEF ChainInStep, ConfirmsInStep, AnswersAreSound, ConfirmedIsOwn,
              DepthUnlessReorganised, chainVars, tables, confirmVars, Settled
<1>3. /\ step'[q] \in {"idle", "rows"} => rows'[q] = {} /\ listed'[q] = {}
      /\ \A t \in rows'[q] \cup listed'[q] : InScope(t, scope'[q])
      /\ listed'[q] \subseteq settled
  <2>1. CASE List(q)
    BY <2>1 DEF List, ListsInStep, TypeOK
  <2>2. CASE ReadRows(q)
    BY <2>2 DEF ReadRows, ListsInStep, TypeOK
  <2>3. CASE ReadConfirmed(q)
    BY <2>3 DEF ReadConfirmed, ListsInStep, ChainInStep, TypeOK
  <2>4. CASE ListFails(q)
    BY <2>4 DEF ListFails, ListsInStep, TypeOK
  <2>5. QED
    BY <2>1, <2>2, <2>3, <2>4 DEF Listing
<1>4. ListsInStep'
  BY <1>1, <1>3 DEF ListsInStep, InScope
<1>5. QED
  BY <1>2, <1>4

\* Every step keeps the answers sound.
LEMMA SoundStep ==
  ASSUME SoundInv, [Next]_vars
  PROVE  SoundInv'
<1>1. TypeOK'
  BY TypeStep DEF SoundInv
<1>2. CASE UNCHANGED vars
  BY <1>2 DEF vars, chainVars, tables, confirmVars, listVars, history, SoundInv, TypeOK,
              ChainInStep, ConfirmsInStep, ListsInStep, AnswersAreSound, ConfirmedIsOwn,
              DepthUnlessReorganised, Settled, InScope
<1>3. QED
  BY <1>1, <1>2, AddBlockSound, ReorganiseSound, TablesSound, ConfirmationSound, ListingSound
  DEF Next, World

\* Every state the server and the chain reach satisfies the invariant.
THEOREM SoundInvariant == Spec => []SoundInv
<1>1. Init => SoundInv
  BY DEF Init, SoundInv, TypeOK, Heights, ChainInStep, ConfirmsInStep,
     ListsInStep, AnswersAreSound, ConfirmedIsOwn, DepthUnlessReorganised, Settled
<1>2. QED
  BY <1>1, SoundStep, PTL DEF Spec

\* What a client is told of a contribution is so: whose it is, and how deep.
THEOREM ToldWhatIsSo == Spec => []AnswersAreSound
BY SoundInvariant, PTL DEF SoundInv

-----------------------------------------------------------------------------
(* Asking again, as long as nothing is undone.                              *)

\* An answered confirmation does not change any more.
LEMMA DoneStays ==
  ASSUME TypeOK, [Next]_vars, NEW s \in Confirms, pc[s] = "done"
  PROVE  pc'[s] = "done" /\ reply'[s] = reply[s] /\ body'[s] = body[s] /\ before'[s] = before[s]
<1>1. CASE UNCHANGED <<confirmVars, before>>
  BY <1>1 DEF confirmVars
<1>2. ASSUME NEW r \in Confirms, Confirmation(r)
      PROVE  pc'[s] = "done" /\ reply'[s] = reply[s] /\ body'[s] = body[s] /\ before'[s] = before[s]
  <2>1. s # r /\ pc'[s] = pc[s] /\ reply'[s] = reply[s]
    BY <1>2, ConfirmationMoves
  <2>2. body'[s] = body[s] /\ before'[s] = before[s]
    BY <1>2, <2>1 DEF Confirmation, Confirm, SelectProject, CheckChain, ReadReceipt, ReadHead,
       FindIndexed, FindContribution, ConfirmFails, Around, history, TypeOK
  <2>3. QED
    BY <2>1, <2>2
<1>3. ASSUME NEW q \in Lists, Listing(q)
      PROVE  UNCHANGED confirmVars /\ before'[s] = before[s]
  BY <1>3 DEF Listing, List, ReadRows, ReadConfirmed, ListFails, history, TypeOK
<1>4. QED
  BY <1>1, <1>2, <1>3
  DEF Next, World, AddBlock, Reorganise, IndexEvent, IndexConfirmed, IndexRollback, Publish,
      Withdraw, vars, history, confirmVars

\* Who was answered before a request began stays answered.
LEMMA BeforeStep ==
  ASSUME TypeOK, BeforeAnswered, [Next]_vars
  PROVE  BeforeAnswered'
<1>1. Answered \subseteq Answered'
  BY DoneStays DEF Answered
<1>2. UNCHANGED before \/ \E x \in Confirms \cup Lists : before' = [before EXCEPT ![x] = Answered]
  BY DEF Next, World, AddBlock, Reorganise, IndexEvent, IndexConfirmed, IndexRollback, Publish,
         Withdraw, Confirmation, Confirm, SelectProject, CheckChain, ReadReceipt, ReadHead,
         FindIndexed, FindContribution, ConfirmFails, Listing, List, ReadRows, ReadConfirmed,
         ListFails, Around, vars, history
<1>3. QED
  BY <1>1, <1>2 DEF BeforeAnswered, TypeOK

\* Nothing that could be undone is: the chain and the tables only grow.
Grows ==
  /\ UNCHANGED served
  /\ published \subseteq published' /\ indexed \subseteq indexed'
  /\ contributions \subseteq contributions'
  /\ \A t \in Txs : receipts[t] # None => receipts'[t] = receipts[t]
  /\ Settled(receipts, head) \subseteq Settled(receipts', head')

\* Without an upset, the chain and the tables only grow, and what is indexed is there.
LEMMA WorldGrows ==
  ASSUME SoundInv, QuietInv, [Next]_vars, upsets' = 0
  PROVE  /\ upsets = 0 /\ Grows /\ shaken' = {}
         /\ indexed' \cup contributions' \subseteq
              {t \in Txs : receipts'[t] # None /\ receipts'[t].ok}
<1> USE DEF SoundInv
<1>1. upsets = 0
  BY DEF Next, World, AddBlock, Reorganise, IndexEvent, IndexConfirmed, IndexRollback, Publish,
         Withdraw, Confirmation, Confirm, SelectProject, CheckChain, ReadReceipt, ReadHead,
         FindIndexed, FindContribution, ConfirmFails, Listing, List, ReadRows, ReadConfirmed,
         ListFails, Around, Upset, vars, TypeOK
<1>2. /\ indexed \cup contributions \subseteq {t \in Txs : receipts[t] # None /\ receipts[t].ok}
      /\ shaken = {}
  BY <1>1 DEF QuietInv
<1>3. CASE AddBlock
  <2>1. /\ \A t \in Txs : receipts[t] # None => receipts'[t] = receipts[t]
        /\ head' = head + 1
    BY <1>3 DEF AddBlock, TypeOK
  <2>2. Settled(receipts, head) \subseteq Settled(receipts', head')
    BY <2>1 DEF Settled, TypeOK, Heights, Receipt
  <2>3. QED
    BY <1>1, <1>2, <1>3, <2>1, <2>2 DEF AddBlock, Grows, tables
<1>4. ASSUME NEW t \in Txs, IndexEvent(t) \/ IndexConfirmed(t) \/ IndexRollback(t)
      PROVE  Grows /\ shaken' = {} /\ indexed' \cup contributions' \subseteq
               {u \in Txs : receipts'[u] # None /\ receipts'[u].ok}
  BY <1>2, <1>4 DEF IndexEvent, IndexConfirmed, IndexRollback, Grows, chainVars, history, Settled
<1>5. CASE UNCHANGED <<chainVars, indexed, contributions, shaken>> /\ published \subseteq published'
  BY <1>1, <1>2, <1>5 DEF Grows, chainVars, Settled
<1>6. upsets' # upsets + 1
  BY <1>1
<1>7. QED
  BY <1>1, <1>3, <1>4, <1>5, <1>6
  DEF Next, World, Reorganise, Publish, Withdraw, Confirmation, Confirm, SelectProject,
      CheckChain, ReadReceipt, ReadHead, FindIndexed, FindContribution, ConfirmFails, Listing,
      List, ReadRows, ReadConfirmed, ListFails, Around, Upset, vars, history, tables

\* What a confirmation has seen and said stays so as long as nothing is undone.
LEMMA StillSoStep ==
  ASSUME SoundInv, QuietInv, [Next]_vars, upsets' = 0, NEW r \in Confirms
  PROVE  StillSo(r)'
<1> USE DEF SoundInv
<1>1. upsets = 0 /\ Grows /\ shaken = {} /\ StillSo(r)
  BY WorldGrows DEF QuietInv
<1>2. CASE pc'[r] = pc[r] /\ reply'[r] = reply[r] /\ body'[r] = body[r]
  <2> DEFINE t == body[r].tx
  <2>1. contributions \subseteq contributions'
    BY <1>1 DEF Grows
  <2>2. t \in Settled(receipts, head) => t \in Settled(receipts', head')
    BY <1>1 DEF Grows
  <2>3. reply[r] = "conflict" => receipts'[t] = receipts[t]
    <3>1. reply[r] = "conflict" => body[r] # None
      BY DEF ConfirmsInStep, TypeOK
    <3>2. body[r] # None => t \in Txs
      BY DEF TypeOK, Body
    <3>3. QED
      BY <1>1, <3>1, <3>2 DEF StillSo, Grows
  <2>4. UNCHANGED served /\ published \subseteq published' /\ indexed \subseteq indexed'
    BY <1>1 DEF Grows
  <2>5. Matches(body[r]) => Matches(body[r])'
    BY <1>2, <2>1 DEF Matches
  <2>6. QED
    BY <1>1, <1>2, <2>2, <2>3, <2>4, <2>5 DEF StillSo
<1>3. CASE Confirmation(r)
  <2>1. UNCHANGED <<chainVars, tables>> /\ (pc[r] # "done" /\ reply[r] = "none")
    BY <1>3, ConfirmationMoves DEF Confirmation, Confirm, SelectProject, CheckChain, ReadReceipt,
       ReadHead, FindIndexed, FindContribution, ConfirmFails, Around, ConfirmsInStep
  <2> USE DEF StillSo, chainVars, tables
  <2>2. CASE Confirm(r)
    <3>1. pc'[r] = "project" /\ reply'[r] = "none"
      BY <2>1, <2>2 DEF Confirm, Goto, TypeOK
    <3>2. QED
      BY <3>1
  <2>3. CASE SelectProject(r)
    BY <1>1, <2>1, <2>3 DEF SelectProject, Around, Goto, Answer, TypeOK
  <2>4. CASE CheckChain(r)
    BY <1>1, <2>1, <2>4 DEF CheckChain, Around, Goto, Answer, TypeOK
  <2>5. CASE ReadReceipt(r)
    BY <1>1, <2>1, <2>5 DEF ReadReceipt, Around, Goto, Answer, TypeOK
  <2>6. CASE ReadHead(r)
    <3>1. body[r].tx \in Txs /\ receipts[body[r].tx] = found[r] /\ found[r].ok /\ found[r] # None
      BY <1>1, <2>6 DEF ReadHead, ConfirmsInStep, TypeOK, Body
    <3>2. Enough(found[r].block) => body[r].tx \in Settled(receipts, head)
      BY <3>1 DEF Enough, Settled
    <3>3. QED
      BY <1>1, <2>1, <2>6, <3>2 DEF ReadHead, Around, Goto, Answer, TypeOK
  <2>7. CASE FindIndexed(r)
    BY <1>1, <2>1, <2>7 DEF FindIndexed, Around, Goto, Answer, TypeOK
  <2>8. CASE FindContribution(r)
    BY <1>1, <2>1, <2>8 DEF FindContribution, Around, Answer, Matches, TypeOK
  <2>9. ~ConfirmFails(r)
    BY <1>1 DEF ConfirmFails, Upset
  <2>10. QED
    BY <1>3, <2>2, <2>3, <2>4, <2>5, <2>6, <2>7, <2>8, <2>9 DEF Confirmation
<1>4. ASSUME NEW q \in Confirms, q # r, Confirmation(q)
      PROVE  pc'[r] = pc[r] /\ reply'[r] = reply[r] /\ body'[r] = body[r]
  <2>1. body'[r] = body[r]
    BY <1>4 DEF Confirmation, Confirm, SelectProject, CheckChain, ReadReceipt, ReadHead,
                FindIndexed, FindContribution, ConfirmFails, Around, TypeOK
  <2>2. QED
    BY <1>4, <2>1, ConfirmationMoves
<1>5. QED
  BY <1>2, <1>3, <1>4
  DEF Next, World, AddBlock, Reorganise, IndexEvent, IndexConfirmed, IndexRollback, Publish,
      Withdraw, Listing, List, ReadRows, ReadConfirmed, ListFails, vars, confirmVars

\* What was confirmed before a list began is among its rows, and in its answer.
LEMMA ListStep ==
  ASSUME SoundInv, QuietInv, BeforeAnswered, ListsAgree, [Next]_vars, upsets' = 0,
         NEW q \in Lists
  PROVE  /\ ReadsConfirmed(q)'
         /\ step'[q] = "done" => \A r \in before'[q] :
              reply'[r] = "confirmed" /\ InScope(body'[r].tx, scope'[q]) =>
                body'[r].tx \in listed'[q]
<1> USE DEF SoundInv
<1>1. upsets = 0 /\ \A r \in Confirms : StillSo(r)
  BY WorldGrows DEF QuietInv
<1>2. ReadsConfirmed(q)
      /\ (step[q] = "done" => \A r \in before[q] :
            reply[r] = "confirmed" /\ InScope(body[r].tx, scope[q]) => body[r].tx \in listed[q])
  BY <1>1 DEF QuietInv, ListsAgree
<1>3. before[q] \subseteq Confirms
      /\ \A r \in before[q] : pc[r] = "done" /\ reply'[r] = reply[r] /\ body'[r] = body[r]
  BY DoneStays DEF BeforeAnswered, Answered
<1>4. CASE step'[q] = step[q] /\ scope'[q] = scope[q] /\ rows'[q] = rows[q]
           /\ listed'[q] = listed[q] /\ before'[q] = before[q]
  BY <1>2, <1>3, <1>4 DEF ReadsConfirmed, InScope
<1>5. CASE List(q)
  BY <1>5 DEF List, ReadsConfirmed, TypeOK
<1>6. CASE ReadRows(q)
  <2> DEFINE mine == {t \in contributions : InScope(t, scope[q])}
  <2>1. \A r \in before[q] : reply[r] = "confirmed" /\ InScope(body[r].tx, scope[q]) =>
                               body[r].tx \in mine
    BY <1>1, <1>3 DEF StillSo, Matches
  <2>2. /\ rows'[q] = mine /\ step'[q] = (IF mine = {} THEN "done" ELSE "confirmed")
        /\ UNCHANGED <<scope, listed, before>>
    BY <1>6 DEF ReadRows, history, TypeOK
  <2> HIDE DEF mine
  <2>3. QED
    BY <1>3, <2>1, <2>2 DEF ReadsConfirmed, InScope
<1>7. CASE ReadConfirmed(q)
  <2>1. \A r \in before[q] : reply[r] = "confirmed" => body[r].tx \in indexed
    BY <1>1, <1>3 DEF StillSo
  <2>2. /\ step[q] = "confirmed" /\ step'[q] = "done" /\ listed'[q] = rows[q] \cap indexed
        /\ UNCHANGED <<scope, before>>
    BY <1>7 DEF ReadConfirmed, history, TypeOK
  <2>3. QED
    BY <1>2, <1>3, <2>1, <2>2 DEF ReadsConfirmed, InScope
<1>8. ~ListFails(q)
  BY <1>1 DEF ListFails, Upset
<1>9. ASSUME NEW p \in Lists, p # q, Listing(p)
      PROVE  step'[q] = step[q] /\ scope'[q] = scope[q] /\ rows'[q] = rows[q]
             /\ listed'[q] = listed[q] /\ before'[q] = before[q]
  BY <1>9 DEF Listing, List, ReadRows, ReadConfirmed, ListFails, history, TypeOK
<1>10. ASSUME NEW r \in Confirms, Confirmation(r)
       PROVE  UNCHANGED listVars /\ before'[q] = before[q]
  BY <1>10 DEF Confirmation, Confirm, SelectProject, CheckChain, ReadReceipt, ReadHead,
       FindIndexed, FindContribution, ConfirmFails, Around, history, TypeOK
<1>11. QED
  BY <1>4, <1>5, <1>6, <1>7, <1>8, <1>9, <1>10
  DEF Next, World, AddBlock, Reorganise, IndexEvent, IndexConfirmed, IndexRollback, Publish,
      Withdraw, Listing, vars, listVars, history

\* An answer given now ranks no lower than the one given before to the same question.
LEMMA AnswerRanks ==
  ASSUME SoundInv, QuietInv, upsets = 0, NEW r \in Confirms, NEW s \in Confirms,
         Confirmation(r), ~ConfirmFails(r), pc[s] = "done", pc'[r] = "done", body[s] = body[r]
  PROVE  Rank(reply[s]) <= Rank(reply'[r])
<1> USE DEF SoundInv
<1>1. StillSo(r) /\ StillSo(s)
  BY DEF QuietInv
<1>2. reply[s] \in Reply \ {"none"} /\ reply'[r] \in Reply
  BY ConfirmationMoves DEF ConfirmsInStep, TypeOK
<1>3. /\ \A code \in Reply : Rank(code) \in 0 .. 4
      /\ Rank("not_found") = 0 /\ Rank("pending_confirmation") = 1
      /\ Rank("conflict") = 2 /\ Rank("waiting_for_indexer") = 2
      /\ Rank("waiting_for_contribution_event") = 3
      /\ Rank("validation_error") = 4 /\ Rank("confirmed") = 4
  BY DEF Rank
<1> HIDE DEF Rank
<1>4. reply[s] \notin {"service_unavailable", "internal_error"}
  BY <1>1 DEF StillSo
<1> DEFINE t == body[r].tx
<1>5. ~Confirm(r)
  BY DEF Confirm, Goto, TypeOK
<1>6. CASE SelectProject(r)
  <2>1. body[r].project \notin published /\ reply'[r] = "not_found"
    BY <1>6 DEF SelectProject, Goto, Answer, TypeOK
  <2>2. reply[s] = "not_found"
    BY <1>1, <2>1 DEF StillSo
  <2>3. QED
    BY <1>3, <2>1, <2>2
<1>7. CASE CheckChain(r)
  <2>1. reply'[r] = "validation_error"
    BY <1>7 DEF CheckChain, Goto, Answer, TypeOK
  <2>2. QED
    BY <1>2, <1>3, <2>1
<1>8. ASSUME pc[r] \in {"receipt", "head", "indexed", "contribution"}
      PROVE  reply[s] # "validation_error"
  BY <1>1, <1>8 DEF StillSo
<1>9. CASE ReadReceipt(r)
  <2>1. \/ receipts[t] = None /\ reply'[r] = "pending_confirmation"
        \/ receipts[t] # None /\ ~receipts[t].ok /\ reply'[r] = "conflict"
    BY <1>9 DEF ReadReceipt, Goto, Answer, TypeOK
  <2>2. t \notin Settled(receipts, head)
    BY <2>1 DEF Settled
  <2>3. reply[s] \in {"not_found", "pending_confirmation", "conflict"}
        /\ (reply[s] = "conflict" => receipts[t] # None)
    BY <1>1, <1>2, <1>4, <1>8, <1>9, <2>2 DEF StillSo, ReadReceipt
  <2>4. QED
    BY <1>3, <2>1, <2>3
<1>10. CASE ReadHead(r)
  <2>1. body[r].tx \in Txs /\ receipts[t] = found[r] /\ found[r].ok /\ found[r] # None
    BY <1>10 DEF QuietInv, ReadHead, ConfirmsInStep, TypeOK, Body
  <2>2. ~Enough(found[r].block) /\ reply'[r] = "pending_confirmation"
    BY <1>10 DEF ReadHead, Goto, Answer, TypeOK
  <2>3. t \notin Settled(receipts, head)
    BY <2>1, <2>2 DEF Settled, Enough
  <2>4. reply[s] \in {"not_found", "pending_confirmation"}
    BY <1>1, <1>2, <1>4, <1>8, <1>10, <2>1, <2>3 DEF StillSo, ReadHead
  <2>5. QED
    BY <1>3, <2>2, <2>4
<1>11. CASE FindIndexed(r)
  <2>1. t \notin indexed /\ reply'[r] = "waiting_for_indexer"
    BY <1>11 DEF FindIndexed, Goto, Answer, TypeOK
  <2>2. reply[s] \in {"not_found", "pending_confirmation", "conflict", "waiting_for_indexer"}
    BY <1>1, <1>2, <1>4, <1>8, <1>11, <2>1 DEF StillSo, FindIndexed
  <2>3. QED
    BY <1>3, <2>1, <2>2
<1>12. CASE FindContribution(r)
  <2>1. reply'[r] = IF Matches(body[r]) THEN "confirmed" ELSE "waiting_for_contribution_event"
    BY <1>12 DEF FindContribution, Answer, TypeOK
  <2>2. reply[s] = "confirmed" => Matches(body[r])
    BY <1>1 DEF StillSo
  <2>3. reply[s] # "validation_error"
    BY <1>8, <1>12 DEF FindContribution
  <2>4. CASE Matches(body[r])
    BY <1>2, <1>3, <2>1, <2>4
  <2>5. CASE ~Matches(body[r])
    BY <1>2, <1>3, <1>4, <2>1, <2>2, <2>3, <2>5
  <2>6. QED
    BY <2>4, <2>5
<1>13. QED
  BY <1>5, <1>6, <1>7, <1>9, <1>10, <1>11, <1>12 DEF Confirmation

\* Who asks again is never told less, as long as nothing is undone.
LEMMA RankStep ==
  ASSUME SoundInv, QuietInv, BeforeAnswered, StatusNeverRegresses, [Next]_vars
  PROVE  StatusNeverRegresses'
<1> USE DEF SoundInv
<1> SUFFICES ASSUME upsets' = 0, NEW r \in Confirms, pc'[r] = "done",
                    NEW s \in before'[r], body'[s] = body'[r]
             PROVE  Rank(reply'[s]) <= Rank(reply'[r])
  BY DEF StatusNeverRegresses, Rank
<1>1. upsets = 0
  BY WorldGrows
<1>2. CASE pc[r] = "done"
  <2>1. s \in before[r] /\ reply'[r] = reply[r] /\ body'[r] = body[r]
    BY <1>2, DoneStays
  <2>2. s \in Confirms /\ pc[s] = "done"
    BY <2>1 DEF BeforeAnswered, Answered
  <2>3. reply'[s] = reply[s] /\ body'[s] = body[s]
    BY <2>2, DoneStays
  <2>4. QED
    BY <1>1, <1>2, <2>1, <2>3 DEF StatusNeverRegresses
<1>3. CASE pc[r] # "done"
  <2>1. ASSUME NEW q \in Confirms, q # r, Confirmation(q) PROVE FALSE
    BY <1>3, <2>1, ConfirmationMoves
  <2>2. Confirmation(r)
    BY <1>3, <2>1
    DEF Next, World, AddBlock, Reorganise, IndexEvent, IndexConfirmed, IndexRollback, Publish,
        Withdraw, Listing, List, ReadRows, ReadConfirmed, ListFails, vars, confirmVars
  <2>3. ~ConfirmFails(r)
    BY <1>1 DEF ConfirmFails, Upset
  <2>4. ~Confirm(r)
    BY DEF Confirm, Goto, TypeOK
  <2>5. UNCHANGED <<body, before>>
    BY <2>2, <2>3, <2>4 DEF Confirmation, SelectProject, CheckChain, ReadReceipt, ReadHead,
       FindIndexed, FindContribution, Around, history
  <2>6. s \in Confirms /\ pc[s] = "done"
    BY <2>5 DEF BeforeAnswered, Answered
  <2>7. reply'[s] = reply[s] /\ body[s] = body[r]
    BY <2>5, <2>6, DoneStays
  <2>8. QED
    BY <1>1, <2>2, <2>3, <2>6, <2>7, AnswerRanks
<1>4. QED
  BY <1>2, <1>3

\* Every step keeps the whole invariant.
LEMMA AskAgainStep ==
  ASSUME AskAgainInv, [Next]_vars
  PROVE  AskAgainInv'
<1>1. SoundInv' /\ BeforeAnswered' /\ StatusNeverRegresses'
  BY SoundStep, BeforeStep, RankStep DEF AskAgainInv, SoundInv
<1>2. QuietInv'
  BY WorldGrows, StillSoStep, ListStep DEF AskAgainInv, QuietInv
<1>3. ListsAgree'
  <2>1. \A q \in Lists : step'[q] = "done" =>
          \A t \in listed'[q] : InScope(t, scope'[q]) /\ t \in settled'
    BY <1>1 DEF SoundInv, ListsInStep, InScope
  <2>2. upsets' = 0 => \A q \in Lists : step'[q] = "done" => \A r \in before'[q] :
          reply'[r] = "confirmed" /\ InScope(body'[r].tx, scope'[q]) =>
            body'[r].tx \in listed'[q]
    BY ListStep DEF AskAgainInv
  <2>3. QED
    BY <2>1, <2>2 DEF ListsAgree, InScope
<1>4. QED
  BY <1>1, <1>2, <1>3 DEF AskAgainInv

\* Every state that is reached satisfies it.
THEOREM AskAgainInvariant == Spec => []AskAgainInv
<1>1. Init => SoundInv
  BY DEF Init, SoundInv, TypeOK, Heights, ChainInStep, ConfirmsInStep,
     ListsInStep, AnswersAreSound, ConfirmedIsOwn, DepthUnlessReorganised, Settled
<1>2. Init => QuietInv
  BY DEF Init, QuietInv, StillSo, ReadsConfirmed
<1>3. Init => BeforeAnswered /\ StatusNeverRegresses /\ ListsAgree
  BY DEF Init, BeforeAnswered, StatusNeverRegresses, ListsAgree
<1>4. Init => AskAgainInv
  BY <1>1, <1>2, <1>3 DEF AskAgainInv
<1>5. QED
  BY <1>4, AskAgainStep, PTL DEF Spec

\* A client that asks again is never told less, unless something was undone or failed.
THEOREM NeverToldLess == Spec => []StatusNeverRegresses
BY AskAgainInvariant, PTL DEF AskAgainInv

\* A list holds settled contributions of its scope, and all confirmed before it began.
THEOREM ListsHoldTheConfirmed == Spec => []ListsAgree
BY AskAgainInvariant, PTL DEF AskAgainInv
=============================================================================

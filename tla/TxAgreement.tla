---------------------------- MODULE TxAgreement ----------------------------
(***************************************************************************)
(* The agreement of the guards on a transaction.  In its turn a guard      *)
(* proposes the transactions it generated, the others verify them and      *)
(* respond with a signature, and with a quorum of signatures the proposer  *)
(* broadcasts an approval, upon which each guard stores the transaction in *)
(* its own table (setTxAsApproved).                                        *)
(*                                                                         *)
(* Messages are a growing set: one that is never received is lost, one     *)
(* that is received twice was duplicated, and the order is lost anyway.    *)
(* A handler is split where it awaits: a verification that is under way    *)
(* and a store that is under way are tasks of the guard.  What becomes of  *)
(* a stored transaction is abstracted to "row"; TransactionProcessor has   *)
(* the detail.  approvedTransactions only makes an approval arrive more    *)
(* than once, which a message that was sent may do anyway.                 *)
(***************************************************************************)
EXTENDS TxTypes, FiniteSets

CONSTANTS
  Guard,          \* the guards
  Holder,         \* Holder[k]: the guard whose turn the k-th one is
  CreatorOf,      \* the guard that generates a transaction
  RequiredSign,   \* GuardPkHandler.requiredSign
  NoTx,
  MaxTurn,        \* bound on the turns of a behaviour
  MaxTasks,       \* bound on the handlers that are running at once
  Perishable,     \* the transactions that may be displaced on the chain
  DeepForks,      \* may the chain confirm what a guard has given up
  Submitted,      \* the transactions whose submission is followed
  MaxFaults       \* bound on the crashes and thrown errors of a behaviour

ASSUME AgreementAssumption ==
  /\ IsFiniteSet(Guard)
  /\ Holder \in [1..MaxTurn -> Guard]
  /\ CreatorOf \in [Tx -> Guard]
  /\ RequiredSign \in Nat /\ 2 * RequiredSign > Cardinality(Guard)
  /\ NoTx \notin Tx /\ Perishable \subseteq Tx /\ Submitted \subseteq Tx
  /\ DeepForks \in BOOLEAN
  /\ MaxTurn \in Nat \ {0} /\ MaxTasks \in Nat \ {0} /\ MaxFaults \in Nat

VARIABLES
  turn,         \* how many turns have begun; a proposal's timestamp
  gap,          \* the last minute of the turn, in which nobody may propose
  toClear,      \* the clears that are still to run in this gap
  round,        \* how far the timers of the holder's roundJob are
  queue,        \* transactionQueue
  transactions, \* transactions: the timestamp of a candidate, 0 for none
  approvals,    \* transactionApprovals: whose signature of which timestamp
  agreed,       \* the three agreed maps, and since which turn
  tasks,        \* handlers that await something
  row,          \* a guard's Transaction table
  confirmed,    \* the transactions that the chain has confirmed for good
  took,         \* history: what a guard ever took to its signer
  msgs,         \* every message ever sent
  faults

clock == <<turn, gap, toClear, round>>
memory == <<queue, transactions, approvals, agreed>>
outside == <<row, confirmed, took>>
vars == <<clock, memory, tasks, outside, msgs, faults>>

(***************************************************************************)
(* Keys of the agreed maps: eventAgreedTransactions and                    *)
(* orderAgreedTransactions by owner, agreedColdStorageTransactions by      *)
(* chain.                                                                  *)
(***************************************************************************)
ChainKey(t) == IF t \in OnErgo THEN "onErgo" ELSE "elsewhere"
Key(t) == IF Owned(t) THEN OwnerOf[t] ELSE ChainKey(t)
AgreedKey == Owner \cup {"onErgo", "elsewhere"}

ForEvent(t) == TypeOf[t] \in {"payment", "reward"}
OrderKey == {OwnerOf[t] : t \in {u \in Tx : TypeOf[u] = "arbitrary"}}

\* mutant: the array of approvals is not filled with ''
Unfilled == [h \in Guard |-> NoTx]

Nobody == [h \in Guard |-> 0]

NotAgreed == [tx |-> NoTx, since |-> 0]

\* "advanced" is every valid status but approved
RowState == {"none", "approved", "advanced", "invalid"}

Message ==
  [type : {"request"}, tx : Tx, ts : Nat, from : Guard]
  \cup [type : {"response"}, tx : Tx, ts : Nat, from : Guard, to : Guard]
  \cup [type : {"approval"}, tx : Tx, ts : Nat, from : Guard,
        signs : [Guard -> Nat]]

\* what a guard is in the middle of
Step == {"register", "request", "verifyRequest", "approval", "verifyApproval",
         "count", "storeCounted", "store"}
Task == [step : Step, tx : Tx, ts : Nat, from : Guard]

ClockOK ==
  /\ turn \in 1..MaxTurn /\ gap \in BOOLEAN
  /\ round \in {"none", "started", "requeued"}
  /\ toClear \in SUBSET (Guard \X {"transactions", "agreed"})

MemoryOK ==
  /\ queue \in [Guard -> SUBSET Tx]
  /\ transactions \in [Guard -> [Tx -> Nat]]
  /\ approvals \in [Guard -> [Tx -> [Guard -> Nat]]]
  /\ agreed \in [Guard -> [AgreedKey -> [tx : Tx \cup {NoTx}, since : Nat]]]

OutsideOK ==
  /\ row \in [Guard -> [Tx -> RowState]]
  /\ confirmed \in SUBSET Tx /\ took \in [Guard -> SUBSET Tx]

TypeOK ==
  /\ ClockOK /\ MemoryOK /\ OutsideOK
  /\ tasks \in [Guard -> SUBSET Task]
  /\ msgs \in SUBSET Message
  /\ faults \in Nat

Empty == [g \in Guard |-> {}]

Init ==
  /\ turn = 1 /\ gap = FALSE /\ toClear = {} /\ round = "started"
  /\ queue = Empty
  /\ transactions = [g \in Guard |-> [t \in Tx |-> 0]]
  /\ approvals = [g \in Guard |-> [t \in Tx |-> Nobody]]
  /\ agreed = [g \in Guard |-> [k \in AgreedKey |-> NotAgreed]]
  /\ tasks = Empty
  /\ row = [g \in Guard |-> [t \in Tx |-> "none"]]
  /\ confirmed = {} /\ took = Empty
  /\ msgs = {}
  /\ faults = 0

-----------------------------------------------------------------------------
(* Turns.  guardTurn() is -1 in the gap.                                   *)

holder == Holder[turn]
InTurn(g) == ~gap /\ g = holder
InRound == round # "none"

EndTurn ==
  /\ ~gap /\ turn < MaxTurn
  /\ gap' = TRUE
  /\ toClear' = (Guard \X {"agreed"})
                \cup (IF InRound THEN {<<holder, "transactions">>} ELSE {})
  /\ UNCHANGED <<turn, round, memory, tasks, outside, msgs, faults>>

\* the timers of the gap have fired when the next turn begins
NextTurn ==
  /\ gap /\ toClear = {}
  /\ turn' = turn + 1
  /\ gap' = FALSE
  /\ round' = "started"
  /\ UNCHANGED <<toClear, memory, tasks, outside, msgs, faults>>

ClearTransactions(g) ==
  /\ <<g, "transactions">> \in toClear
  /\ toClear' = toClear \ {<<g, "transactions">>}
  /\ queue' = [queue EXCEPT ![g] = {}]
  /\ transactions' = [transactions EXCEPT ![g] = [t \in Tx |-> 0]]
  /\ approvals' = [approvals EXCEPT ![g] = [t \in Tx |-> Nobody]]
  /\ UNCHANGED <<turn, gap, round, agreed, tasks, outside, msgs, faults>>

\* mutant: eventAgreedTransactions is not cleared
ClearAgreedChains(g) ==
  /\ <<g, "agreed">> \in toClear
  /\ toClear' = toClear \ {<<g, "agreed">>}
  /\ transactions' = [transactions EXCEPT ![g] = [t \in Tx |-> 0]]
  /\ agreed' = [agreed EXCEPT ![g] = [k \in AgreedKey |->
                  IF k \in Owner THEN @[k] ELSE NotAgreed]]
  /\ UNCHANGED <<turn, gap, round, queue, approvals, tasks, outside, msgs, faults>>

\* orderAgreedTransactions is not among the maps that are cleared
ClearAgreedTransactions(g) ==
  /\ <<g, "agreed">> \in toClear
  /\ toClear' = toClear \ {<<g, "agreed">>}
  /\ transactions' = [transactions EXCEPT ![g] = [t \in Tx |-> 0]]
  /\ agreed' = [agreed EXCEPT ![g] = [k \in AgreedKey |->
                  IF k \in OrderKey THEN @[k] ELSE NotAgreed]]
  /\ UNCHANGED <<turn, gap, round, queue, approvals, tasks, outside, msgs, faults>>

-----------------------------------------------------------------------------
(* The table and the chain.                                                *)

Quorums == {Q \in SUBSET Guard : Cardinality(Q) >= RequiredSign}
TookToSigner(t) == {g \in Guard : t \in took[g]}

Valid(g, t) == row[g][t] \in {"approved", "advanced"}
Rivals(g, t) == {u \in Tx \ {t} : Alike(t, u) /\ Valid(g, u)}

\* mutant: a lower id replaces whatever has become of the other
InsertLowest(g, t) ==
  LET replaced == {u \in Rivals(g, t) : t < u} IN
  row' = IF row[g][t] # "none" \/ Rivals(g, t) # replaced THEN row
         ELSE [row EXCEPT ![g] = [u \in Tx |->
                 IF u = t THEN "approved"
                 ELSE IF u \in replaced THEN "none" ELSE @[u]]]

\* mutant: nobody looks for another transaction of the event
InsertBeside(g, t) ==
  row' = IF row[g][t] # "none" THEN row ELSE [row EXCEPT ![g][t] = "approved"]

\* insertTx
InsertTx(g, t) ==
  LET replaced == {u \in Rivals(g, t) : row[g][u] = "approved" /\ t < u} IN
  row' = IF row[g][t] # "none" \/ Rivals(g, t) # replaced THEN row
         ELSE [row EXCEPT ![g] = [u \in Tx |->
                 IF u = t THEN "approved"
                 ELSE IF u \in replaced THEN "none" ELSE @[u]]]

\* TransactionProcessor hands the transaction to the signer
Advance(g, t) ==
  /\ row[g][t] = "approved"
  /\ row' = [row EXCEPT ![g][t] = "advanced"]
  /\ took' = [took EXCEPT ![g] = @ \cup {t}]
  /\ UNCHANGED <<clock, memory, tasks, confirmed, msgs, faults>>

\* And gives it up when the chain will not have it.  isTxValid says what is so
\* at the moment, whatever a fork makes of it later, and lastCheck may be so
\* long ago (it begins as 0) that setTransactionAsInvalid waits for no block.
Invalidate(g, t) ==
  /\ row[g][t] = "advanced" /\ t \in Perishable \ confirmed
  /\ row' = [row EXCEPT ![g][t] = "invalid"]
  /\ UNCHANGED <<clock, memory, tasks, confirmed, took, msgs, faults>>

GivenUp(t) == \E g \in Guard : row[g][t] = "invalid"

\* The transaction is confirmed, for which it needs the signatures of a
\* quorum: a guard's signer has a part in what the guard took to it and in
\* nothing else (SignedOnlyByRequested of MultiSig).  One that a guard gave up
\* is, too, when a fork undoes what displaced it.
Confirm(t) ==
  /\ t \in Submitted \ confirmed
  /\ TookToSigner(t) \in Quorums
  /\ GivenUp(t) => DeepForks
  /\ confirmed' = confirmed \cup {t}
  /\ UNCHANGED <<clock, memory, tasks, row, took, msgs, faults>>

-----------------------------------------------------------------------------
(* Proposing.                                                              *)

Send(m) == msgs' = msgs \cup m
Request(g, t, ts) == [type |-> "request", tx |-> t, ts |-> ts, from |-> g]

Begin(g, step, m) == tasks' =
  [tasks EXCEPT ![g] = @ \cup {[step |-> step, tx |-> m.tx, ts |-> m.ts, from |-> m.from]}]
Continue(g, task, step) == tasks' =
  [tasks EXCEPT ![g] = (@ \ {task}) \cup {[task EXCEPT !.step = step]}]
Finish(g, task) == tasks' = [tasks EXCEPT ![g] = @ \ {task}]
Busy == Cardinality(UNION {{g} \X tasks[g] : g \in Guard}) >= MaxTasks

Registering(g, t) == \E task \in tasks[g] : task.step = "register" /\ task.tx = t
Proposed(g, t) == t \in queue[g] \/ Registering(g, t) \/ transactions[g][t] = turn

\* A round generates one transaction for each pending event or order, and
\* one for a chain of which no cold-storage transaction is under way.  One
\* that was given up has lost its inputs and is never generated again.
GenerateTx(g, t) ==
  /\ g = holder /\ InRound
  /\ CreatorOf[t] = g /\ TypeOf[t] # "manual"
  /\ ~Proposed(g, t) /\ row[g][t] = "none"
  /\ Rivals(g, t) = {}
  /\ \A u \in Tx : Alike(t, u) => ~Proposed(g, u)
  /\ queue' = [queue EXCEPT ![g] = @ \cup {t}]
  /\ UNCHANGED <<clock, transactions, approvals, agreed, tasks, outside, msgs, faults>>

\* 30 seconds into the turn; the failed ones are among the advanced
EnqueueSignFailedTxs(g) ==
  /\ InTurn(g) /\ round = "started"
  /\ round' = "requeued"
  /\ \E failed \in SUBSET {t \in Tx : row[g][t] = "advanced" /\ TypeOf[t] # "manual"} :
       queue' = [queue EXCEPT ![g] = @ \cup failed]
  /\ UNCHANGED <<turn, gap, toClear, transactions, approvals, agreed, tasks,
                 outside, msgs, faults>>

\* processAgreementQueue, up to its first await
BroadcastRequest(g, t) ==
  /\ InTurn(g) /\ InRound
  /\ t \in queue[g] /\ \A u \in Tx : ~Registering(g, u)
  /\ ~Busy
  /\ queue' = [queue EXCEPT ![g] = @ \ {t}]
  /\ Send({Request(g, t, turn)})
  /\ Begin(g, "register", Request(g, t, turn))
  /\ UNCHANGED <<clock, transactions, approvals, agreed, outside, faults>>

\* and its end, with the proposer's own signature
RegisterCandidate(g) == \E task \in tasks[g] :
  /\ task.step = "register"
  /\ transactions' = [transactions EXCEPT ![g][task.tx] = task.ts]
  /\ approvals' = [approvals EXCEPT ![g][task.tx] = [Nobody EXCEPT ![g] = task.ts]]
  /\ Finish(g, task)
  /\ UNCHANGED <<clock, queue, agreed, outside, msgs, faults>>

\* resendTransactionRequests sends every candidate, whoever proposed it
ResendTransactionRequests(g) ==
  /\ InTurn(g) /\ InRound
  /\ Send({Request(g, t, transactions[g][t]) : t \in {u \in Tx : transactions[g][u] # 0}})
  /\ UNCHANGED <<clock, memory, tasks, outside, faults>>

-----------------------------------------------------------------------------
(* Requests.  Communicator drops what is older than UP_TIME_LENGTH: what   *)
(* was sent before the turn that was before.                               *)

Arrives(g, m) == m.from # g /\ m.ts + 1 >= turn

HandleRequest(g, m) ==
  /\ m.type = "request" /\ Arrives(g, m)
  /\ InTurn(m.from)
  /\ Begin(g, "request", m)
  /\ UNCHANGED <<clock, memory, outside, msgs, faults>>

\* between verifyTxCommonConditions and RequestVerifier
CheckAgreed(g) == \E task \in tasks[g] :
  /\ agreed[g][Key(task.tx)].tx \in {NoTx, task.tx}
  /\ \/ task.step = "request" /\ Continue(g, task, "verifyRequest")
     \/ task.step = "approval" /\ Continue(g, task, "verifyApproval")
  /\ UNCHANGED <<clock, memory, outside, msgs, faults>>

\* what RequestVerifier asks of the table
Acceptable(g, t) == Rivals(g, t) = {} /\ TypeOf[t] # "manual"

AgreeTo(g, t) ==
  /\ Acceptable(g, t)
  /\ agreed' = [agreed EXCEPT ![g][Key(t)] = [tx |-> t, since |-> turn]]

AgreeToRequest(g) == \E task \in tasks[g] :
  /\ task.step = "verifyRequest"
  /\ AgreeTo(g, task.tx)
  /\ transactions' = [transactions EXCEPT ![g][task.tx] = task.ts]
  /\ Send({[type |-> "response", tx |-> task.tx, ts |-> task.ts,
            from |-> g, to |-> task.from]})
  /\ Finish(g, task)
  /\ UNCHANGED <<clock, queue, approvals, outside, faults>>

Reject(g) == \E task \in tasks[g] :
  /\ \/ /\ task.step \in {"request", "approval"}
        /\ agreed[g][Key(task.tx)].tx \notin {NoTx, task.tx}
     \/ /\ task.step \in {"verifyRequest", "verifyApproval"}
        /\ ~Acceptable(g, task.tx)
  /\ Finish(g, task)
  /\ UNCHANGED <<clock, memory, outside, msgs, faults>>

\* A handler throws, or a verification fails for the sake of the chain: both
\* are logged and forgotten.
Abandon(g) == \E task \in tasks[g] :
  /\ faults < MaxFaults
  /\ faults' = faults + 1
  /\ Finish(g, task)
  /\ UNCHANGED <<clock, memory, outside, msgs>>

-----------------------------------------------------------------------------
(* Responses.                                                              *)

Expected(g, m) ==
  /\ m.type = "response" /\ m.to = g /\ Arrives(g, m)
  /\ transactions[g][m.tx] = m.ts

\* processAgreementResponse throws ImpossibleBehavior without approvals
HandleResponse(g, m) ==
  /\ Expected(g, m) /\ approvals[g][m.tx] # Nobody
  /\ approvals' = [approvals EXCEPT ![g][m.tx][m.from] = m.ts]
  /\ Begin(g, "count", m)
  /\ UNCHANGED <<clock, queue, transactions, agreed, outside, msgs, faults>>

Signers(signs) == {h \in Guard : signs[h] # 0}

\* mutant: one signature short
ShortQuorum(guards) == Cardinality(guards) >= RequiredSign - 1

HasQuorum(guards) == Cardinality(guards) >= RequiredSign

\* approvalSemaphore: one handler of a response counts or stores at a time
CountApprovals(g) == \E task \in tasks[g] :
  LET signs == approvals[g][task.tx] IN
  /\ task.step = "count"
  /\ \A other \in tasks[g] : other.step # "storeCounted"
  /\ IF HasQuorum(Signers(signs))
     THEN /\ Send({[type |-> "approval", tx |-> task.tx, ts |-> task.ts,
                    from |-> g, signs |-> signs]})
          /\ Continue(g, task, "storeCounted")
     ELSE Finish(g, task) /\ UNCHANGED msgs
  /\ UNCHANGED <<clock, memory, outside, faults>>

-----------------------------------------------------------------------------
(* Approvals.                                                              *)

\* the signatures verify and are enough
Proven(m) == /\ HasQuorum(Signers(m.signs))
             /\ \A h \in Signers(m.signs) : m.signs[h] = m.ts

\* processApprovalMessage
StoreCandidate(g, m) ==
  /\ transactions[g][m.tx] # 0
  /\ Begin(g, "store", m)

\* mutant: a guard that has not seen the request does not store
IgnoreUnknown(g, m) == FALSE

VerifyUnknown(g, m) ==
  /\ transactions[g][m.tx] = 0
  /\ ForEvent(m.tx) => agreed[g][Key(m.tx)].tx = NoTx
  /\ InTurn(m.from)
  /\ Begin(g, "approval", m)

HandleApproval(g, m) ==
  /\ m.type = "approval" /\ Arrives(g, m) /\ Proven(m)
  /\ StoreCandidate(g, m) \/ VerifyUnknown(g, m)
  /\ UNCHANGED <<clock, memory, outside, msgs, faults>>

AgreeToApproval(g) == \E task \in tasks[g] :
  /\ task.step = "verifyApproval"
  /\ AgreeTo(g, task.tx)
  /\ Continue(g, task, "store")
  /\ UNCHANGED <<clock, queue, transactions, approvals, outside, msgs, faults>>

\* setTxAsApproved: insert, then forget the candidate and the agreements
SetTxAsApproved(g) == \E task \in tasks[g] :
  LET t == task.tx IN
  /\ task.step \in {"store", "storeCounted"}
  /\ InsertTx(g, t)
  /\ transactions' = [transactions EXCEPT ![g][t] = 0]
  /\ approvals' = [approvals EXCEPT ![g][t] = Nobody]
  /\ agreed' = [agreed EXCEPT ![g] = [k \in AgreedKey |->
       IF (ForEvent(t) /\ k = OwnerOf[t]) \/ k = ChainKey(t) THEN NotAgreed ELSE @[k]]]
  /\ Finish(g, task)
  /\ UNCHANGED <<clock, queue, confirmed, took, msgs, faults>>

-----------------------------------------------------------------------------
\* A guard restarts; it misses the rest of its round.
Crash(g) ==
  /\ faults < MaxFaults
  /\ faults' = faults + 1
  /\ queue' = [queue EXCEPT ![g] = {}]
  /\ transactions' = [transactions EXCEPT ![g] = [t \in Tx |-> 0]]
  /\ approvals' = [approvals EXCEPT ![g] = [t \in Tx |-> Nobody]]
  /\ agreed' = [agreed EXCEPT ![g] = [k \in AgreedKey |-> NotAgreed]]
  /\ tasks' = [tasks EXCEPT ![g] = {}]
  /\ round' = IF g = holder THEN "none" ELSE round
  /\ toClear' = toClear \ {<<g, "transactions">>}
  /\ UNCHANGED <<turn, gap, outside, msgs>>

-----------------------------------------------------------------------------
Turns == EndTurn \/ NextTurn
         \/ \E g \in Guard : ClearTransactions(g) \/ ClearAgreedTransactions(g)

Propose == \E g \in Guard :
  \/ \E t \in Tx : GenerateTx(g, t) \/ BroadcastRequest(g, t)
  \/ EnqueueSignFailedTxs(g) \/ RegisterCandidate(g) \/ ResendTransactionRequests(g)

ProcessMessage == \E g \in Guard :
  \/ ~Busy /\ \E m \in msgs :
       HandleRequest(g, m) \/ HandleResponse(g, m) \/ HandleApproval(g, m)
  \/ CheckAgreed(g) \/ AgreeToRequest(g) \/ CountApprovals(g) \/ AgreeToApproval(g)
  \/ Reject(g) \/ SetTxAsApproved(g) \/ Abandon(g)

Table == \/ \E g \in Guard, t \in Tx : Advance(g, t) \/ Invalidate(g, t)
         \/ \E t \in Tx : Confirm(t)

Next == Turns \/ Propose \/ ProcessMessage \/ Table \/ \E g \in Guard : Crash(g)

Spec == Init /\ [][Next]_vars

(***************************************************************************)
(* Fairness.  Jobs and handlers run on (weak), and what is resent arrives  *)
(* in the end (strong: the guard may be busy in between): the request      *)
(* while it is a candidate of its sender, the approval until the turn      *)
(* ends, a response whenever the request is received again.                *)
(***************************************************************************)
Resent(m) ==
  /\ m.type \in {"request", "approval"} =>
       InTurn(m.from) /\ InRound /\ m.ts = turn
  /\ m.type = "request" => transactions[m.from][m.tx] = m.ts

Receive(g) == \E m \in msgs :
  /\ Resent(m) /\ ~Busy
  /\ HandleRequest(g, m) \/ HandleResponse(g, m) \/ HandleApproval(g, m)

Fairness ==
  /\ WF_vars(\E g \in Guard, t \in Tx : GenerateTx(g, t))
  /\ SF_vars(\E g \in Guard, t \in Tx : BroadcastRequest(g, t))
  /\ WF_vars(\E g \in Guard : RegisterCandidate(g))
  /\ \A g \in Guard :
       /\ SF_vars(Receive(g))
       /\ WF_vars(CheckAgreed(g) \/ AgreeToRequest(g) \/ AgreeToApproval(g) \/ Reject(g))
       /\ WF_vars(CountApprovals(g) \/ SetTxAsApproved(g))

FairSpec == Spec /\ Fairness

-----------------------------------------------------------------------------
(* Properties.                                                             *)

\* A guard has a transaction in its table only if a quorum of guards signed
\* one and the same proposal of it, as proposers or by a response.  The code
\* never compares proposals: it compares timestamps and verifies signatures.
SignedProposal(h, t, ts) ==
  \/ Request(h, t, ts) \in msgs
  \/ \E m \in msgs : m.type = "response" /\ m.from = h /\ m.tx = t /\ m.ts = ts

StoredByQuorum == \A g \in Guard, t \in Tx :
  row[g][t] # "none" =>
    \E ts \in 1..turn : {h \in Guard : SignedProposal(h, t, ts)} \in Quorums

\* Two transactions of one event are never both taken to the signer by a
\* quorum, unless a guard that took both gave one of them up: agreements are
\* forgotten when a turn ends and approvals are lost, and still insertTx of
\* each guard keeps two quorums from paying an event twice.
NoRivalQuorums == \A t, u \in Tx :
  /\ Alike(t, u) /\ t # u
  /\ TookToSigner(t) \in Quorums /\ TookToSigner(u) \in Quorums
  => \E g \in TookToSigner(t) \cap TookToSigner(u) : "invalid" \in {row[g][t], row[g][u]}

\* An event is paid once and rewarded once, an order is paid once, and a
\* guard that missed the payment can learn of it (EventSynchronization counts
\* on both): a quorum of guards has it in their tables as valid, and none of
\* them gives it up for another.  The exception, and the only one, is what a
\* fork brings back: nothing in the code undoes setTransactionAsInvalid
\* when a transaction that a guard gave up is confirmed after all.
BroughtBack(t) == DeepForks /\ GivenUp(t)

PaidOnce ==
  /\ \A t, u \in confirmed :
       Alike(t, u) /\ t # u => BroughtBack(t) \/ BroughtBack(u)
  /\ \A t \in confirmed :
       ~BroughtBack(t) => {g \in Guard : row[g][t] = "advanced"} \in Quorums

\* An agreement is a promise for the turn: what makes a guard refuse another
\* transaction was agreed to in this turn or in the one before, and never
\* holds an event or a chain up for longer (clearAgreedTransactions in each
\* gap).  An order it may: orderAgreedTransactions is never cleared.
AgreementIsRecent == \A g \in Guard, k \in AgreedKey \ OrderKey :
  agreed[g][k].tx # NoTx => agreed[g][k].since + 1 >= turn

\* Each table is the one that TransactionProcessor implements too: what a
\* guard took to its signer is never replaced, and a rival of it enters only
\* when it was given up, whatever the guards agreed to and forgot meanwhile.
TableOf(g) == INSTANCE GuardTable WITH row <- row[g]

ImplementsTables ==
  /\ \A g \in Guard : TableOf(g)!Init
  /\ [][\A g \in Guard : row'[g] = row[g] \/ TableOf(g)!Next]_row

\* As long as the turn lasts and nothing fails, what the holder proposes
\* ends up in the table of every guard, whether it saw the request or only
\* the approval.
AgreementReached == ([]~gap) => <>(\A g \in Guard, t \in Tx : row[g][t] # "none")
=============================================================================

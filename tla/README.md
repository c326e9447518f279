# A formal model of the Rosen guard service

The guard service is run by every guard of the Rosen bridge. A guard watches
events (somebody locked assets on one chain and is to be paid on another),
agrees with the other guards on one transaction that pays the event, has it
signed by a quorum, submits it and watches it until it is confirmed; for events
paid on a chain other than Ergo a reward transaction follows. What can go wrong
is what goes wrong in any service of this kind: an event paid twice, an event
paid never, an event stuck between two states.

This directory holds TLA+ modules of that service, TLC configurations that
check them, and proofs for the TLA+ proof system (TLAPS). Line numbers in
`PROJECT.json` refer to the sources they were translated from.

## 1. Inventory

State in memory is lost at a crash, state in the database is not. Everything
runs on one JavaScript thread: steps interleave at every `await`, never inside
a synchronous stretch.

| Component | State | Operations | Talks to |
|---|---|---|---|
| TransactionProcessor | none of its own; Transaction table | a pass over all active transactions every `txProcessorInterval`: hand to the signer, time the signer out, look for the transaction on the chain, resubmit, complete, invalidate; the signer's two callbacks | chains, signer, DatabaseAction |
| DatabaseHandler | `txSignSemaphore` | insert an agreed, cold-storage or manual transaction; insert an order | called by TxAgreement and the API |
| DatabaseAction | the tables | typed queries and updates, each one atomic | everybody |
| TxAgreement | `transactionQueue`, `transactions`, `transactionApprovals`, `approvedTransactions`, the agreed maps, `approvalSemaphore` | propose, agree to a request, collect responses, broadcast and accept approvals, resend, clear | other guards by message, the verifiers, DatabaseHandler |
| RequestVerifier, EventVerifier, TransactionVerifier | none | decide on a proposed transaction from the event, the table and the chain | TxAgreement |
| EventProcessor | ConfirmedEvent table | confirm scanned events, generate payments and rewards, reject, spend, limit, time out, requeue | TxAgreement queue, EventSynchronization |
| ArbitraryProcessor | Arbitrary table | the same for orders | TxAgreement queue |
| ColdStorage | none | propose a transfer when a balance is above its threshold | TxAgreement queue |
| EventOrder, EventBoxes | none | the amounts of a payment and of the rewards | EventProcessor, TransactionVerifier |
| EventSynchronization | `eventQueue`, `activeSyncMap` | ask the other guards for the payment of an event this guard missed, count their answers, insert it | other guards, tables |
| EventReprocess | Reprocess table | make other guards retry an event; cooldown | other guards, tables |
| MultiSigHandler | `transactions` (promises, commitments, signs), `peers`, `index`, `nonce` | collect commitments and partial signatures for Ergo transactions, time out; register with the other guards and approve their registrations | other guards, TransactionProcessor's promise |
| TssHandler | an external process | the same for the other chains | TransactionProcessor's promise |
| Dialer | message queue, streams | send with retries, subscribe | relay and peers |
| GuardTurn, runProcessors | none | who may propose when; the timers of all jobs | everybody |
| revenue job | Revenue table | store the revenue of finished events | tables, chain |
| GuardPkHandler, configUpdateJob | the public keys, `guardId`, `requiredSign` | read them from the config box again and again, tell MultiSigHandler and the TSS handler | Ergo |
| HealthCheck, NotificationHandler, DetectionHandler, MinimumFeeHandler | singletons around libraries | report, notify, refresh | |
| API | none | read routes; insert manual transactions, orders; start a reprocess | handlers above |

Hard behaviours, and what has to be true in spite of them:

* **A pass works from stale rows.** `processTransactions` reads all active rows
  once and then awaits chain calls for each. Meanwhile the signer answers, an
  approval replaces a row, another inserts one. Every row must still live the
  life it should.
* **Writes without a condition.** Most updates set a status whatever it was.
  They are right only because of what else cannot be going on.
* **Two tables, two writes.** A transaction's status and its event's status
  change in two updates with a crash or another handler in between. The event
  must never get ahead of its payment, and (without crashes) never be left
  behind.
* **The signer may answer late, twice or never.**
* **Reorganisations.** A transaction or a conflicting spend that was seen may
  vanish again.
* **Messages** are lost, delayed and resent, and what one guard agreed to is
  forgotten when a turn ends. Connections and relays come and go under them.
* **Lists that are read one after the other**, while what is in them moves on:
  the pending, unsigned and signed transactions that a new one must not
  conflict with.
* **Timers** that have to fall into the right turn, and amounts that every guard
  has to compute to the same unit.

What makes a component correct:

| Component | Property | Where |
|---|---|---|
| TransactionProcessor, DatabaseHandler | a row lives the life of `TxLifecycle`; an event has one valid transaction of a type, is never ahead of its payment, never in progress with nothing in progress | `OneValidTx`, `ImplementsLifecycle`, `ImplementsTable`, `PaidBeforeReward`, `NoOrphan`, `SigningEnds` |
| TxAgreement | no two quorums take rival payments, so an event is paid once; each guard's table is one it can rely on; what is stored a quorum signed; agreements are forgotten in time; a proposal reaches everybody | `NoRivalQuorums`, `PaidOnce`, `ImplementsTables`, `StoredByQuorum`, `AgreementIsRecent`, `AgreementReached` |
| EventProcessor, ArbitraryProcessor, RequestVerifier | stale writes bring no event behind a payment it does not have, nor back before one it has | `RewardBehindPayment`, `PaidGoesOn` |
| EventReprocess | how many events a peer gets queued again within its cooldown | `CooldownHolds` |
| EventSynchronization | what is inserted a quorum completed; the event stays consistent; slots come back | `SyncedByPeers`, `OneHeldPayment`, `SyncedGoesOn`, `FinishedStays`, `SyncEnds` |
| MultiSigHandler | signers agree on commitments; who was not asked does not sign, nor who is simulated; guards know each other by key | `SignersAgree`, `SignedOnlyByRequested`, `SimulatedStayOut`, `ExchangeEndsSigned`, `KnownByKey`, `InTouch` |
| Dialer | it is the lossy channel the others count on; relays come back | `IsChannel`, `MessagesDecided`, `HandledOnce`, `OvertakenForCause`, `LostForCause`, `RelayWatched`, `RelayComesBack` |
| generation of transactions | nothing about to be spent is missed | `GenerationMissesNothing` |
| GuardTurn, jobs | timers fall into the right turn | theorems of `Calculations_proofs` |
| EventOrder, ColdStorage | amounts add up; generator and verifier agree | theorems of `Calculations_proofs` |
| revenue job | nothing is counted twice | `RevenueRecorded` |

`PROJECT.json` lists every such hazard at its line with the properties that
cover it, or why none does.

## 2. Plan

Most important first. The table's lifecycle is where money is paid twice or
never, so it is the core; the protocol that feeds it comes next.

1. `TransactionProcessor` with its abstract specification `TxLifecycle`: done,
   checked and proved.
2. `TxAgreement`, several guards, turns and messages: done, checked and proved.
3. `EventProcessor`, every writer of an event's or order's status, from stale
   reads: done, checked and proved together with `EventReprocess`, which
   extends it.
4. `EventSynchronization`: done, checked and proved.
5. `MultiSig`, the signing of a transaction: done, checked and proved. Its
   registration of peers is `Registration`: done, checked and proved. Left:
   several transactions with the time in which the caller's promise settles,
   which would replace the assumption `PromptSigner`.
6. `EventReprocess`: done, see 3.
7. `GuardTurn`: done, theorems on the arithmetic.
8. `EventOrder` and `ColdStorage`: done, theorems on the amounts.
9. `Dialer` with its abstract specification `MessageChannel`: done, checked
   and proved.
   `Revenue` and `Generation` (how a new transaction learns what it must not
   conflict with): done, proved.
10. `GuardTable`, what 1 and 2 have of a guard's table in common: done, both
    are proved to implement it. With it, one payment per event across the guards
    and on the chain (`PaidOnce`): done, checked and proved.
11. Left: the composition with 3 for several guards, and a set of guards that
    changes in the middle of an agreement, which `Registration` has for the peer
    ids only.

Modules with theorems use no RECURSIVE operator.

## 3. Modules

### TxTypes
The vocabulary: transaction types and statuses, statuses of events and orders,
and what a type means for its owner. `Owner` is the set of events and orders;
`OwnerOf` gives a transaction's. Ids are numbers because `insertEventOrOderTx`
compares them (`newTx.txId < tx.txId`).

### TxLifecycle
The abstract specification. Its only variable is the status of each row. A row
is approved, requested to be signed, signed or failed, sent, completed or
invalidated; failed ones are requested again or found on the chain; an approved
one may be replaced by a lower id; a row enters only when its owner has no
valid transaction of the type.

### GuardTable
The abstract specification that two modules share. Of each row it has no more
than what the agreement between guards depends on: not there, approved,
"advanced" (handed to the signer, whatever came after) or invalid. A row enters
only when its owner has no valid one of the type, or in the place of an approved
one with a higher id; an advanced row stays until it is given up, and an invalid
one stays invalid.

`TransactionProcessor` implements it through `Outline`, whose `RowOf` sums up
`status`; `TxAgreement` implements it for each guard (`TableOf(g)`). What the
agreement needs of a table and what a table does are thus the same formula, and
neither module takes it from the other on trust.

### TransactionProcessor
One guard. The variables and the code:

| Variable | Code |
|---|---|
| `status`, `lastCheck`, `failedInSign` | columns of TransactionEntity; "none" is no row |
| `ownerStatus`, `unexpectedFails` | columns of ConfirmedEventEntity and ArbitraryEntity |
| `snap`, `task` | the list a pass of `processTransactions` read, and its place between two awaits |
| `jobs` | `signTransaction` promises that have not settled |
| `candidates` | `TxAgreement.transactions`: what `setTxAsApproved` may be called for |
| `handler`, `sem` | running `setTxAsApproved` calls, and who holds `txSignSemaphore` |
| `chain`, `height` | the blockchains |

One action stands for a stretch of code between two awaits that matter: a
pass reads all rows (`StartPass`), begins on one by the status it was read with
(`ProcessApprovedTx` to `ProcessSentTx`), asks for the mempool (`CheckMempool`)
and the inputs (`ValidTx`, `InvalidTx`), and writes (`MarkSent`,
`MarkCompleted` then `AdvanceOwner`, `MarkInvalid` then `ReopenOwner`).
`RequestSign` is one step because its body runs under the semaphore; its write
and its call of the signer have no await that another writer could use.
`setTxAsApproved` is four steps: the unprotected read, the read under the
semaphore, the write, and the owner's status.

Abstractions. The data of a transaction is gone; verification of a request
against its order is the choice to agree or not. `approvalSemaphore` is not
modelled: it serialises `processAgreementResponse` but not
`processApprovalMessage`, so two calls may run at once, which `Handler` allows.
`lastStatusUpdate` and the clock are the choice whether the timeout has
passed (`TimeoutInSignTx` or `SkipTx`). A candidate is one from the moment its
owner is read. Statuses that events reach in other ways (rejected, spent,
timeout, waiting) are in `EventProcessor`, synchronisation is in
`EventSynchronization`, how a generation reads what it must not conflict with is
in `Generation` (`GenerateTx` is one that nothing interferes with), and no property here depends on their absence in the
runs except `NoOrphan` and `PaidBeforeReward`, which speak of this module's
writers only.

Timing that the guard relies on but does not enforce is an assumption with a
name and can be turned off: `PromptSigner` (a signing request settles before
its row is touched again: `txSignTimeout` is 300 s, the signer gives up after
about as long) and `PromptWrites` (no pass starts while an approval is between
its two writes, which are milliseconds apart).

### TxAgreement
All guards, and what they send each other.

| Variable | Code |
|---|---|
| `turn`, `gap`, `round` | `GuardTurn`; a proposal's timestamp is the number of its turn. The gap is the minute in which `guardTurn()` is -1; `round` is how far the holder's `roundJob` is |
| `toClear` | the timers of `clearTransactions` (the holder's) and `clearAgreedTransactions` (everybody's) that have to fire in this gap |
| `queue`, `transactions`, `approvals` | `transactionQueue`, `transactions`, `transactionApprovals`; 0 is no entry or no signature, any other number the timestamp |
| `agreed` | `eventAgreedTransactions`, `orderAgreedTransactions` and `agreedColdStorageTransactions`, whose keys are events, orders and chains |
| `tasks` | handlers that await something, by what they do next |
| `row` | the Transaction table of each guard: "advanced" is every valid status after approved |
| `confirmed` | the blockchain: the transactions that it confirmed for good |
| `msgs` | every message that was ever sent |
| `took` | history: the transactions a guard ever handed to its signer |

Messages are a growing set, so each may be lost, duplicated, delayed or
overtaken. `Arrives` is the one thing the transport does: `Communicator` drops
what is older than `UP_TIME_LENGTH`. `approvedTransactions` does nothing but
send an approval again, so an approval that was sent may simply arrive again;
the guard whose own approval it is resends it until the map is cleared.

A handler is one action up to its first await that matters, and one for each
stretch after that:

* proposing is `BroadcastRequest` (the message is sent) and
  `RegisterCandidate` (only then is it a candidate, with the own signature);
* a request is `HandleRequest` (whose turn it is), `CheckAgreed` (what was agreed to),
  and `AgreeToRequest` (after the awaits of `RequestVerifier`);
* a response is `HandleResponse` and `CountApprovals`, which runs under
  `approvalSemaphore`;
* an approval is `HandleApproval`, then for an unknown transaction `CheckAgreed`
  and `AgreeToApproval`, and `SetTxAsApproved` for everybody;
* `Reject` and `Abandon` are the early returns and the throws.

A handler may run on into the gap and into later turns, and a round may spill
into the gap. `InsertTx` is `insertEventOrOderTx` and `insertColdStorageTx` in
one, the replacement by a lower id included.

Abstractions. Verification of the data is the choice to abandon the handler. The
status of the event is not a variable: an event without a valid transaction is
pending. What happens to a row after it is stored is `Advance` and `Invalidate`,
where `TransactionProcessor` has the detail: both tables implement `GuardTable`,
that of `TransactionProcessor` under `PromptSigner`. A transaction that was given up is
not generated again: one of its inputs is gone.

A guard gives a transaction up (`Invalidate`) whenever the chain says at that moment
that it is not valid, as `setTransactionAsInvalid` does when `lastCheck` lies far
enough back, which for 0 is at once. Each guard decides for itself, and a fork may undo
what it saw. `Perishable` says which transactions may be displaced.

The chain accepts a transaction once a quorum of guards has
taken it to the signer (`Confirm`): who did not has no share in the signature.
`DeepForks` says whether it may still accept one that some guard has given up. If not, the
chain's verdict on a conflict is final. If so, `PaidOnce` has an exception
(`BroughtBack`), because the guards may have paid the event otherwise meanwhile.
`MultiSig` proves that of the Ergo signer (`SignersWereAsked`); of the TSS
process it is assumed. `Submitted` says which transactions the chain's
answer is followed for. The set of guards is fixed.
A transaction generated in a turn after the one the round belongs to is not
represented.

### EventSynchronization
One guard that missed payments, and the guards it asks.

| Variable | Code |
|---|---|
| `queue` | `eventQueue`; how many copies of an event are in it (its order does not matter to any property) |
| `active`, `responses` | the keys of `activeSyncMap`, and the responses of each entry by the guard that gave them |
| `job` | `eventSyncJob` between two awaits: in the loop of `processSyncQueue`, verifying the event it popped, about to send the batch |
| `handler`, `sem` | running `processSyncResponse` calls, and who holds the semaphore |
| `processing` | the event that `processPaymentEvent` of the round has read as pending and not yet let go |
| `status`, `row` | the event and its payments in this guard's tables |
| `completed` | what each peer's table says is the completed payment of an event |
| `requests`, `answers` | every message that was ever sent |
| `synced` | history: the payments that synchronisation inserted |

The job is `PopEvent`, then `ActivateSync`, `SkipEvent` or `RejectEvent` after
the awaits of its verification, `EndSyncQueue` and `SendSyncBatch`. A response
is `HandleResponse` up to its verification, which runs outside the semaphore,
then `RejectResponse` or `CountResponse`, which reads the map again; the count
is followed by `setTxAsApproved` in three steps, the read (`LookUpTx`), the
insertion (`InsertCompletedTx`) and the event's status (`FinishSync`).
`TimeoutActiveSync` takes the semaphore too. Which guards a batch asks is a
choice among those that have not answered.

The rest of the guard is what it does to the same event and rows: agreement
(`Approve`), completion and invalidation of a payment, the timeout of pending
events and rejections (`LeavePending`), requeueing, reprocessing (`Requeue`),
and the round's `processPaymentEvent`, whose last write has no condition
(`BeginPayment`, `EndPayment`, `FailPayment`). "aside" stands for rejected,
timeout and payment-waiting; "pendingReward" for the reward stage up to the
completed event, since a pending, agreed or failed reward is the same to this
module. Everything but `completed`, `status` and `row` is lost at a crash,
which may also come between the two writes of an approval (`CrashInApproval`).

Two guards of actions are facts about other components. An event that this guard holds a
payment of was verified before, and verification is deterministic, so
`RejectEvent` does not apply to it. A proposal is minutes older than any
peer's knowledge that a payment is confirmed, so `Approvable` wants no peer to
have completed one.

`PromptPayment` is an assumption on timing with a name: an event is not
approved, paid or synchronised in the seconds in which the round generates a
payment for it. With it turned off TLC finds `SyncedGoesOn`, `OneHeldPayment`
and `FinishedStays` violated, each by `FailPayment` writing over a status that
the event has got meanwhile; `SyncedByPeers` and `PaidBeforeReward` do not need it.

### MultiSig
All guards, and the signing of one Ergo transaction.

| Variable | Code |
|---|---|
| `entry` | `transactions.get(txId)` of each guard: its secret, the commitments it received, the best partly signed transaction |
| `secrets` | how many secrets a guard has made; a commitment is the number of its secret |
| `timers` | `setTimeout` calls of `delayedGenerateSign` that have not fired |
| `outcome` | what became of the last `sign()` call: its promise |
| `msgs` | commitments and partly signed transactions in flight |
| `disturbed` | history: whether an entry was lost, a commitment late, a chain call failed |

Every handler, the delayed sign and the cleanup hold the semaphore from their
first to their last step, so each is one action: `Sign`, `HandleCommitment`,
`DelayedGenerateSign`, `HandleSign` or `RefuseSign`, `Cleanup`. `generateSign`
and `processResolve`, which two of them call, are the operators
`GeneratedSigns`, `Announced` and `ProcessResolve`. Sending is asynchronous, but
the messages leave in the step that makes them.

The Dialer retries only a stream that failed to open, so a message is handled
at most once; one that is lost stays in `msgs` for ever.

Cryptography is reduced to what the protocol can get wrong. The first signature
binds a transaction to one commitment of each of its `requiredSigner` signers
(`bound`), and simulates everybody else. It stays `sound` as long as whoever
continues it is one of them, uses the secret it is bound to, and has the
bound commitments of those still to come. What the prover does in a part that
is simulated already (fails, or spoils the transaction) is its own choice.
`verifySignedPayload` is `Agrees`. The commitments that come along with a transaction
are never stored: `handleSign` verifies their signatures over `{txId,
commitment}`, but `sendMessage` signed them with `index` and `id` in the payload.

`AllRegistered` says whether the guards know each other's peer ids. If not,
`sendMessage` broadcasts what was meant for the signers. How they get to know
them is `Registration`. Calls of `sign()` for a transaction that is being signed
replace its promise and nothing else, and are left out. So is what still comes to a
guard that has the signed transaction (`Open`): it makes an entry without a
transaction, which is removed in time.

### Registration
How the guards' signing modules learn each other's peer ids. A guard stands for
its secret and for its peer id.

| Variable | Code |
|---|---|
| `config` | which list of public keys is in the config box |
| `peers`, `known`, `unapproved` | `pub`, `id` and `unapproved` of `MultiSigHandler.peers` |
| `index`, `nonce` | the fields of that name |
| `msgs` | registrations and approvals in flight |
| `updates`, `faults`, `cut` | bounds, and the history of pairs that lost a message |

`Update` is `GuardPkHandler.update`, at start and by `configUpdateJob`, with
`handlePublicKeysChange` and `sendRegister` in one step: from the write of
`peers` to the signing of the message nothing is awaited. It fails for a guard that is not in the
list. `HandleRegister`, `HandleApprove` and `Ignore` are what `handleMessage`
does with a message, by whether `verifyIndex` and the signature pass. Nonces are
random strings in the code; the n-th of a guard is n here and the challenge
another guard draws for it is -n.

### MessageChannel and Dialer
`MessageChannel` is the abstract specification of the transport: a message to an
addressee is unsent, under way, received or lost, in no order, and is received
once at most. The messages of `TxAgreement`, `EventSynchronization` and
`MultiSig` are this or less. (The first two let a message arrive twice, because
the guards send again.)

`Dialer` is one guard's Dialer and the peers it talks to.

| Variable | Code |
|---|---|
| `node` | what `startDialer` made of `_node`: it swallows its errors |
| `connected`, `book` | libp2p's connections and peer store |
| `removing` | `removePeerFromAddressBook` calls that have not come to their delete |
| `watch`, `deaf` | the intervals of `tryReconnectingRelay`, by whether a listener will clear them |
| `preparing` | `sendMessage` calls that await the PeerId |
| `queue`, `current`, `timers` | `_messageQueue`, the message `processMessageQueue` is at, the timers of `retrySendingMessage` |
| `open`, `opened`, `piped` | streams, and those that a source was piped to |
| `found` | the stream `getOpenStreamAndConnection` returned, until it is pushed into |
| `route` | the stream `routesInfo` remembers the source of |
| `wire`, `inbox` | what a stream carries, what a listener has read from it |
| `subs`, `calls` | `_subscribedChannels`, how often a callback was called with a message |
| `posted`, `cut`, `breaks` | history (the order of sending, what streams that broke were to carry) and bound |

`processMessageQueue` is `TakeMessage`, then `ReuseStream`, or `DialPeer` and
`OpenStream`, and `PushFound`; or `RetryOrDrop`. Everything else may happen between
them, so the stream that was found may be gone when it is pushed into. `PushInto` is
`getStreamSource`: the source it remembers is used only if it was made for this very
stream, and a stream takes no second source, whose content would go nowhere. libp2p is external: it
may connect, disconnect, discover and reset (`Connect`, `Disconnect`,
`Discover`, `CloseStream`), carries what was pushed in order, and loses it with
the stream. What is pushed into a stream that is gone stays with it until it is lost
or, which is more than libp2p promises, read. What a message says is left out, and so are the file of the peer id
and the addresses. Callbacks are told apart as the code does, by name and url: that two
functions of one name are taken for one cannot be seen.

### EventProcessor and EventReprocess
One guard's tables of events and orders, and every job that writes a status.

| Variable | Code |
|---|---|
| `status`, `expired`, `fails`, `spent` | columns of ConfirmedEventEntity and ArbitraryEntity and of the trigger; the clock is whether `firstTry` is older than the timeout |
| `valid`, `paid` | which rows have a valid transaction of a type, and a completed one |
| `candidates` | transactions in TxAgreement, by row and type |
| `list`, `task` | what `processConfirmedEvents` or `processArbitraryOrders` read, and the row it is at |
| `overdue`, `waiting` | what the timeout job and the requeue job read and have not come to |
| `verifier` | running `verifyEventTransactionRequest` calls with the status they read |
| `pass` | a completed or invalid transaction whose row is still to be written |
| `handler`, `recent` | reprocess requests being handled, and those in the table within the cooldown |
| `again`, `lost` | history: the events queued again for a peer within the cooldown, and those of them whose request was never recorded |

Each job reads its rows once (`ReadConfirmedEvents`, `ReadLeftoverEvents`,
`ReadWaitingEvents` and their orders' twins) and writes them one by one without
a condition: `SetStatus` writes whatever the row has become. The round goes
`StartProcessing`, `VerifiedEvent` or `RejectEvent`, then `Propose`,
`WaitForAssets` or `GiveUp`. A request of another guard is `ReadRequested`, an
await, then `RejectRequested`, `CheckRequested` or `RefuseRequested` by the
status that was read. A reprocess request is `ReadReprocessed`, for peers
`ReadRecent`, then `WriteReprocessed` and `InsertRequest`, or `AbandonRequest` where a
call throws: after `WriteReprocessed` the event is queued and nothing is recorded. `Approve`, `Complete`
with `AdvanceRow`, and `Invalidate` with `ReopenRow` are `TransactionProcessor`
reduced to what an event sees of it.

Answers of the chains (`verifyEvent`, confirmations, whether there are assets)
are choices; an event is `Genuine` if `verifyEvent` never fails for it here.
`PromptWork` is an assumption on timing with a name: no job, request or
candidate that read a row before its payment was approved is still at work when
that payment has its confirmations, which takes blocks where the others take
seconds. `EventOrder` is what the generators compute.

### Generation
`TransactionProcessor` with one generator beside it. `gen` is a running
generation, the list it reads next and what it has seen; `broadcast` the
transaction that `processAgreementQueue` has popped from the queue and not yet
registered, which is in no list; `there` the history the property speaks of.
`ReadPending`, `ReadUnsigned` and `ReadSigned` are `getChainPendingTransactions`
and the two queries, in the order in which all four generators make them.

### Revenue
The job of `jobs/revenue.ts`: `ReadUnsaved`, `NextEvent`, `InsertRevenue` for
each asset of each box that is paid to the guards, `EndEvent`, and `Interrupt`
for a crash or a call that throws. `stored` counts how often an asset is in the
Revenue table.

### EventOrder, ColdStorage, GuardTurn
Pure functions, translated as operators. `EventOrder` has the order of a payment
and of a reward, box by box, and what `verifyEventTransaction` compares;
`ColdStorage` the generator's choice of amounts and the verifier's conditions one
by one; `GuardTurn` the turn at a time in milliseconds and the delays that
`runProcessors.ts` gives its timers. Division is `\div`, on amounts that are not
negative.

## 4. What TLC checks

The runs from competing to late_signer use module `MCTransactionProcessor`,
those from rivals to reached `MCTxAgreement`, synchronized
`MCEventSynchronization`, signed `MCMultiSig`, dialer `MCDialer`, events
`MCEventReprocess` and registered `MCRegistration`.

### TransactionProcessor

`CHECK_DEADLOCK FALSE` is set because an instance may really stop: all
transactions completed, the height at its bound.

| Run | Instance | Property | Shows |
|---|---|---|---|
| competing | two payments of one event | `OneValidTx`, `ImplementsLifecycle` | stale passes, signer answers, approvals and replacement by a lower id never break a row's life |
| pipeline | payment and reward, two approval calls, one crash | `TypeOK`, `IInv`, `PaidBeforeReward`, `NoOrphan` | the proof's invariant holds, the check under the semaphore suffices, the event is never ahead of a confirmed payment, and in progress only with something in progress |
| signer_timeout | one manual transaction, two crashes, three answers that may be late or lost, fairness | `SigningEnds` | a transaction never stays with the signer |
| late_signer | two payments, signer not prompt | `OneValidTx` violated | finding 1 |

Bounds. Two transactions are enough to compete, to replace one another and to
pass an owner from payment to reward; the properties relate at most two rows
and one owner. `RequiredConf` 1 with `MaxHeight` 2 has an unconfirmed, a
confirmed and a reorganised block; it starts at `RequiredConf`, so that a
`lastCheck` of 0 is as old as it is on a real chain. Two approval calls are in
pipeline only, where they store the payment and the reward; two calls for rival
payments are the proof's. `MaxJobs` 2 or 3 lets an old request
answer beside a new one. Orders and cold storage are in no run of this module: their
transactions take the same actions, and the theorems of section 5 hold for them too. `FailLimit` 1 (the limit of orders) reaches the limit,
2 (of events) allows one more round. Handlers are interchangeable, hence the
symmetry of pipeline; the temporal run uses none.

Fairness (`FairSpec`). `transactionJob` reschedules itself after every pass, so
passes start and their steps are taken (weak fairness). A row in sign is in
every pass, and one of them finds the timeout passed: strong fairness of
`TimeoutInSignTx`, since each pass may also find it too early. Handing over to
the signer waits for a semaphore others hold, strong fairness again: the
semaphore is a FIFO queue. Holders of the semaphore give it back, and promises
settle. Nothing is assumed of approvals starting, of the chain, or of crashes.

### TxAgreement

`CHECK_DEADLOCK FALSE` is set because the last turn never ends.

| Run | Instance | Property | Shows |
|---|---|---|---|
| rivals | two turns, whose holders generate two payments of one event | `TypeOK`, `NoRivalQuorums` | agreements are forgotten between the turns and still two quorums take both only if a guard in both gave one up |
| | | `PaidOnce` | the chain confirms one of them, and a quorum of guards has it in the table as valid from then on, unless a fork brought back what a guard had given up |
| | | `ImplementsTables` | each guard's table is a `GuardTable`, however late a guard stores what it once agreed to |
| faults | one payment, two turns up to the beginning of the third, one crash or error, three signatures needed | `StoredByQuorum`, `AgreementIsRecent` | nobody stores what a quorum did not sign in one and the same proposal; what a guard agreed to holds it for this turn and the next at most |
| reached | one payment, fairness | `AgreementReached` | a guard that missed the request stores the transaction all the same |

Bounds. Three guards, of which two make a quorum, are the smallest instance in
which quorums need not be the same; in faults all three must sign, so that a
signature of an older proposal would be missed. An agreement that is made in a
turn is refused or forgotten in the next, so two turns are enough for rivals
and the beginning of a third for an agreement to outlive its time: an agreement
bears the turn it was made in, hence no step within the third turn could make
one too old. The constraint `BeforeLastTurn` of faults stops there (TLC still
checks the states in which the third turn begins); what a later turn may store
is the proof's. `MaxTasks` 1 lets one handler at a
time be between two awaits, in all guards together, while everything else
(turns, clears, tables, crashes) goes on; a wider bound is out of TLC's reach and
left to the proof, which has none. `Perishable` and `MaxFaults` bound the
transactions that may be displaced (the first of the two in rivals) and the crashes.
`DeepForks` is TRUE in rivals; with FALSE the same instance passes, too, without the
exception of `PaidOnce`. The exception is needed: with forks TLC finds both payments confirmed
after 36 states, in which a guard takes the first to its signer, gives it up, agrees to
the second and takes it, and the fork brings the first back. `Submitted` is both payments in rivals
and empty in the others, whose properties do not look at `confirmed`. No symmetry is used: the guards take
turns.

Fairness (`FairSpec`). The round generates what is pending and handlers go on (weak
fairness). A guard may be busy with another message whenever one arrives,
hence strong fairness of receiving what is resent: `resendTransactionRequests`
and `resendApprovedTransactions` run on an interval throughout the turn, and a response is sent again
for each request. `AgreementReached` is about a turn that lasts: in the code it
ends after three minutes, and what was not agreed by then is proposed again.

### EventSynchronization

Deadlock is checked: the job goes round even when there is nothing to do, and
no call may keep it from doing so.

| Run | Instance | Property | Shows |
|---|---|---|---|
| synchronized | one event, two payments of which the chain takes one, two peers, one crash, fairness | `TypeOK`, `SyncedByPeers`, `PaidBeforeReward` | what is inserted was completed by as many peers as must sign; nothing but a completed payment brings the event to its reward |
| | | `SyncedGoesOn`, `OneHeldPayment`, `FinishedStays` | as long as nothing crashes, a synchronised payment is the only one the event has, moves it on, and never moves it back |
| | | `SyncEnds` | every sync gives its slot back |

Bounds. Two peers that must both answer are the smallest instance in which
answers may be counted twice or be of different rounds. Two calls of
`processSyncResponse` overlap; more would wait for the same semaphore. One copy
in the queue is enough for duplicates, because the event may be added again
while its first copy is active. `ParallelSyncLimit` 1 makes one sync fill the
limit. One of two payments is `OnChain`; the other may be approved and given
up here.

Fairness (`FairSpec`). The round leaves an event in the end (weak fairness).
`timeoutActiveSyncs` runs on a timer, and a call that holds the semaphore goes
on; both are strong fairness because the semaphore serves in the order of
arrival and others may hold it in between. Nothing is assumed of peers,
messages or the chain: `SyncEnds` holds when nobody answers.

### MultiSig

`CHECK_DEADLOCK FALSE` is set because an exchange ends.

| Run | Instance | Property | Shows |
|---|---|---|---|
| signed | three guards, two must sign; one of them may time out, crash or miss the chain once, and be asked again | `TypeOK`, `SignersAgree` | signatures are made with the commitments the transaction is bound to, also when a guard forgot its secret and made another |
| | | `SimulatedStayOut` | an unfinished transaction gets to its signers only |
| | | `ExchangeEndsSigned` | if nothing is lost or late, the first signatures that guards make at the same time do not block each other |

Bounds. Two of three signers is the smallest instance in which the choice of
signers differs between guards and one of them is simulated. One guard may fail and be
asked again after it has forgotten, so that its old and new secret meet; the
other two are interchangeable, hence the symmetry. The properties hold as well with
all three required (`RequiredSigner = 3`) and with two faults, which are not among the runs. `ExchangeEndsSigned` speaks of states in
which every message was handled and no timer is left, so it needs no fairness.

### Dialer

`CHECK_DEADLOCK FALSE` is set because the guard may end with a dialer that never
started and nothing left to send.

| Run | Instance | Property | Shows |
|---|---|---|---|
| dialer | two guards and a relay, a message to one guard and a broadcast, one retry, one connection or stream that breaks, fairness | `TypeOK`, `HandledOnce`, `OvertakenForCause` | a retry never doubles a message, a subscription made twice is one, and messages keep their order unless a retry or a new stream explains it |
| | | `LostForCause` | a message is lost only with the stream that was to carry it or after its last retry, never because it was pushed into a source whose stream was replaced, or because a stream got a second source |
| | | `IsChannel`, `MessagesDecided` | the Dialer implements `MessageChannel`, with `FateOf` as the refinement mapping, and decides the fate of every message, even when `startDialer` failed |
| | | `RelayWatched`, `RelayComesBack` | a relay that is lost is added to the address book again, in spite of the removal that races with the interval, and the interval ends when the relay is back |

Bounds. One message to one guard and a broadcast are the smallest pair that may
overtake one another at one guard while a second guard holds the loop up.
`MaxRetries` 1 is reached and exceeded. One break is enough to lose a stream, a
connection or a relay at any moment; a retry, a stream opened anew and a
message in flight then meet. `MCNext` keeps the behaviours apart in which the
relay comes and goes from those in which messages are sent, which share nothing
but `node`, and lets the second guard, once it has dialled us, keep its connection
and subscribe to nothing. The same instance without these restrictions (2 million states) has the same result for all
that is not liveness, whose graph is then too large.

Fairness (`Fairness`) is weak: `startDialer` returns, promises settle (a dial has a
timeout of its own), timers and intervals fire, and what is in a stream is read or lost.
Nothing is assumed of libp2p's connections.

### EventProcessor and EventReprocess

`CHECK_DEADLOCK FALSE` is set because a row may be done with.

| Run | Instance | Property | Shows |
|---|---|---|---|
| events | an event paid on another chain, one paid on Ergo and an order, one of them at a time; one verification, two reprocess requests of one peer; crashes and calls that throw | `AllTypeOK`, `RewardBehindPayment` | no job, whatever stale row it writes, brings an event to its reward or its end before its payment is confirmed |
| | | `PaidGoesOn` | an event that was paid is not proposed, rejected or timed out again |
| | | `CooldownHolds` | requests that overlap may all pass the cooldown, and so may one after each whose record was lost; no other may |

Bounds. No action relates two rows except that a list is read at once, so one row
at a time (`MCNext`) goes through all of them; the three rows differ in what
their types allow. No box is spent before its row is there, for nothing reads
`spent` of an absent row: it is as if the box were spent right after. `MaxWork` 2 lets any two jobs, verifications or requests hold
what they read at the same time, beside the pass of the transactions. `FailLimit` 1 is the limit at which a row stops.
`MaxOverlap` 2 bounds these and the requests together: the two handlers, which are
interchangeable, may both be at work, or one of them beside a job. `MaxLost` 1 lets one
record of a request be lost within a cooldown. So one event is queued again and its record is lost, and then two more by
requests that overlap: the bound of `CooldownHolds` is reached. Crashes are not
bounded, except for that loss. With `PromptWork = FALSE` TLC finds `PaidGoesOn` violated: the round
reads the event as pending, another guard's payment of it is approved and
confirmed, and then the round proposes a second one, or the timeout job writes
over the status. `RewardBehindPayment` does not need the assumption.

### Registration

`CHECK_DEADLOCK FALSE` is set because the updates are bounded.

| Run | Instance | Property | Shows |
|---|---|---|---|
| registered | three guards, of which the third takes the place of the second in the list; one guard updates twice; a crash or a lost message | `KnownByKey`, `InTouch` | an id is kept beside its owner's key only, and two guards with one list know each other when their messages are through, whoever registered first |

Bounds. A list of two with a replacement is the smallest in which messages of an
old list meet the new one; the guard that updates twice may do so before, between
and after the other's registration. Two guards that change places, three
updates each (1.7 million states), pass as well: there `InTouch` says nothing of a guard whose cached index has
become wrong.

### Findings

1. `late_signer`: `updateWithSignedTx` has no condition on the status, so a
   signature that arrives after the pass has timed the transaction out and
   invalidated it brings it back, beside the transaction that replaced it;
   `insertEventOrOderTx` asserts that this cannot be. `setTxAsSignFailed` has
   the condition.

Also established while modelling. `resendTransactionRequests` resends every
candidate: a request whose verification ends after the maps were cleared leaves
one that the guard resends in its own turn as if it had proposed it, and the
responses find no approvals and throw (`HandleResponse` asks for approvals). It is not so that all guards that store a
payment of an event store the same one: an approval that is lost leaves a guard
with a table that the next turn fills otherwise. What holds is
`NoRivalQuorums`: a guard that has one does not take the other, and two quorums
share a guard. `NoOrphan` cannot hold across a crash. Nor can it hold of
an owner with transactions that compete (`Uncontested` excepts it):
`setTxAsApproved` writes the status of the owner also when `insertTx` ignored the
transaction for an older one, which a pass may have invalidated, and its owner reopened,
in between; the shortest way there has 21 states. A crash
between `MarkCompleted` and `AdvanceOwner`, or `MarkInvalid` and `ReopenOwner`,
leaves the event in progress for ever, since no job looks at completed or
invalid transactions again.

`setTransactionAsInvalid` gives a transaction up "if enough blocks past", but it
counts the blocks from `lastCheck` (0 when the transaction was never signed), not
from the block that spent its inputs, so a conflict that a reorganisation takes
back is enough. Nothing undoes it when the transaction is confirmed after all: then
an event may be paid twice (`BroughtBack`), the one way in which the agreement lets it. The path of `processApprovalMessage` for an unknown transaction
enters the agreed map only, so an approval that arrives again before the
transaction is stored throws `ImpossibleBehavior`.

The `ImpossibleBehavior` of the synchronisation's `setTxAsApproved`, a payment
that is in the table already, is reached by a copy of the event that was queued
before the first sync ended, by a crash between that function's two writes, and
by an own row of the payment that is invalid. In the last two cases the event
cannot be synchronised any more. A copy of a finished event takes a slot of
`parallelSyncLimit` until it times out. A crash in an approval may leave a valid
row in a pending event, beside which a synchronisation stores another; this is
why `OneHeldPayment` speaks of runs without a crash.

`clearAgreedTransactions` does not clear `orderAgreedTransactions`, and nothing
else removes an entry (TxAgreement.ts:687-697, under a comment that speaks of
all agreed transactions). A guard that once agreed to a transaction of an order
refuses every other one of that order until it restarts; `AgreementIsRecent`
therefore speaks of events and chains only, whatever orders there are beside them.

`processSyncResponse` counts responses with `countBy` on the transaction objects
(EventSynchronization.ts:391), whose string is the same for all of them. It
counts guards that answered, not guards that answered with one and the same
payment, although the log speaks of a majority that responded "with transaction
[...]". Two confirmed payments of one event are what the agreement is there to
prevent; the count does not notice if it failed, which is why `SyncedByPeers`
wants `OneOnChain`.

Of `MultiSig`, by variations of the run. With three required signers and a
commitment that takes longer than `multiSigFirstSignDelay`, `ExchangeEndsSigned`
does not hold: the first signature is bound to two commitments, the guard that missed one
cannot continue, and nothing is sent again until all time out. It would hold if
`handleSign` stored the commitments that come along, as it means to. With
`AllRegistered` FALSE, neither `SimulatedStayOut` nor `ExchangeEndsSigned`
holds: the broadcast reaches simulated guards, and the delayed sign of one,
which unlike `handleSign` does not look at `simulated`, continues the
transaction; the exchange can end with all three promises rejected. The same happens after a
failed chain call has left a complete transaction in the queue.

Of `Dialer`. `getInstance` hands out a dialer whether `startDialer` succeeded or
not, and `sendMessage` to a guard then fills the queue, retries and drops
(`MessagesDecided` covers it), while a broadcast rejects. A relay that
disconnects before `_node` is set is watched by an interval that nothing ever
clears (`deaf`), because the listener that would is registered with a node that
is not there. A message that is pushed into a stream which breaks afterwards, or
broke while the loop was awaiting, is
lost without a retry; the callers resend what matters.

Of `EventReprocess`. With overlapping requests the cooldown lets as many through
as are handled at once. The request is recorded after the event is queued again, so
when the insert fails or the guard dies before it the cooldown does not know of that
event. And the status that was read decides what is written, so
that a request may bring an event back to pending that was approved meanwhile.

Of `Registration`. `getIndex` caches the index for ever, so a guard whose place
in the list changes goes on signing with the old one and is not heard by anybody
until it restarts, under a function whose comment says "Apply required changes
after changes in public keys" (MultiSigHandler.ts:897); `InTouch` speaks of
guards that are in place (`InPlace`). `configUpdateJob` makes all guards forget
each other's ids at every interval, whether or not the list has changed; until
the answers are there `sendMessage` broadcasts. `TxAgreement` takes the public
keys once, when it is constructed.

Of `Generation`. While `processAgreementQueue` broadcasts a transaction it is in
neither list (TxAgreement.ts:137-148), so a generation that reads at that
moment does not see it. A transaction that goes back from signed or sent to failed between two
reads may be missed too. Both are what `there` excludes.

Of `Revenue`. An event at which the job is interrupted after its first insert
keeps part of its revenue, and no later job completes it. An event whose
transaction pays nothing to the guards is read again by every job.

Of the pure modules. A cold storage order is accepted by an equally configured
guard only if no low threshold is 0, the native thresholds are at least
`minNative` apart and `minNative` is at most `maxNativeTransfer`; nothing checks
a configuration for this. An event whose amount does not exceed its fees has a
payment that is not positive; what keeps it out is `verifyEvent` of the chain library.
`roundJob` sets its timer as its last step, so if the first read of
`processConfirmedEvents` rejects, this guard has no round until it restarts; an
agreement job whose timer fires in the gap is not set again before the next
round, which is what `QueueJobInUpTime` delimits.

## 5. What is proved

`TransactionProcessor_proofs` proves for every value of the constants (any
finite set of transactions, any owners, handlers, confirmations, crashes and
bounds):

| Theorem | States | Assumes |
|---|---|---|
| `TypeCorrect` | `Spec => []TypeOK` | the assumptions on the constants |
| `InductiveInvariant` | `Spec => []IInv` | `PromptSigner` |
| `OneValid` | `Spec => []OneValidTx` | `PromptSigner` |
| `Refinement` | `Spec => ImplementsLifecycle` | `PromptSigner` |
| `TableAsAgreed` | `Spec => ImplementsTable` | `PromptSigner` |
| `PaidFirst` | `Spec => []PaidBeforeReward` | `PromptSigner` |
| `NoneOrphaned` | `Spec => []NoOrphan` | `PromptSigner`, `PromptWrites` |
| `GenerationMissesNothing` | `GenSpec => []NothingMissed`: what was pending or active when a generation began to read, and only went on since, is among what it must not conflict with | `TypeOK` of the module only |

`PromptSigner` cannot be dropped: `late_signer` is the counterexample. The
assumptions on the constants (`TxAssumption`, `ProcessorAssumption`) are
evaluated by every run.

`TxAgreement_proofs` proves for any guards, turns, transactions, running
handlers, transactions that are given up, forks, crashes and errors:

| Theorem | States | Assumes |
|---|---|---|
| `NoDoublePayment` | `Spec => []NoRivalQuorums` | a quorum is more than half of the guards |
| `PaidOnceForAll` | `Spec => []PaidOnce`, which excepts what a guard gave up and a fork brought back if `DeepForks` is TRUE, and nothing if it is FALSE | a quorum is more than half of the guards |
| `TablesKept` | `Spec => ImplementsTables` | the assumptions on the constants |
| `StoredWithQuorum` | `Spec => []StoredByQuorum` | the assumptions on the constants |
| `TypeCorrect` | `Spec => []TypeOK` | the assumptions on the constants |
| `AgreementsForgotten` | `Spec => []AgreementIsRecent` | the assumptions on the constants |

The assumption on the quorum, `2 * RequiredSign > Cardinality(Guard)` in
`AgreementAssumption`, is about the guard configuration on the chain, which
`GuardPkHandler` reads; no code checks it. No theorem assumes that what a guard gives up
is gone for good: `DeepForks` may have either value in all of them.

`EventSynchronization_proofs` proves for any events, payments, peers, running
calls, limits and crashes:

| Theorem | States | Assumes |
|---|---|---|
| `TypeCorrect` | `Spec => []TypeOK` | the assumptions on the constants |
| `PaidFirst` | `Spec => []PaidBeforeReward` | the assumptions on the constants |
| `SyncedByQuorum` | `Spec => []SyncedByPeers` | `OneOnChain` |
| `SynchronisedConsistently` | `Spec => [](OneHeldPayment /\ SyncedGoesOn) /\ FinishedStays` | `OneOnChain`, `PromptPayment` |
| `SyncedGoOn`, `FinishedForGood` | the second and the third of these by themselves | `OneOnChain`, `PromptPayment` |

`OneOnChain`, that the chain confirms one payment of an event, is what
`PaidOnceForAll` proves of the guards together, except for what a deep fork brings back; its second part, that a
quorum of them goes on having it, is what lets a sync count `requiredApproval`
answers. With a chain that takes both
payments TLC finds `SyncedByPeers` violated, by two answers with different
payments that are counted together.

`MultiSig_proofs` proves for any guards, required signers, timeouts, crashes and
failed chain calls:

| Theorem | States | Assumes |
|---|---|---|
| `TypeCorrect` | `Spec => []TypeOK` | the assumptions on the constants |
| `SignersSoundly` | `Spec => []SignersAgree` | the assumptions on the constants |
| `SignersWereAsked` | `Spec => []SignedOnlyByRequested` | the assumptions on the constants |
| `SimulatedNeverSign` | `Spec => []SimulatedStayOut` | `AllRegistered` |
| `ExchangeEnds` | `Spec => []ExchangeEndsSigned` | `AllRegistered`, at least two required signers and as many guards |

All three assumptions of `ExchangeEnds` are needed. A single required signer
that is the only guard waits for a commitment of another; without the peer ids a
simulated guard spoils what is broadcast to it. That the
markers `NoEntry` and `NoSign` are no entry and no transaction is
`NoEntryAssumption`, which the runs evaluate.

`Dialer_proofs` proves for any messages, listeners, streams, relays, retries and
breaks, of `Spec` and not only of the `MCSpec` that the run restricts it to:

| Theorem | States | Assumes |
|---|---|---|
| `TypeCorrect` | `Spec => []TypeOK` | the assumptions on the constants |
| `CallbacksRunOnce` | `Spec => []HandledOnce` | the assumptions on the constants |
| `ImplementsChannel` | `Spec => IsChannel` | the assumptions on the constants |
| `OvertakingForCause` | `Spec => []OvertakenForCause` | the assumptions on the constants |
| `LossForCause` | `Spec => LostForCause` | the assumptions on the constants |
| `LostRelaysWatched` | `Spec => []RelayWatched` | the assumptions on the constants |

`EventReprocess_proofs` proves for any events, orders, verifications, requests,
peers, limits and bounds, with crashes anywhere:

| Theorem | States | Assumes |
|---|---|---|
| `TablesTyped` | `Spec => []AllTypeOK` | the assumptions on the constants |
| `RewardsBehindPayments` | `Spec => []RewardBehindPayment` | the assumptions on the constants |
| `PaidEventsGoOn` | `Spec => []PaidGoesOn` | `PromptWork` |
| `CooldownKept` | `Spec => []CooldownHolds` | the assumptions on the constants |

`Registration_proofs` proves for any guards, lists of public keys, updates,
crashes and lost messages:

| Theorem | States | Assumes |
|---|---|---|
| `IdsBelongToKeys` | `Spec => []KnownByKey` | the assumptions on the constants |
| `RegistrationIntroduces` | `Spec => []InTouch` | the assumptions on the constants |

`Calculations_proofs` proves for any time, any number of guards and each of them:

| Theorem | States |
|---|---|
| `RoundStartsInOwnTurn` | a round starts in its guard's turn, if its timer is less than 119 s late |
| `OneRoundATurn` | a round that ends in its turn is not followed by another in the same turn |
| `ResetInGap` | the agreements are reset in the gap, if the timer is less than 58 s late |
| `QueueJobInUpTime` | the agreement jobs go on from the second to the last second of a turn's up time, and only then |
| `ClearedInGap` | what a round generated is cleared in the gap, if the round began on time and the timer is less than 58 s late |

It also proves, for any amounts, fees, shares and balances:

| Theorem | States | Assumes |
|---|---|---|
| `AmountConserved` | user, watchers, guards and network fee get what was locked, and rounding costs the watchers less than one unit each | shares of at most 100 %, at least one watcher |
| `NoEmptyToken` | no reward box has a token of amount 0 | a positive network fee |
| `OnePermitEach` | two permits of a watcher are two places in the list of merged commitments, which the code does not deduplicate; a watcher that is there once is rewarded at most once | |
| `GeneratedIsAccepted` | what the cold storage generator proposes its verifier accepts | three conditions on the thresholds, see above |
| `TwoTransfersLeaveEnough` | two transfers in flight move different tokens, leave each at or above its low threshold; the native balance is left at most `maxNativeTransfer` below it if it was over the high one (`NativeRequired`), and otherwise loses at most twice `maxNativeTransfer` | both were accepted, the second knowing the first |
| `RevenueRecorded` | `Spec => [](CountedOnce /\ StoredWholly)` of `Revenue` | the types of the boxes |

### The argument for TransactionProcessor

`OneValidTx` is not inductive: it is kept only because nobody
acts on a row that has become something else. `IInv` adds what each piece of
work in progress still knows: an outstanding request belongs to a row in sign
(`JobInv`); a row read with status s is still s, or one of the few things it
may have become (`SnapInv`); the row the pass works on is as it read or left it
(`TaskInv`); the handler in the semaphore still sees the rows its decision
is based on (`HandlerInv`). Under `IInv` every step is a step of `TxLifecycle`
or leaves the table alone (lemma `Simulation`), and every step of `TxLifecycle`
keeps one valid transaction (`LifecycleKeepsOneValid`). What remains is that
the work invariants are kept, proved for each group of actions. The refinement
is the same lemma. `TableAsAgreed` follows from it: a step of `TxLifecycle` is
one of `GuardTable` under `RowOf`, or moves a row within "advanced"
(`LifeIsOutlined`), since a signed, failed or sent row is never replaced and a
completed or invalid one never moves. For `PaidFirst` the strengthening is that a reward which is
a candidate or being approved has a paid owner; completed rows stay completed
by the refinement, so "paid" is never lost.

`NoOrphan` (`OrphanInv`) is about an event or an order whose transactions of a
type do not compete, while nothing has crashed. A row that a pass has read never
leaves the table (`RowsStay`), and an owner is in progress only of a type of which
it has a transaction (`InProgressOwned`), so it is enough to show that this one is
valid (`OrphanFree`). What takes its validity away is a pass, and the pass then
reopens the owner itself. The danger is an approval in between: a call that found no row
inserts it, a pass invalidates it and reopens the owner, and then the call writes
"in payment". It is excluded because no pass has a row that was not there when the
pass began to read, and with `PromptWrites` none begins while the call is between its
two writes (`FreshWork`). A call that found a row does not write the owner.

### The argument for TxAgreement

`NoRivalQuorums` speaks of the history. Its strengthening `TableInv` ties it to each
guard's own table: what a guard took is advanced or invalid there,
and of one event at most one row is valid. `InsertTx` keeps
this because it replaces only rows that were not taken. If quorums took
two transactions of one event, a guard took both (lemma `QuorumsMeet`); they
cannot both be valid in its table, so it has given one of them up. No message
and no agreed map occurs in the argument: with any proposals and any approvals, the
table of each guard is enough. `PaidOnce` adds the chain: what it confirmed a
quorum took, and without `DeepForks` nobody gives it up, before or after
(`ConfirmedByQuorum`). So two confirmed transactions of one event would be two
quorums', and the guard in both would have given one up.
`TablesKept` goes through the steps that touch a table (`TableTouched`); the one
that matters is `InsertTx`, whose choice of the row to replace is a step of
`GuardTable` because a table has at most one valid row of an event
(`InsertIsTabled`). For `AgreementsForgotten` the strengthening says
where a guard stands in the gap: as long as its clear is still to come its
agreements may be one turn old, after that there are none but new ones.

`StoredByQuorum` follows the signatures. `QuorumInv` says of each transaction
that a quorum has signed one proposal of it (`Backed`), which is for ever since `msgs`
keeps what was sent, or that nobody has come far with it (`Unstored`): no guard has
stored it, none but its creator has it in its queue, no handler has more of it than a
request or a response, and every timestamp that is about for it is one of a request of the
creator. Only the creator counts approvals then, and those it counts of the others
were all signed with one timestamp (`OneProposalCounted`), so a quorum of them
makes the transaction `Backed` at the moment it is counted. The difficult
part is that the creator may have proposed it more than once, and that its
candidate still has the timestamp of an earlier proposal when a response to a later
one arrives. The approvals of the earlier proposal are gone by then, because they are
cleared with the candidates in the gap in between (`InTime`), and the response is
compared with the timestamp of the candidate.

### The argument for EventSynchronization

`SyncedByPeers` follows the data: an answer, a counted response and a running
call each say what the table of the peer says (`PeerInv`). Peers never take a completed
payment back, so this stays true however late a message is. With one
payment per event on the chain, the responses that are counted are of the same
payment, and so many of them are as many guards that completed it.

For the other three the invariant (`CleanInv`, while nothing has crashed) says
why the event has no other payment at the moment its synchronised one is
inserted: whatever is queued, active or being handled is paid by somebody
(`BusyPaid`), hence nothing is approved for it any more; an own valid payment
holds the event in payment (`ValidInPayment`) and a completed one is on
the chain (`CompletedOnChain`), hence is the synchronised one itself. Only one
call at a time is past the count, and it holds the semaphore (`Exclusive`). An
inserted payment waits for its event's status with the call that inserted it
(`StoredWaits`), and the event the round works on is still pending
(`ProcessingPending`), which is all that `PromptPayment` is needed for.

### The argument for MultiSig

Soundness is not inductive by itself: a guard adds its part with its own secret
and the commitments it has, whatever the transaction is bound to. `BindInv` says
that they agree wherever a transaction that only signers signed can be. A
transaction has exactly `requiredSigner` signers. In a message the commitments of those who
have not signed are the bound ones. In an entry the own secret is the bound
one, and so are the commitments that are there. Storing a message keeps
this because `verifySignedPayload` compared the two (lemma `StoredBound`); signing keeps it
because the prover has as many commitments as there are signers, hence all of
them (`NextBound`). A complete transaction carries no commitments, and
needs none: all its signers have signed (`CompleteByAll`). `SignersWereAsked`
traces signatures back to secrets: a secret is made by `Sign` only, a commitment is
of a secret, a first signature names those whose commitments there are, and
`generateSign` does nothing without an own secret (`RequestInv`). Secrets may be
forgotten, that there was one may not. For
`SimulatedNeverSign`, `OutInv` says that unfinished transactions are with their
signers only and that no complete one stays in an entry.

`ExchangeEndsSigned` is about guards that wait for each other with different
first signatures. `ExchangeInv` speaks of an exchange that nothing has disturbed
and nobody has finished. Then every guard has one secret (`AskedOnce`), and a
commitment is known, in flight, or came to a guard that had a transaction
already (`CommitmentsKnown`). Transactions are with their signers (`SignsOut`).
Each has come to all of its signers that have not signed, or is on the way; who
received it keeps it, or another that as many others have signed (`AllReached`).
Who holds one that it has not signed lacks commitments (`Waiting`). When all is
quiet, look at the transactions with the most signatures. Each has
a signer that has not signed it, and that signer holds such a transaction too and cannot
sign it, because it lacks the commitment of another signer, which has
not signed either. So there would be a circle of guards waiting for each other. `AskedInOrder`
excludes it: a commitment is passed over only when it comes after a transaction,
and a first signature is made when no commitment is in flight (or two signers
are enough, and nobody lacks anything), so who is missed was asked later
than who misses it. The order in which the guards were asked is no variable of the model;
the invariant says that there is one. The same order shows
that there is a first signature at all: who was asked first gets all other
commitments afterwards, and with the last of them the timer.

### The argument for Dialer

One copy of a message exists for each addressee: unsent, in the queue, the
current one, waiting for its retry, in a stream, in an inbox, or lost (`CopyInv`). Each
action moves copies from one place to the next, one lemma per movement. From this follow the refinement,
in which the fate of a message is the place of its copy, and `HandledOnce`, since a
callback runs when the copy is taken out of its inbox and at most once per
subscription, and nothing is subscribed twice (`SubsOnce`). For
`OvertakenForCause` the invariant `OrderInv` goes the whole way of two messages to a
guard: as long as the earlier one has not been retried the later one is behind it in
the queue, in the stream or in the inbox, or in a newer stream; only a message that
was retried comes back by a timer. `LostForCause` is about the places a copy can be lost from. What is
in a stream that is no longer open was put there before it broke, and is in `cut`
(`CutInv`, `BreakCuts`); what is pushed gets there, because the stream that was found is the newest
one and a source is piped to a stream only when it becomes the one `routesInfo` remembers, so a stream
that is not remembered has none (`RouteInv`). `RelayWatched` becomes inductive with
the removals that are still to come (`RelayInv`): a relay in the book says little while its
removal is pending, and then the interval is there already.

### The argument for EventReprocess

For `RewardBehindPayment` every piece of work has to know what the row does: if
the status it read, or the one it will write, is of the reward stage, then the
event has a confirmed payment (`ListBacked`, `TaskBacked`, `WaitingBacked`,
`VerifierBacked`, `PassBacked`, `HandlerBacked` and the rows themselves). This
stays true while others write, because a confirmed payment is for ever; so it
does not matter how stale a read is.

`PaidGoesOn` is about the other direction, where staleness matters: whatever
was read before the payment says "not yet paid". `AllGoOn` says that once the
payment is confirmed no list, task, verification, request or candidate holds a
read from before. It begins to be true in `Complete`, whose assumption
`PromptWork` empties them, and is kept because from then on the row is of the reward
stage, or of one `AdvanceRow` is about to write, so nothing reads it as pending.

`CooldownHolds` needs to know that the requests past the check and the ones in
the table together are no more than the handlers (`Cooldown`): those that were checked before
the first was inserted. An event that was queued again has its request in the table, about
to be inserted, or lost (`Counted`).

### The argument for Registration

`KnownByKey` is kept because an id is written only after `Verified`, and all
ids go with the list. For `InTouch` the invariant `WillKnow` names, for each
guard that does not know another of its list, the message that will tell it: the
registration of the one that updated last, its approval, or the challenge that comes
back with it. A loss or a crash takes such a message away, and `cut` remembers the
pair until one of the two registers again.

### The argument for Generation and Revenue

`StillToRead`: what was there and has not been seen is still ahead of the
reader, in a list that is read later, because transactions move through the
lists in the order in which they are read. For `Revenue` the place of the job in
the boxes separates what is stored once from what is not stored yet (`Before`),
and an event that is still unread has nothing stored.

### Model-checked only

Every invariant, every safety action property and every refinement of the
passing runs are theorems. What is left to TLC are the liveness
properties `SigningEnds`, `AgreementReached`, `SyncEnds`, `MessagesDecided` and
`RelayComesBack`, which are out of the prover's reach, as is whatever a recursive
definition computes for all inputs; the modules have none.

### Proved only

`ImplementsTable` of `TransactionProcessor` is in no run: it follows from
`ImplementsLifecycle`, which the run competing checks. Nor is
`SignedOnlyByRequested`, which holds in the instance of signed as well, but which no single
slip in the code would break: `enough` in `HandleCommitment`, `Verified` and
`GeneratedSigns` each ask for the own secret.

`Generation`, `Revenue`, `EventOrder`, `ColdStorage` and `GuardTurn` are in no
run. `Generation` beside the whole of `TransactionProcessor` is too large to be
checked in reasonable time (the first 6 million states of a small instance show no
error), `Revenue` stores functions on an
infinite domain, and the others are functions of numbers.

## 6. Not modelled

* The libraries: chain packages, scanners and extractors, the TSS binary,
  libp2p, the health-check and detection libraries, typeorm. What they answer is
  a choice in the modules. So is `verifyTxCommonConditions` and
  `verifyArbitraryTransaction`, which ask the chain library and compare two values.
* The wiring of scanners and extractors, `HealthCheckSingleton`, and the
  handlers for detection, TSS, notifications and minimum fees: singletons that
  construct a library and pass calls on.
* Read-only API routes, filters and charts, configuration and migrations: no
  behaviour over time.
* Responses to reprocess requests: they mark a request accepted, which nothing
  reads but the API.
* Of `Dialer`, the file of the peer id, the bootstrap of the address book, and
  the content of messages.
* Guards that change while an agreement or a signing is under way: `TxAgreement`
  and `MultiSig` fix the set of guards. `GuardPkHandler` replaces it at any
  moment, and arrays of signatures that are indexed by guard keep their old
  order; the hazard is listed.
* The guards' tables of `TransactionProcessor` beside each other: `TxAgreement`
  has the outline that each of them is proved to implement, but the events'
  statuses and the jobs' stale reads only one guard at a time.

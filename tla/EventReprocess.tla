--------------------------- MODULE EventReprocess ---------------------------
(***************************************************************************)
(* EventReprocess, and the guard whose tables it writes: an operator, or   *)
(* another guard, asks for an event that was rejected, timed out or is     *)
(* waiting to be processed again.  Each request is handled between awaits  *)
(* of the jobs of EventProcessor.                                          *)
(***************************************************************************)
EXTENDS EventProcessor

CONSTANTS
  Peer,       \* the other guards, which ask this one
  Handler,    \* requests that may be handled at once
  Operator,   \* stands for the API in the place of a peer
  MaxRecent,  \* bound on the requests of a peer within the cooldown
  MaxLost     \* bound on those of them that are handled and not recorded

ASSUME ReprocessAssumption ==
  /\ IsFiniteSet(Handler)
  /\ Operator \notin Peer
  /\ MaxRecent \in Nat \ {0} /\ MaxLost \in Nat

VARIABLES
  handler,   \* the requests being handled
  recent,    \* ReprocessEntity: the rows of each peer within reprocessCooldown
  again,     \* history: the events queued again for a peer within it
  lost       \* history: those of them whose request was never recorded

history == <<again, lost>>
reprocess == <<handler, recent, history>>
allVars == <<vars, reprocess>>

IdleHandler == [pc |-> "idle", from |-> Operator, row |-> NoRow, status |-> "absent"]
Request == [pc : {"idle", "recent", "write", "insert"}, from : Peer \cup {Operator},
            row : Event \cup {NoRow}, status : RowStatus]

ReprocessTypeOK ==
  /\ handler \in [Handler -> Request]
  /\ recent \in [Peer -> Nat]
  /\ again \in [Peer -> Nat] /\ lost \in [Peer -> Nat]

AllTypeOK == TypeOK /\ ReprocessTypeOK

ReprocessInit ==
  /\ Init
  /\ handler = [h \in Handler |-> IdleHandler]
  /\ recent = [p \in Peer |-> 0]
  /\ again = [p \in Peer |-> 0] /\ lost = [p \in Peer |-> 0]

\* one more for the peer that asked; nobody counts what the operator asks for
CountFor(counts, h) ==
  IF handler[h].from \in Peer THEN [counts EXCEPT ![handler[h].from] = @ + 1] ELSE counts

\* the requests of a peer that are handled and not yet recorded
Unrecorded(p) == {h \in Handler : handler[h].pc = "insert" /\ handler[h].from = p}

\* sendReprocessRequest and processReprocessRequest both read the event first
ReadReprocessed(h, from, e) ==
  /\ handler[h] = IdleHandler /\ Room
  /\ status[e] # "absent" /\ Settled(e)
  /\ handler' = [handler EXCEPT ![h] =
       [pc |-> IF from = Operator THEN "write" ELSE "recent",
        from |-> from, row |-> e, status |-> status[e]]]
  /\ UNCHANGED <<vars, recent, history>>

\* mutant: the cooldown of the operator's own requests is looked at
OperatorsCooldown(h) == handler[h].from # Operator

\* getRecentReprocessRequestsByGuard finds none
CooldownOver(h) == recent[handler[h].from] = 0

ReadRecent(h) ==
  /\ handler[h].pc = "recent"
  /\ handler' = [handler EXCEPT ![h] =
       IF CooldownOver(h) THEN [@ EXCEPT !.pc = "write"] ELSE IdleHandler]
  /\ UNCHANGED <<vars, recent, history>>

\* mutant: whatever waits for assets is queued for its reward
WaitingForReward(s) ==
  IF s \in {"paymentWaiting", "rewardWaiting"} THEN "pendingReward" ELSE "pendingPayment"

\* what an event of this status is queued for again
RequeuedAs(s) ==
  IF s = "rewardWaiting" THEN "pendingReward" ELSE "pendingPayment"

Reprocessable == {"rejected", "timeout", "paymentWaiting", "rewardWaiting"}

\* the status that was read decides, whatever the row has become
WriteReprocessed(h) ==
  LET s == handler[h].status IN
  /\ handler[h].pc = "write" /\ s \in Reprocessable
  /\ SetPending(handler[h].row, RequeuedAs(s))
  /\ handler' = [handler EXCEPT ![h].pc = "insert"]
  /\ again' = CountFor(again, h)
  /\ UNCHANGED <<fails, spent, txs, candidates, jobs, cut, recent, lost>>

\* any other status is refused
RefuseReprocessed(h) ==
  /\ handler[h].pc = "write" /\ handler[h].status \notin Reprocessable
  /\ handler' = [handler EXCEPT ![h] = IdleHandler]
  /\ UNCHANGED <<vars, recent, history>>

\* insertReprocessRequests; then the peer is answered, or the peers are asked
InsertRequest(h) ==
  LET p == handler[h].from IN
  /\ handler[h].pc = "insert"
  /\ p \in Peer => recent[p] < MaxRecent
  /\ recent' = CountFor(recent, h)
  /\ handler' = [handler EXCEPT ![h] = IdleHandler]
  /\ UNCHANGED <<vars, history>>

\* what the handler awaits throws: the event may have been queued already
AbandonRequest(h) ==
  /\ handler[h] # IdleHandler
  /\ handler' = [handler EXCEPT ![h] = IdleHandler]
  /\ lost' = IF handler[h].pc = "insert" THEN CountFor(lost, h) ELSE lost
  /\ \A p \in Peer : lost'[p] <= MaxLost
  /\ UNCHANGED <<vars, recent, again>>

\* reprocessCooldown after the last of the peer's requests
CooldownPasses(p) ==
  /\ recent[p] + lost[p] > 0
  /\ recent' = [recent EXCEPT ![p] = 0]
  /\ lost' = [lost EXCEPT ![p] = 0]
  /\ again' = [again EXCEPT ![p] = Cardinality(Unrecorded(p))]
  /\ UNCHANGED <<vars, handler>>

\* a confirmation waits for this work on the row, too
CompleteUnwatched(r, type) ==
  /\ Complete(r, type)
  /\ PromptWork => \A h \in Handler : handler[h].row # r
  /\ UNCHANGED reprocess

CrashAll ==
  /\ Crash
  /\ handler' = [h \in Handler |-> IdleHandler]
  /\ lost' = [p \in Peer |-> lost[p] + Cardinality(Unrecorded(p))]
  /\ \A p \in Peer : lost'[p] <= MaxLost
  /\ UNCHANGED <<recent, again>>

Reprocessing ==
  \/ \E h \in Handler :
       \/ \E from \in Peer \cup {Operator}, e \in Event : ReadReprocessed(h, from, e)
       \/ ReadRecent(h) \/ WriteReprocessed(h) \/ RefuseReprocessed(h)
       \/ InsertRequest(h) \/ AbandonRequest(h)
  \/ \E p \in Peer : CooldownPasses(p)

ReprocessNext ==
  \/ (Jobs \/ Agreement \/ Transactions \/ Environment) /\ UNCHANGED reprocess
  \/ \E r \in Row, type \in TxType : CompleteUnwatched(r, type)
  \/ CrashAll
  \/ Reprocessing

Spec == ReprocessInit /\ [][ReprocessNext]_allVars

-----------------------------------------------------------------------------
(* Properties.                                                             *)

(***************************************************************************)
(* Within the cooldown a guard queues no more events again for a peer than *)
(* it handles requests of it at the same time, and one more for each       *)
(* request that it did not get to record.  The cooldown is read before the *)
(* event is queued and the request recorded after it, with awaits in       *)
(* between: overlapping requests all pass, and so does the next one when   *)
(* an insert failed or a crash came before it, but never one more.         *)
(***************************************************************************)
CooldownHolds == \A p \in Peer : again[p] <= Cardinality(Handler) + lost[p]
=============================================================================

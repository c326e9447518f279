------------------------ MODULE TxAgreement_proofs ------------------------
(***************************************************************************)
(* Proofs about the agreement, for any number of guards, turns, handlers,  *)
(* faults and transactions: two rival transactions never both get a quorum *)
(* of signers, for which nothing is needed but what insertTx does to each  *)
(* guard's table and that two quorums have a guard in common; the types;   *)
(* how long an agreement lasts; and that nothing is stored which no quorum *)
(* signed.                                                                 *)
(***************************************************************************)
EXTENDS TxAgreement, FiniteSetTheorems, TLAPS

\* What a guard took to its signer is never replaced
TookStays == \A g \in Guard, t \in Tx :
  t \in took[g] => row[g][t] \in {"advanced", "invalid"}

OneValid == \A g \in Guard, t, u \in Tx :
  Alike(t, u) /\ t # u => ~(Valid(g, t) /\ Valid(g, u))

TableInv ==
  /\ row \in [Guard -> [Tx -> RowState]]
  /\ took \in [Guard -> SUBSET Tx]
  /\ TookStays
  /\ OneValid

-----------------------------------------------------------------------------
\* Two quorums of guards, as GuardPkHandler.requiredSign defines them, have a
\* guard in common.
LEMMA QuorumsMeet ==
  ASSUME NEW P \in Quorums, NEW Q \in Quorums
  PROVE  P \cap Q # {}
<1>1. /\ P \subseteq Guard /\ Q \subseteq Guard
      /\ Cardinality(P) >= RequiredSign /\ Cardinality(Q) >= RequiredSign
  BY DEF Quorums
<1>2. /\ IsFiniteSet(Guard) /\ RequiredSign \in Nat
      /\ 2 * RequiredSign > Cardinality(Guard)
  BY AgreementAssumption DEF AgreementAssumption
<1>3. IsFiniteSet(P) /\ IsFiniteSet(Q)
  BY <1>1, <1>2, FS_Subset
<1>4. IsFiniteSet(P \cup Q) /\ Cardinality(P \cup Q) <= Cardinality(Guard)
  BY <1>1, <1>2, FS_Subset
<1>5. Cardinality(P \cup Q) = Cardinality(P) + Cardinality(Q) - Cardinality(P \cap Q)
  BY <1>3, FS_Union
<1>6. /\ Cardinality(P) \in Nat /\ Cardinality(Q) \in Nat
      /\ Cardinality(P \cup Q) \in Nat /\ Cardinality(Guard) \in Nat
  BY <1>2, <1>3, <1>4, FS_CardinalityType
<1>7. SUFFICES ASSUME P \cap Q = {} PROVE FALSE
  OBVIOUS
<1>8. Cardinality(P \cap Q) = 0
  BY <1>7, FS_EmptySet
<1> QED
  BY <1>1, <1>2, <1>4, <1>5, <1>6, <1>8

-----------------------------------------------------------------------------
\* More signers make a quorum of a quorum.
LEMMA QuorumGrows ==
  ASSUME NEW P \in Quorums, NEW Q \in SUBSET Guard, P \subseteq Q
  PROVE  Q \in Quorums
<1>1. IsFiniteSet(Guard) /\ RequiredSign \in Nat
  BY AgreementAssumption DEF AgreementAssumption
<1>2. IsFiniteSet(Q) /\ IsFiniteSet(P) /\ Cardinality(P) <= Cardinality(Q)
  BY <1>1, FS_Subset
<1>3. Cardinality(P) \in Nat /\ Cardinality(Q) \in Nat
  BY <1>2, FS_CardinalityType
<1> QED
  BY <1>1, <1>2, <1>3 DEF Quorums

\* The table's invariant makes the property: a guard that is in both quorums
\* has one of the two transactions invalid.
LEMMA TableInvImpliesNoRivals == TableInv => NoRivalQuorums
<1> SUFFICES ASSUME TableInv,
                    NEW t \in Tx, NEW u \in Tx, Alike(t, u), t # u,
                    TookToSigner(t) \in Quorums, TookToSigner(u) \in Quorums
             PROVE  \E g \in TookToSigner(t) \cap TookToSigner(u) :
                      "invalid" \in {row[g][t], row[g][u]}
  BY DEF NoRivalQuorums
<1>1. PICK g \in TookToSigner(t) \cap TookToSigner(u) : TRUE
  BY QuorumsMeet
<1>2. row[g][t] \in {"advanced", "invalid"} /\ row[g][u] \in {"advanced", "invalid"}
  BY DEF TookToSigner, TableInv, TookStays
<1>3. row[g][t] = "invalid" \/ row[g][u] = "invalid"
  BY <1>2 DEF TookToSigner, TableInv, OneValid, Valid
<1> QED
  BY <1>3

-----------------------------------------------------------------------------
LEMMA InitTable == Init => TableInv
BY DEF Init, TableInv, TookStays, OneValid, Valid, RowState, Empty

LEMMA AdvanceKeeps ==
  ASSUME TableInv, NEW g \in Guard, NEW t \in Tx, Advance(g, t)
  PROVE  TableInv'
<1>1. /\ row[g][t] = "approved"
      /\ row' = [row EXCEPT ![g][t] = "advanced"]
      /\ took' = [took EXCEPT ![g] = @ \cup {t}]
  BY DEF Advance
<1>2. row' \in [Guard -> [Tx -> RowState]] /\ took' \in [Guard -> SUBSET Tx]
  BY <1>1 DEF TableInv, RowState
<1>3. \A h \in Guard, u \in Tx :
        row'[h][u] = IF h = g /\ u = t THEN "advanced" ELSE row[h][u]
  BY <1>1 DEF TableInv
<1>4. \A h \in Guard : took'[h] = IF h = g THEN took[h] \cup {t} ELSE took[h]
  BY <1>1 DEF TableInv
<1>5. ASSUME NEW h \in Guard, NEW u \in Tx, u \in took'[h]
      PROVE  row'[h][u] \in {"advanced", "invalid"}
  <2>1. CASE h = g /\ u = t
    BY <1>3, <2>1
  <2>2. CASE ~(h = g /\ u = t)
    <3>1. u \in took[h]
      BY <1>4, <1>5, <2>2
    <3> QED
      BY <1>3, <2>2, <3>1 DEF TableInv, TookStays
  <2> QED
    BY <2>1, <2>2
<1>6. \A h \in Guard, u \in Tx : Valid(h, u)' <=> Valid(h, u)
  BY <1>1, <1>3 DEF Valid
<1>7. OneValid'
  BY <1>6 DEF TableInv, OneValid
<1> QED
  BY <1>2, <1>5, <1>7 DEF TableInv, TookStays

LEMMA InvalidateKeeps ==
  ASSUME TableInv, NEW g \in Guard, NEW t \in Tx, Invalidate(g, t)
  PROVE  TableInv'
<1>1. row' = [row EXCEPT ![g][t] = "invalid"] /\ took' = took
  BY DEF Invalidate
<1>2. row' \in [Guard -> [Tx -> RowState]] /\ took' \in [Guard -> SUBSET Tx]
  BY <1>1 DEF TableInv, RowState
<1>3. \A h \in Guard, u \in Tx :
        row'[h][u] = IF h = g /\ u = t THEN "invalid" ELSE row[h][u]
  BY <1>1 DEF TableInv
<1>4. TookStays'
  BY <1>1, <1>3 DEF TableInv, TookStays
<1>5. \A h \in Guard, u \in Tx : Valid(h, u)' => Valid(h, u)
  BY <1>3 DEF Valid
<1>6. OneValid'
  BY <1>5 DEF TableInv, OneValid
<1> QED
  BY <1>2, <1>4, <1>6 DEF TableInv

\* insertTx makes room for the new transaction by removing approved ones, or
\* leaves the table alone.
LEMMA InsertKeeps ==
  ASSUME TableInv, NEW g \in Guard, NEW t, InsertTx(g, t), UNCHANGED took
  PROVE  TableInv'
<1> DEFINE replaced == {u \in Rivals(g, t) : row[g][u] = "approved" /\ t < u}
<1>1. CASE row' = row
  BY <1>1 DEF TableInv, TookStays, OneValid, Valid
<1>2. CASE row' # row
  <2>1. /\ row[g][t] = "none" /\ Rivals(g, t) = replaced
        /\ row' = [row EXCEPT ![g] = [u \in Tx |->
                     IF u = t THEN "approved"
                     ELSE IF u \in replaced THEN "none" ELSE @[u]]]
    BY <1>2 DEF InsertTx
  <2>2. \A h \in Guard, u \in Tx :
          row'[h][u] = IF h # g THEN row[h][u]
                       ELSE IF u = t THEN "approved"
                       ELSE IF u \in replaced THEN "none" ELSE row[h][u]
    BY <2>1 DEF TableInv
  <2>3. \A u \in replaced : row[g][u] = "approved"
    OBVIOUS
  <2> HIDE DEF replaced
  <2>4. row' \in [Guard -> [Tx -> RowState]]
    BY <2>1 DEF TableInv, RowState
  <2>5. TookStays'
    BY <2>1, <2>2, <2>3 DEF TableInv, TookStays
  <2>6. ASSUME NEW h \in Guard, NEW u \in Tx, NEW v \in Tx,
               Alike(u, v), u # v, Valid(h, u)', Valid(h, v)'
        PROVE  FALSE
    <3>1. CASE h # g \/ (u # t /\ v # t)
      BY <2>2, <2>6, <3>1 DEF TableInv, OneValid, Valid
    <3>2. CASE h = g /\ u = t
      <4>1. v \notin replaced /\ Valid(g, v)
        BY <2>2, <2>6, <3>2 DEF Valid
      <4>2. v \in Rivals(g, t)
        BY <2>6, <3>2, <4>1 DEF Rivals
      <4> QED
        BY <2>1, <4>1, <4>2
    <3>3. CASE h = g /\ v = t
      <4>1. u \notin replaced /\ Valid(g, u)
        BY <2>2, <2>6, <3>3 DEF Valid
      <4>2. Alike(t, u)
        BY <2>6, <3>3 DEF Alike, Owned
      <4>3. u \in Rivals(g, t)
        BY <2>6, <3>3, <4>1, <4>2 DEF Rivals
      <4> QED
        BY <2>1, <4>1, <4>3
    <3> QED
      BY <3>1, <3>2, <3>3
  <2>7. OneValid'
    BY <2>6 DEF OneValid
  <2> QED
    BY <2>4, <2>5, <2>7 DEF TableInv
<1> QED
  BY <1>1, <1>2

LEMMA ConfirmKeeps ==
  ASSUME TableInv, NEW t \in Tx, Confirm(t)
  PROVE  TableInv'
BY DEF Confirm, TableInv, TookStays, OneValid, Valid

LEMMA OutsideUnchanged ==
  ASSUME TableInv, UNCHANGED outside
  PROVE  TableInv'
BY DEF outside, TableInv, TookStays, OneValid, Valid

\* Every step keeps the invariant: the protocol's own steps do not touch the
\* table, except for setTxAsApproved.
LEMMA NextTable == TableInv /\ [Next]_vars => TableInv'
<1> SUFFICES ASSUME TableInv, [Next]_vars PROVE TableInv'
  OBVIOUS
<1>1. CASE Turns
  BY <1>1, OutsideUnchanged
  DEF Turns, EndTurn, NextTurn, ClearTransactions, ClearAgreedTransactions
<1>2. CASE Propose
  BY <1>2, OutsideUnchanged
  DEF Propose, GenerateTx, BroadcastRequest, EnqueueSignFailedTxs,
      RegisterCandidate, ResendTransactionRequests
<1>3. CASE ProcessMessage
  <2>1. PICK g \in Guard :
          \/ \E m \in msgs : HandleRequest(g, m) \/ HandleResponse(g, m) \/ HandleApproval(g, m)
          \/ CheckAgreed(g) \/ AgreeToRequest(g) \/ CountApprovals(g) \/ AgreeToApproval(g)
          \/ Reject(g) \/ SetTxAsApproved(g) \/ Abandon(g)
    BY <1>3 DEF ProcessMessage
  <2>2. CASE SetTxAsApproved(g)
    <3>1. PICK task \in tasks[g] : InsertTx(g, task.tx) /\ UNCHANGED took
      BY <2>2 DEF SetTxAsApproved
    <3> QED
      BY <3>1, InsertKeeps
  <2>3. CASE ~SetTxAsApproved(g)
    BY <2>1, <2>3, OutsideUnchanged
    DEF HandleRequest, HandleResponse, HandleApproval, CheckAgreed, AgreeToRequest,
        CountApprovals, AgreeToApproval, Reject, Abandon
  <2> QED
    BY <2>2, <2>3
<1>4. CASE Table
  BY <1>4, AdvanceKeeps, InvalidateKeeps, ConfirmKeeps DEF Table
<1>5. CASE \E g \in Guard : Crash(g)
  BY <1>5, OutsideUnchanged DEF Crash
<1>6. CASE UNCHANGED vars
  BY <1>6, OutsideUnchanged DEF vars
<1> QED
  BY <1>1, <1>2, <1>3, <1>4, <1>5, <1>6 DEF Next

\* However many guards, turns, crashes, lost messages and late handlers there
\* are, and whatever forks make of the chain, no two transactions of one event
\* or order are taken to the signer by a quorum of guards each, unless a guard
\* that took both gave one of them up.
THEOREM NoDoublePayment == Spec => []NoRivalQuorums
<1>1. Spec => []TableInv
  BY InitTable, NextTable, PTL DEF Spec
<1> QED
  BY <1>1, TableInvImpliesNoRivals, PTL

-----------------------------------------------------------------------------
(* What the chain confirmed.  A quorum of guards took it, and without deep *)
(* forks none of them has given it up or ever will.                        *)

ConfirmedByQuorum == \A t \in confirmed :
  /\ t \in Tx /\ TookToSigner(t) \in Quorums
  /\ GivenUp(t) => DeepForks

LEMMA PaidInvImpliesPaidOnce == TableInv /\ ConfirmedByQuorum => PaidOnce
<1> SUFFICES ASSUME TableInv, ConfirmedByQuorum PROVE PaidOnce
  OBVIOUS
<1>1. ASSUME NEW t \in confirmed, NEW u \in confirmed, Alike(t, u), t # u
      PROVE  BroughtBack(t) \/ BroughtBack(u)
  <2>1. GivenUp(t) \/ GivenUp(u)
    BY <1>1, TableInvImpliesNoRivals
    DEF ConfirmedByQuorum, NoRivalQuorums, GivenUp, TookToSigner
  <2> QED
    BY <2>1 DEF ConfirmedByQuorum, BroughtBack
<1>2. ASSUME NEW t \in confirmed, ~BroughtBack(t)
      PROVE  {g \in Guard : row[g][t] = "advanced"} \in Quorums
  <2>1. t \in Tx /\ ~GivenUp(t) /\ TookToSigner(t) \in Quorums
    BY <1>2 DEF ConfirmedByQuorum, BroughtBack
  <2>2. TookToSigner(t) \subseteq {g \in Guard : row[g][t] = "advanced"}
    BY <2>1 DEF TookToSigner, TableInv, TookStays, GivenUp
  <2> QED
    BY <2>1, <2>2, QuorumGrows
<1> QED
  BY <1>1, <1>2 DEF PaidOnce

\* What a guard took it has taken for ever, and besides Confirm no step is
\* about the fate of a transaction.
LEMMA ChainTouched ==
  ASSUME TableInv, [Next]_vars
  PROVE  /\ \A t : TookToSigner(t) \subseteq TookToSigner(t)'
         /\ confirmed' = confirmed \/ \E t \in Tx : Confirm(t)
<1>1. CASE Turns
  BY <1>1 DEF Turns, EndTurn, NextTurn, ClearTransactions, ClearAgreedTransactions,
     outside, TookToSigner
<1>2. CASE Propose
  BY <1>2 DEF Propose, GenerateTx, BroadcastRequest, EnqueueSignFailedTxs,
     RegisterCandidate, ResendTransactionRequests, outside, TookToSigner
<1>3. CASE ProcessMessage
  <2>1. PICK g \in Guard :
          \/ \E m \in msgs : HandleRequest(g, m) \/ HandleResponse(g, m) \/ HandleApproval(g, m)
          \/ CheckAgreed(g) \/ AgreeToRequest(g) \/ CountApprovals(g) \/ AgreeToApproval(g)
          \/ Reject(g) \/ SetTxAsApproved(g) \/ Abandon(g)
    BY <1>3 DEF ProcessMessage
  <2>2. CASE \E m \in msgs : HandleRequest(g, m) \/ HandleResponse(g, m) \/ HandleApproval(g, m)
    BY <2>2 DEF HandleRequest, HandleResponse, HandleApproval, outside, TookToSigner
  <2>3. CASE CheckAgreed(g) \/ AgreeToRequest(g) \/ CountApprovals(g) \/ AgreeToApproval(g)
    BY <2>3 DEF CheckAgreed, AgreeToRequest, CountApprovals, AgreeToApproval, outside,
       TookToSigner
  <2>4. CASE Reject(g) \/ SetTxAsApproved(g) \/ Abandon(g)
    BY <2>4 DEF Reject, SetTxAsApproved, Abandon, outside, TookToSigner
  <2> QED
    BY <2>1, <2>2, <2>3, <2>4
<1>4. CASE Table
  <2>1. ASSUME NEW g \in Guard, NEW t \in Tx, Advance(g, t)
        PROVE  confirmed' = confirmed /\ \A h \in Guard : took[h] \subseteq took'[h]
    BY <2>1 DEF Advance, TableInv
  <2>2. ASSUME NEW g \in Guard, NEW t \in Tx, Invalidate(g, t)
        PROVE  UNCHANGED <<confirmed, took>>
    BY <2>2 DEF Invalidate
  <2>3. ASSUME NEW t \in Tx, Confirm(t) PROVE took' = took
    BY <2>3 DEF Confirm
  <2> QED
    BY <1>4, <2>1, <2>2, <2>3 DEF Table, TookToSigner
<1>5. CASE \E g \in Guard : Crash(g)
  BY <1>5 DEF Crash, outside, TookToSigner
<1>6. CASE UNCHANGED vars
  BY <1>6 DEF vars, outside, TookToSigner
<1> QED
  BY <1>1, <1>2, <1>3, <1>4, <1>5, <1>6 DEF Next

\* insertTx gives nothing up.
LEMMA InsertGivesNothingUp ==
  ASSUME TableInv, NEW g \in Guard, NEW t, InsertTx(g, t),
         NEW h \in Guard, NEW u \in Tx, row'[h][u] = "invalid"
  PROVE  row[h][u] = "invalid"
BY DEF InsertTx, TableInv

\* Invalidate alone gives a transaction up, and not a confirmed one.
LEMMA ConfirmedStays ==
  ASSUME TableInv, [Next]_vars, NEW t \in Tx, t \in confirmed, GivenUp(t)'
  PROVE  GivenUp(t)
<1> PICK h \in Guard : row'[h][t] = "invalid"
  BY DEF GivenUp
<1>1. CASE UNCHANGED row
  BY <1>1 DEF GivenUp
<1>2. ASSUME NEW g \in Guard, SetTxAsApproved(g) PROVE GivenUp(t)
  <2>1. PICK task \in tasks[g] : InsertTx(g, task.tx)
    BY <1>2 DEF SetTxAsApproved
  <2> QED
    BY <2>1, InsertGivesNothingUp DEF GivenUp
<1>3. ASSUME NEW g \in Guard, NEW u \in Tx, Advance(g, u) \/ Invalidate(g, u)
      PROVE  GivenUp(t)
  <2>1. CASE Advance(g, u)
    BY <2>1 DEF Advance, TableInv, GivenUp
  <2>2. CASE Invalidate(g, u)
    BY <2>2 DEF Invalidate, TableInv, GivenUp
  <2> QED
    BY <1>3, <2>1, <2>2
<1>4. CASE Turns \/ Propose \/ \E g \in Guard : Crash(g)
  <2>1. UNCHANGED outside
    BY <1>4 DEF Turns, EndTurn, NextTurn, ClearTransactions, ClearAgreedTransactions,
       Propose, GenerateTx, BroadcastRequest, EnqueueSignFailedTxs,
       RegisterCandidate, ResendTransactionRequests, Crash
  <2> QED
    BY <1>1, <2>1 DEF outside
<1>5. CASE ProcessMessage
  <2>1. (\E g \in Guard : SetTxAsApproved(g)) \/ UNCHANGED outside
    BY <1>5 DEF ProcessMessage, HandleRequest, HandleResponse, HandleApproval, CheckAgreed,
       AgreeToRequest, CountApprovals, AgreeToApproval, Reject, Abandon
  <2> QED
    BY <1>1, <1>2, <2>1 DEF outside
<1>6. CASE Table
  BY <1>1, <1>3, <1>6 DEF Table, Confirm
<1>7. CASE UNCHANGED vars
  BY <1>1, <1>7 DEF vars, outside
<1> QED
  BY <1>4, <1>5, <1>6, <1>7 DEF Next

LEMMA NextConfirmed ==
  TableInv /\ ConfirmedByQuorum /\ [Next]_vars => ConfirmedByQuorum'
<1> SUFFICES ASSUME TableInv, ConfirmedByQuorum, [Next]_vars, NEW t \in confirmed'
             PROVE  (/\ t \in Tx /\ TookToSigner(t) \in Quorums
                     /\ GivenUp(t) => DeepForks)'
  BY DEF ConfirmedByQuorum
<1>1. t \in Tx /\ TookToSigner(t) \in Quorums /\ (GivenUp(t)' => DeepForks)
  <2>1. CASE t \in confirmed
    BY <2>1, ConfirmedStays DEF ConfirmedByQuorum
  <2>2. CASE t \notin confirmed
    <3>1. PICK u \in Tx : Confirm(u)
      BY <2>2, ChainTouched
    <3> QED
      BY <2>2, <3>1 DEF Confirm, GivenUp
  <2> QED
    BY <2>1, <2>2
<1>2. TookToSigner(t) \subseteq TookToSigner(t)' /\ TookToSigner(t)' \in SUBSET Guard
  BY ChainTouched DEF TookToSigner
<1>3. TookToSigner(t)' \in Quorums
  BY <1>1, <1>2, QuorumGrows
<1> QED
  BY <1>1, <1>3 DEF Quorums

\* Whatever is lost, forgotten or late between the guards, an event is paid
\* and rewarded once, and a quorum of guards stands by what was confirmed,
\* except for what a fork brought back after a guard gave it up.
THEOREM PaidOnceForAll == Spec => []PaidOnce
<1>1. Init => ConfirmedByQuorum
  BY DEF Init, ConfirmedByQuorum
<1>2. Spec => [](TableInv /\ ConfirmedByQuorum)
  BY <1>1, InitTable, NextTable, NextConfirmed, PTL DEF Spec
<1> QED
  BY <1>2, PaidInvImpliesPaidOnce, PTL

-----------------------------------------------------------------------------
(* Types.  A gap is always followed by another turn.                       *)

TypeInv == TypeOK /\ (gap => turn < MaxTurn)

LEMMA Constants ==
  /\ MaxTurn \in Nat \ {0} /\ MaxFaults \in Nat
  /\ \A t \in Tx : Owned(t) => OwnerOf[t] \in Owner
BY AgreementAssumption, TxAssumption DEF AgreementAssumption, TxAssumption, Owned

LEMMA InitTypes == Init => TypeInv
<1> SUFFICES ASSUME Init PROVE TypeInv
  OBVIOUS
<1>1. ClockOK /\ ~gap
  <2>1. turn \in 1..MaxTurn
    BY Constants DEF Init
  <2>2. gap \in BOOLEAN /\ ~gap
    BY DEF Init
  <2>3. round \in {"none", "started", "requeued"}
    BY DEF Init
  <2>4. toClear \in SUBSET (Guard \X {"transactions", "agreed"})
    BY DEF Init
  <2> QED
    BY <2>1, <2>2, <2>3, <2>4 DEF ClockOK
<1>2. MemoryOK
  BY DEF Init, MemoryOK, Nobody, NotAgreed, Empty
<1>3. OutsideOK
  BY DEF Init, OutsideOK, RowState, Empty
<1>4. tasks \in [Guard -> SUBSET Task] /\ msgs \in SUBSET Message /\ faults \in Nat
  BY DEF Init, Empty
<1> QED
  BY <1>1, <1>2, <1>3, <1>4 DEF TypeInv, TypeOK

\* What a step leaves alone keeps its type.
LEMMA ClockUnchanged == ClockOK /\ UNCHANGED clock => ClockOK'
BY DEF ClockOK, clock

LEMMA MemoryUnchanged == MemoryOK /\ UNCHANGED memory => MemoryOK'
BY DEF MemoryOK, memory

LEMMA OutsideTypes == OutsideOK /\ UNCHANGED outside => OutsideOK'
BY DEF OutsideOK, outside

\* A new task, or one less, leaves the tasks tasks.
LEMMA TasksKept ==
  ASSUME tasks \in [Guard -> SUBSET Task], NEW g \in Guard, NEW task \in tasks[g]
  PROVE  /\ task \in Task
         /\ Finish(g, task) => tasks' \in [Guard -> SUBSET Task]
         /\ \A step \in Step : Continue(g, task, step) => tasks' \in [Guard -> SUBSET Task]
<1>1. task \in Task
  OBVIOUS
<1>2. ASSUME NEW step \in Step PROVE [task EXCEPT !.step = step] \in Task
  BY <1>1 DEF Task
<1> QED
  BY <1>1, <1>2 DEF Finish, Continue

LEMMA TasksBegun ==
  ASSUME tasks \in [Guard -> SUBSET Task], NEW g \in Guard, NEW step \in Step,
         NEW m, m.tx \in Tx, m.ts \in Nat, m.from \in Guard, Begin(g, step, m)
  PROVE  tasks' \in [Guard -> SUBSET Task]
<1>1. [step |-> step, tx |-> m.tx, ts |-> m.ts, from |-> m.from] \in Task
  BY DEF Task
<1> QED
  BY <1>1 DEF Begin

LEMMA MessageFields ==
  ASSUME NEW m \in Message
  PROVE  m.tx \in Tx /\ m.ts \in Nat /\ m.from \in Guard
BY DEF Message

LEMMA TurnsKeepTypes == TypeInv /\ Turns => TypeInv'
<1> SUFFICES ASSUME TypeInv, Turns PROVE TypeInv'
  OBVIOUS
<1>1. CASE EndTurn
  <2>1. holder \in Guard
    BY AgreementAssumption DEF AgreementAssumption, TypeInv, TypeOK, ClockOK, holder
  <2>2. toClear' \in SUBSET (Guard \X {"transactions", "agreed"})
    BY <1>1, <2>1 DEF EndTurn
  <2>3. ClockOK' /\ turn' < MaxTurn
    BY <1>1, <2>2 DEF EndTurn, TypeInv, TypeOK, ClockOK
  <2> QED
    BY <1>1, <2>3, MemoryUnchanged, OutsideTypes DEF EndTurn, TypeInv, TypeOK
<1>2. CASE NextTurn
  <2>1. turn' \in 1..MaxTurn
    BY <1>2, Constants DEF NextTurn, TypeInv, TypeOK, ClockOK
  <2>2. gap' \in BOOLEAN /\ ~gap'
    BY <1>2 DEF NextTurn
  <2>3. round' \in {"none", "started", "requeued"}
    BY <1>2 DEF NextTurn
  <2>4. toClear' \in SUBSET (Guard \X {"transactions", "agreed"})
    BY <1>2 DEF NextTurn, TypeInv, TypeOK, ClockOK
  <2>5. ClockOK' /\ ~gap'
    BY <2>1, <2>2, <2>3, <2>4 DEF ClockOK
  <2> QED
    BY <1>2, <2>5, MemoryUnchanged, OutsideTypes DEF NextTurn, TypeInv, TypeOK
<1>3. ASSUME NEW g \in Guard, ClearTransactions(g) PROVE TypeInv'
  <2>1. ClockOK' /\ (gap' => turn' < MaxTurn)
    BY <1>3 DEF ClearTransactions, TypeInv, TypeOK, ClockOK
  <2>2. MemoryOK'
    BY <1>3 DEF ClearTransactions, TypeInv, TypeOK, MemoryOK, Nobody
  <2> QED
    BY <1>3, <2>1, <2>2, OutsideTypes DEF ClearTransactions, TypeInv, TypeOK
<1>4. ASSUME NEW g \in Guard, ClearAgreedTransactions(g) PROVE TypeInv'
  <2>1. ClockOK' /\ (gap' => turn' < MaxTurn)
    BY <1>4 DEF ClearAgreedTransactions, TypeInv, TypeOK, ClockOK
  <2>2. MemoryOK'
    BY <1>4 DEF ClearAgreedTransactions, TypeInv, TypeOK, MemoryOK, NotAgreed
  <2> QED
    BY <1>4, <2>1, <2>2, OutsideTypes DEF ClearAgreedTransactions, TypeInv, TypeOK
<1> QED
  BY <1>1, <1>2, <1>3, <1>4 DEF Turns

LEMMA ProposeKeepsTypes == TypeInv /\ Propose => TypeInv'
<1> SUFFICES ASSUME TypeInv, NEW g \in Guard,
                    \/ \E t \in Tx : GenerateTx(g, t) \/ BroadcastRequest(g, t)
                    \/ EnqueueSignFailedTxs(g) \/ RegisterCandidate(g)
                    \/ ResendTransactionRequests(g)
             PROVE  TypeInv'
  BY DEF Propose
<1> USE DEF TypeInv, TypeOK
<1>t. turn \in Nat
  BY Constants DEF ClockOK
<1>1. ASSUME NEW t \in Tx, GenerateTx(g, t) PROVE TypeInv'
  <2>1. MemoryOK'
    BY <1>1 DEF GenerateTx, MemoryOK
  <2>2. ClockOK' /\ (gap' => turn' < MaxTurn)
    BY <1>1 DEF GenerateTx, clock, ClockOK
  <2> QED
    BY <1>1, <2>1, <2>2, OutsideTypes DEF GenerateTx
<1>2. ASSUME NEW t \in Tx, BroadcastRequest(g, t) PROVE TypeInv'
  <2>1. MemoryOK'
    BY <1>2 DEF BroadcastRequest, MemoryOK
  <2>2. ClockOK' /\ (gap' => turn' < MaxTurn)
    BY <1>2 DEF BroadcastRequest, clock, ClockOK
  <2>3. Request(g, t, turn) \in Message
    BY <1>t DEF Request, Message
  <2>4. msgs' \in SUBSET Message
    BY <1>2, <2>3 DEF BroadcastRequest, Send
  <2>5. tasks' \in [Guard -> SUBSET Task]
    BY <1>2, <1>t, TasksBegun DEF BroadcastRequest, Request, Step
  <2> QED
    BY <1>2, <2>1, <2>2, <2>4, <2>5, OutsideTypes DEF BroadcastRequest
<1>3. CASE EnqueueSignFailedTxs(g)
  <2>1. MemoryOK'
    BY <1>3 DEF EnqueueSignFailedTxs, MemoryOK
  <2>2. ClockOK' /\ (gap' => turn' < MaxTurn)
    BY <1>3 DEF EnqueueSignFailedTxs, ClockOK
  <2> QED
    BY <1>3, <2>1, <2>2, OutsideTypes DEF EnqueueSignFailedTxs
<1>4. CASE RegisterCandidate(g)
  <2>1. PICK task \in tasks[g] :
          /\ transactions' = [transactions EXCEPT ![g][task.tx] = task.ts]
          /\ approvals' = [approvals EXCEPT ![g][task.tx] = [Nobody EXCEPT ![g] = task.ts]]
          /\ Finish(g, task)
          /\ UNCHANGED <<clock, queue, agreed, outside, msgs, faults>>
    BY <1>4 DEF RegisterCandidate
  <2>2. task.ts \in Nat
    BY <2>1 DEF Task
  <2>3. [Nobody EXCEPT ![g] = task.ts] \in [Guard -> Nat]
    BY <2>2 DEF Nobody
  <2>4. MemoryOK'
    BY <2>1, <2>2, <2>3 DEF MemoryOK
  <2>5. ClockOK' /\ (gap' => turn' < MaxTurn)
    BY <2>1 DEF clock, ClockOK
  <2> QED
    BY <2>1, <2>4, <2>5, TasksKept, OutsideTypes
<1>5. CASE ResendTransactionRequests(g)
  <2>1. ASSUME NEW t \in Tx PROVE Request(g, t, transactions[g][t]) \in Message
    <3>1. transactions[g][t] \in Nat
      BY DEF MemoryOK
    <3> QED
      BY <3>1 DEF Request, Message
  <2>2. msgs' \in SUBSET Message
    BY <1>5, <2>1 DEF ResendTransactionRequests, Send
  <2>3. ClockOK' /\ (gap' => turn' < MaxTurn)
    BY <1>5 DEF ResendTransactionRequests, clock, ClockOK
  <2> QED
    BY <1>5, <2>2, <2>3, MemoryUnchanged, OutsideTypes DEF ResendTransactionRequests
<1> QED
  BY <1>1, <1>2, <1>3, <1>4, <1>5

\* Receiving a message begins a task and changes nothing else, except that a
\* response is noted in the approvals.
LEMMA ReceiveKeepsTypes ==
  ASSUME TypeInv, NEW g \in Guard, NEW m \in msgs,
         HandleRequest(g, m) \/ HandleResponse(g, m) \/ HandleApproval(g, m)
  PROVE  TypeInv'
<1> USE DEF TypeInv, TypeOK
<1>1. m.tx \in Tx /\ m.ts \in Nat /\ m.from \in Guard
  BY MessageFields
<1>2. \E step \in Step : Begin(g, step, m)
  BY DEF HandleRequest, HandleResponse, HandleApproval, StoreCandidate, VerifyUnknown, Step
<1>3. tasks' \in [Guard -> SUBSET Task]
  BY <1>1, <1>2, TasksBegun
<1>4. UNCHANGED <<clock, outside, msgs, faults>>
  BY DEF HandleRequest, HandleResponse, HandleApproval
<1>5. MemoryOK'
  <2>1. CASE HandleResponse(g, m)
    BY <2>1, <1>1 DEF HandleResponse, MemoryOK
  <2>2. CASE HandleRequest(g, m) \/ HandleApproval(g, m)
    BY <2>2, MemoryUnchanged DEF HandleRequest, HandleApproval
  <2> QED
    BY <2>1, <2>2
<1>6. gap' => turn' < MaxTurn
  BY <1>4 DEF clock
<1> QED
  BY <1>3, <1>4, <1>5, <1>6, ClockUnchanged, OutsideTypes

LEMMA KeyType == \A t \in Tx : Key(t) \in AgreedKey
BY Constants DEF Key, AgreedKey, ChainKey

LEMMA AgreeKeepsMemory ==
  ASSUME TypeInv, NEW g \in Guard, NEW t \in Tx, AgreeTo(g, t),
         UNCHANGED <<queue, approvals>>,
         transactions' \in [Guard -> [Tx -> Nat]]
  PROVE  MemoryOK'
<1>1. turn \in Nat
  BY Constants DEF TypeInv, TypeOK, ClockOK
<1>2. [tx |-> t, since |-> turn] \in [tx : Tx \cup {NoTx}, since : Nat]
  BY <1>1
<1>3. agreed \in [Guard -> [AgreedKey -> [tx : Tx \cup {NoTx}, since : Nat]]]
  BY DEF TypeInv, TypeOK, MemoryOK
<1>4. agreed' \in [Guard -> [AgreedKey -> [tx : Tx \cup {NoTx}, since : Nat]]]
  BY <1>2, <1>3, KeyType DEF AgreeTo
<1> QED
  BY <1>4 DEF TypeInv, TypeOK, MemoryOK

LEMMA TaskKeepsTypes ==
  ASSUME TypeInv, NEW g \in Guard,
         \/ CheckAgreed(g) \/ AgreeToRequest(g) \/ CountApprovals(g) \/ AgreeToApproval(g)
         \/ Reject(g) \/ SetTxAsApproved(g) \/ Abandon(g)
  PROVE  TypeInv'
<1> USE DEF TypeInv, TypeOK
<1>s. {"verifyRequest", "verifyApproval", "storeCounted", "store"} \subseteq Step
  BY DEF Step
<1>c. UNCHANGED clock => ClockOK' /\ (gap' => turn' < MaxTurn)
  BY ClockUnchanged DEF clock
<1>1. CASE CheckAgreed(g)
  BY <1>1, <1>s, <1>c, TasksKept, MemoryUnchanged, OutsideTypes DEF CheckAgreed
<1>2. CASE AgreeToRequest(g)
  <2>1. PICK task \in tasks[g] :
          /\ AgreeTo(g, task.tx)
          /\ transactions' = [transactions EXCEPT ![g][task.tx] = task.ts]
          /\ Send({[type |-> "response", tx |-> task.tx, ts |-> task.ts,
                    from |-> g, to |-> task.from]})
          /\ Finish(g, task)
          /\ UNCHANGED <<clock, queue, approvals, outside, faults>>
    BY <1>2 DEF AgreeToRequest
  <2>2. task.tx \in Tx /\ task.ts \in Nat /\ task.from \in Guard
    BY DEF Task
  <2>3. [type |-> "response", tx |-> task.tx, ts |-> task.ts,
         from |-> g, to |-> task.from] \in Message
    BY <2>2 DEF Message
  <2>4. msgs' \in SUBSET Message
    BY <2>1, <2>3 DEF Send
  <2>5. transactions' \in [Guard -> [Tx -> Nat]]
    BY <2>1, <2>2 DEF MemoryOK
  <2>6. MemoryOK'
    BY <2>1, <2>2, <2>5, AgreeKeepsMemory
  <2> QED
    BY <2>1, <2>4, <2>6, <1>c, TasksKept, OutsideTypes
<1>3. CASE CountApprovals(g)
  <2>1. PICK task \in tasks[g] :
          /\ \/ /\ Send({[type |-> "approval", tx |-> task.tx, ts |-> task.ts,
                          from |-> g, signs |-> approvals[g][task.tx]]})
                /\ Continue(g, task, "storeCounted")
             \/ Finish(g, task) /\ UNCHANGED msgs
          /\ UNCHANGED <<clock, memory, outside, faults>>
    BY <1>3 DEF CountApprovals
  <2>2. task.tx \in Tx /\ task.ts \in Nat
    BY DEF Task
  <2>3. approvals[g][task.tx] \in [Guard -> Nat]
    BY <2>2 DEF MemoryOK
  <2>4. [type |-> "approval", tx |-> task.tx, ts |-> task.ts,
         from |-> g, signs |-> approvals[g][task.tx]] \in Message
    BY <2>2, <2>3 DEF Message
  <2>5. msgs' \in SUBSET Message
    BY <2>1, <2>4 DEF Send
  <2>6. tasks' \in [Guard -> SUBSET Task]
    BY <2>1, <1>s, TasksKept
  <2> QED
    BY <2>1, <2>5, <2>6, <1>c, MemoryUnchanged, OutsideTypes
<1>4. CASE AgreeToApproval(g)
  <2>1. PICK task \in tasks[g] :
          /\ AgreeTo(g, task.tx)
          /\ Continue(g, task, "store")
          /\ UNCHANGED <<clock, queue, transactions, approvals, outside, msgs, faults>>
    BY <1>4 DEF AgreeToApproval
  <2>2. task.tx \in Tx
    BY DEF Task
  <2>3. MemoryOK'
    BY <2>1, <2>2, AgreeKeepsMemory DEF MemoryOK
  <2>4. tasks' \in [Guard -> SUBSET Task]
    BY <2>1, <1>s, TasksKept
  <2> QED
    BY <2>1, <2>3, <2>4, <1>c, OutsideTypes
<1>5. CASE Reject(g)
  BY <1>5, <1>c, TasksKept, MemoryUnchanged, OutsideTypes DEF Reject
<1>6. CASE SetTxAsApproved(g)
  <2>1. PICK task \in tasks[g] :
          /\ InsertTx(g, task.tx)
          /\ transactions' = [transactions EXCEPT ![g][task.tx] = 0]
          /\ approvals' = [approvals EXCEPT ![g][task.tx] = Nobody]
          /\ agreed' = [agreed EXCEPT ![g] = [k \in AgreedKey |->
               IF (ForEvent(task.tx) /\ k = OwnerOf[task.tx]) \/ k = ChainKey(task.tx)
               THEN NotAgreed ELSE @[k]]]
          /\ Finish(g, task)
          /\ UNCHANGED <<clock, queue, confirmed, took, msgs, faults>>
    BY <1>6 DEF SetTxAsApproved
  <2>2. Nobody \in [Guard -> Nat] /\ NotAgreed \in [tx : Tx \cup {NoTx}, since : Nat]
    BY DEF Nobody, NotAgreed
  <2>3. MemoryOK'
    BY <2>1, <2>2 DEF MemoryOK
  <2>4. row' \in [Guard -> [Tx -> RowState]]
    BY <2>1 DEF InsertTx, OutsideOK, RowState
  <2>5. OutsideOK'
    BY <2>1, <2>4 DEF OutsideOK
  <2> QED
    BY <2>1, <2>3, <2>5, <1>c, TasksKept
<1>7. CASE Abandon(g)
  <2>1. PICK task \in tasks[g] :
          /\ faults' = faults + 1
          /\ Finish(g, task)
          /\ UNCHANGED <<clock, memory, outside, msgs>>
    BY <1>7 DEF Abandon
  <2> QED
    BY <2>1, <1>c, TasksKept, MemoryUnchanged, OutsideTypes
<1> QED
  BY <1>1, <1>2, <1>3, <1>4, <1>5, <1>6, <1>7

LEMMA TableKeepsTypes == TypeInv /\ Table => TypeInv'
<1> SUFFICES ASSUME TypeInv, Table PROVE TypeInv'
  OBVIOUS
<1> USE DEF TypeInv, TypeOK
<1>1. UNCHANGED <<clock, memory, tasks, msgs, faults>>
  BY DEF Table, Advance, Invalidate, Confirm
<1>2. OutsideOK'
  <2>1. ASSUME NEW g \in Guard, NEW t \in Tx, Advance(g, t) PROVE OutsideOK'
    BY <2>1 DEF Advance, OutsideOK, RowState
  <2>2. ASSUME NEW g \in Guard, NEW t \in Tx, Invalidate(g, t) PROVE OutsideOK'
    BY <2>2 DEF Invalidate, OutsideOK, RowState
  <2>3. ASSUME NEW t \in Tx, Confirm(t) PROVE OutsideOK'
    BY <2>3 DEF Confirm, OutsideOK
  <2> QED
    BY <2>1, <2>2, <2>3 DEF Table
<1> QED
  BY <1>1, <1>2, ClockUnchanged, MemoryUnchanged DEF clock

LEMMA CrashKeepsTypes ==
  ASSUME TypeInv, NEW g \in Guard, Crash(g)
  PROVE  TypeInv'
<1> USE DEF TypeInv, TypeOK
<1>1. MemoryOK'
  BY DEF Crash, MemoryOK, Nobody, NotAgreed
<1>2. ClockOK' /\ (gap' => turn' < MaxTurn)
  BY DEF Crash, ClockOK
<1>3. tasks' \in [Guard -> SUBSET Task] /\ faults' \in Nat
  BY DEF Crash
<1> QED
  BY <1>1, <1>2, <1>3, OutsideTypes DEF Crash

LEMMA NextTypes == TypeInv /\ [Next]_vars => TypeInv'
<1>1. TypeInv /\ UNCHANGED vars => TypeInv'
  BY ClockUnchanged, MemoryUnchanged, OutsideTypes DEF vars, TypeInv, TypeOK, clock
<1>2. TypeInv /\ ProcessMessage => TypeInv'
  BY ReceiveKeepsTypes, TaskKeepsTypes DEF ProcessMessage
<1> QED
  BY <1>1, <1>2, TurnsKeepTypes, ProposeKeepsTypes, TableKeepsTypes, CrashKeepsTypes DEF Next

\* Every map, message and task of every guard keeps its type, across turns,
\* crashes and handlers that run late.
THEOREM TypeCorrect == Spec => []TypeOK
<1>1. Spec => []TypeInv
  BY InitTypes, NextTypes, PTL DEF Spec
<1>2. TypeInv => TypeOK
  BY DEF TypeInv
<1> QED
  BY <1>1, <1>2, PTL

-----------------------------------------------------------------------------
(* Each guard's table lives like GuardTable: where insertTx makes room for *)
(* a transaction there is one other to remove, because there was one       *)
(* valid.                                                                  *)

LEMMA TableAlike == \A g : \A t, u : TableOf(g)!Alike(t, u) <=> Alike(t, u)
BY DEF TableOf!Alike, Alike, TableOf!Owned, Owned, TableOf!OwnedType, OwnedType

LEMMA InsertIsTabled ==
  ASSUME TableInv, NEW g \in Guard, NEW t \in Tx, InsertTx(g, t), row'[g] # row[g]
  PROVE  TableOf(g)!Next
<1> DEFINE replaced == {u \in Rivals(g, t) : row[g][u] = "approved" /\ t < u}
<1>1. /\ row[g][t] = "none" /\ Rivals(g, t) = replaced
      /\ row' = [row EXCEPT ![g] = [u \in Tx |->
                   IF u = t THEN "approved"
                   ELSE IF u \in replaced THEN "none" ELSE @[u]]]
  BY DEF InsertTx
<1>2. row[g] \in [Tx -> RowState]
  BY DEF TableInv
<1>3. row'[g] = [u \in Tx |-> IF u = t THEN "approved"
                             ELSE IF u \in replaced THEN "none" ELSE row[g][u]]
  BY <1>1 DEF TableInv
<1>4. \A u \in replaced : u \in Tx /\ Alike(t, u) /\ row[g][u] = "approved" /\ t < u
  BY DEF Rivals
<1>5. \A u, v \in replaced : u = v
  <2> SUFFICES ASSUME NEW u \in replaced, NEW v \in replaced, u # v PROVE FALSE
    OBVIOUS
  <2>1. Alike(u, v)
    BY <1>4 DEF Alike, Owned
  <2> QED
    BY <1>4, <2>1 DEF TableInv, OneValid, Valid
<1> HIDE DEF replaced
<1>6. CASE replaced = {}
  <2>1. row'[g] = [row[g] EXCEPT ![t] = "approved"]
    BY <1>2, <1>3, <1>6
  <2>2. \A u \in Tx : ~TableOf(g)!IsRival(t, u)
    BY <1>1, <1>6, TableAlike DEF TableOf!IsRival, Rivals, Valid
  <2>3. TableOf(g)!Insert(t)
    BY <1>1, <2>1, <2>2 DEF TableOf!Insert
  <2> QED
    BY <2>3 DEF TableOf!Next
<1>7. CASE replaced # {}
  <2>1. PICK old \in replaced : TRUE
    BY <1>7
  <2>2. replaced = {old}
    BY <1>5, <2>1
  <2>3. row'[g] = [row[g] EXCEPT ![old] = "none", ![t] = "approved"]
    BY <1>1, <1>2, <1>3, <1>4, <2>2
  <2>4. TableOf(g)!Displace(old, t)
    BY <1>1, <1>4, <2>1, <2>3, TableAlike DEF TableOf!Displace
  <2> QED
    BY <1>4, <2>1, <2>4 DEF TableOf!Next
<1> QED
  BY <1>6, <1>7

\* the only steps that touch a table
LEMMA TableTouched ==
  ASSUME TypeInv, [Next]_vars, row' # row
  PROVE  \E g \in Guard, t \in Tx : Advance(g, t) \/ Invalidate(g, t) \/ InsertTx(g, t)
<1>1. ~(Turns \/ Propose \/ (\E g \in Guard : Crash(g)) \/ UNCHANGED vars)
  BY DEF Turns, EndTurn, NextTurn, ClearTransactions, ClearAgreedTransactions,
     Propose, GenerateTx, BroadcastRequest, EnqueueSignFailedTxs,
     RegisterCandidate, ResendTransactionRequests, Crash, vars, outside
<1>2. CASE ProcessMessage
  <2>1. PICK g \in Guard : SetTxAsApproved(g)
    BY <1>2 DEF ProcessMessage, HandleRequest, HandleResponse, HandleApproval, CheckAgreed,
       AgreeToRequest, CountApprovals, AgreeToApproval, Reject, Abandon, outside
  <2>2. PICK task \in tasks[g] : InsertTx(g, task.tx)
    BY <2>1 DEF SetTxAsApproved
  <2>3. task.tx \in Tx
    BY DEF TypeInv, TypeOK, Task
  <2> QED
    BY <2>2, <2>3
<1>3. CASE Table
  BY <1>3 DEF Table, Confirm
<1> QED
  BY <1>1, <1>2, <1>3 DEF Next

LEMMA StepIsTabled ==
  ASSUME TypeInv, TableInv, [Next]_vars, NEW g \in Guard, row'[g] # row[g]
  PROVE  TableOf(g)!Next
<1> USE DEF TableInv
<1>1. PICK h \in Guard, t \in Tx : Advance(h, t) \/ Invalidate(h, t) \/ InsertTx(h, t)
  BY TableTouched
<1>2. CASE Advance(h, t)
  <2>1. h = g /\ row[g][t] = "approved" /\ row'[g] = [row[g] EXCEPT ![t] = "advanced"]
    BY <1>2 DEF Advance
  <2> QED
    BY <2>1 DEF TableOf!Next, TableOf!Take
<1>3. CASE Invalidate(h, t)
  <2>1. h = g /\ row[g][t] = "advanced" /\ row'[g] = [row[g] EXCEPT ![t] = "invalid"]
    BY <1>3 DEF Invalidate
  <2> QED
    BY <2>1 DEF TableOf!Next, TableOf!GiveUp
<1>4. CASE InsertTx(h, t)
  <2>1. h = g
    BY <1>4 DEF InsertTx
  <2> QED
    BY <1>4, <2>1, InsertIsTabled
<1> QED
  BY <1>1, <1>2, <1>3, <1>4

\* Whatever the guards agree to and forget, and however late they store it,
\* the table of each of them is the one that TransactionProcessor implements.
THEOREM TablesKept == Spec => ImplementsTables
<1>1. Init => \A g \in Guard : TableOf(g)!Init
  BY DEF Init, TableOf!Init
<1>2. TypeInv /\ TableInv /\ [Next]_vars
        => [\A g \in Guard : row'[g] = row[g] \/ TableOf(g)!Next]_row
  BY StepIsTabled
<1>3. Spec => [](TypeInv /\ TableInv)
  BY InitTypes, NextTypes, InitTable, NextTable, PTL DEF Spec
<1> QED
  BY <1>1, <1>2, <1>3, PTL DEF Spec, ImplementsTables

-----------------------------------------------------------------------------
(* How long an agreement lasts.  In the gap, what is older than this turn  *)
(* is still to be cleared.                                                 *)

RecentInv == \A g \in Guard, k \in AgreedKey \ OrderKey :
  agreed[g][k].tx # NoTx =>
    /\ agreed[g][k].since + 1 >= turn
    /\ gap => agreed[g][k].since = turn \/ <<g, "agreed">> \in toClear

LEMMA InitRecent == Init => RecentInv
BY DEF Init, RecentInv, NotAgreed

\* A step that keeps the time keeps the invariant if it adds no agreement but
\* those of this turn.
LEMMA SameTurnRecent ==
  ASSUME TypeInv, RecentInv, turn' = turn, gap' = gap,
         \A g \in Guard, k \in AgreedKey \ OrderKey :
           \/ agreed'[g][k] = agreed[g][k]
           \/ agreed'[g][k].tx = NoTx
           \/ agreed'[g][k].since = turn,
         \A g \in Guard : <<g, "agreed">> \in toClear =>
           \/ <<g, "agreed">> \in toClear'
           \/ \A k \in AgreedKey \ OrderKey : agreed'[g][k].tx = NoTx
  PROVE  RecentInv'
<1>1. turn \in Nat
  BY Constants DEF TypeInv, TypeOK, ClockOK
<1> QED
  BY <1>1 DEF RecentInv

\* Most steps change neither the time nor the agreements.
LEMMA OtherRecent ==
  ASSUME TypeInv, RecentInv, UNCHANGED <<turn, gap, toClear, agreed>>
  PROVE  RecentInv'
BY SameTurnRecent

LEMMA AgreeRecent ==
  ASSUME TypeInv, RecentInv, NEW g \in Guard, NEW t \in Tx, AgreeTo(g, t),
         UNCHANGED clock
  PROVE  RecentInv'
<1>1. agreed \in [Guard -> [AgreedKey -> [tx : Tx \cup {NoTx}, since : Nat]]]
  BY DEF TypeInv, TypeOK, MemoryOK
<1>2. \A h \in Guard, k \in AgreedKey :
        agreed'[h][k] = agreed[h][k] \/ agreed'[h][k].since = turn
  BY <1>1 DEF AgreeTo
<1> QED
  BY <1>2, SameTurnRecent DEF clock

LEMMA TurnsRecent == TypeInv /\ RecentInv /\ Turns => RecentInv'
<1> SUFFICES ASSUME TypeInv, RecentInv, Turns PROVE RecentInv'
  OBVIOUS
<1>a. agreed \in [Guard -> [AgreedKey -> [tx : Tx \cup {NoTx}, since : Nat]]]
  BY DEF TypeInv, TypeOK, MemoryOK
<1>t. turn \in Nat
  BY Constants DEF TypeInv, TypeOK, ClockOK
<1>1. CASE EndTurn
  <2>1. \A g \in Guard : <<g, "agreed">> \in toClear'
    BY <1>1 DEF EndTurn
  <2>2. turn' = turn /\ agreed' = agreed
    BY <1>1 DEF EndTurn, memory
  <2> QED
    BY <2>1, <2>2 DEF RecentInv
<1>2. CASE NextTurn
  <2>1. gap /\ toClear = {} /\ turn' = turn + 1 /\ ~gap' /\ agreed' = agreed
    BY <1>2 DEF NextTurn, memory
  <2> QED
    BY <1>a, <1>t, <2>1 DEF RecentInv
<1>3. ASSUME NEW g \in Guard, ClearTransactions(g) PROVE RecentInv'
  BY <1>3, SameTurnRecent DEF ClearTransactions
<1>4. ASSUME NEW g \in Guard, ClearAgreedTransactions(g) PROVE RecentInv'
  <2>1. \A h \in Guard, k \in AgreedKey \ OrderKey :
          agreed'[h][k] = IF h = g THEN NotAgreed ELSE agreed[h][k]
    BY <1>4, <1>a DEF ClearAgreedTransactions
  <2>2. \A h \in Guard : <<h, "agreed">> \in toClear =>
          <<h, "agreed">> \in toClear' \/ h = g
    BY <1>4 DEF ClearAgreedTransactions
  <2> QED
    BY <1>4, <2>1, <2>2, SameTurnRecent DEF ClearAgreedTransactions, NotAgreed
<1> QED
  BY <1>1, <1>2, <1>3, <1>4 DEF Turns

LEMMA ApprovedRecent ==
  ASSUME TypeInv, RecentInv, NEW g \in Guard, SetTxAsApproved(g)
  PROVE  RecentInv'
<1>1. agreed \in [Guard -> [AgreedKey -> [tx : Tx \cup {NoTx}, since : Nat]]]
  BY DEF TypeInv, TypeOK, MemoryOK
<1>2. \A h \in Guard, k \in AgreedKey :
        agreed'[h][k] = agreed[h][k] \/ agreed'[h][k] = NotAgreed
  BY <1>1 DEF SetTxAsApproved
<1> QED
  BY <1>2, SameTurnRecent DEF SetTxAsApproved, clock, NotAgreed

LEMMA CrashRecent ==
  ASSUME TypeInv, RecentInv, NEW g \in Guard, Crash(g)
  PROVE  RecentInv'
<1>1. agreed \in [Guard -> [AgreedKey -> [tx : Tx \cup {NoTx}, since : Nat]]]
  BY DEF TypeInv, TypeOK, MemoryOK
<1>2. \A h \in Guard, k \in AgreedKey :
        agreed'[h][k] = agreed[h][k] \/ agreed'[h][k] = NotAgreed
  BY <1>1 DEF Crash
<1>3. turn' = turn /\ gap' = gap
      /\ \A h \in Guard : <<h, "agreed">> \in toClear => <<h, "agreed">> \in toClear'
  BY DEF Crash
<1> QED
  BY <1>2, <1>3, SameTurnRecent DEF NotAgreed

LEMMA NextRecent == TypeInv /\ RecentInv /\ [Next]_vars => RecentInv'
<1> SUFFICES ASSUME TypeInv, RecentInv, [Next]_vars PROVE RecentInv'
  OBVIOUS
<1>1. CASE Propose
  BY <1>1, OtherRecent
  DEF Propose, GenerateTx, BroadcastRequest, EnqueueSignFailedTxs,
      RegisterCandidate, ResendTransactionRequests, clock, memory
<1>2. CASE ProcessMessage
  <2>1. PICK g \in Guard :
          \/ \E m \in msgs : HandleRequest(g, m) \/ HandleResponse(g, m) \/ HandleApproval(g, m)
          \/ CheckAgreed(g) \/ AgreeToRequest(g) \/ CountApprovals(g) \/ AgreeToApproval(g)
          \/ Reject(g) \/ SetTxAsApproved(g) \/ Abandon(g)
    BY <1>2 DEF ProcessMessage
  <2>2. CASE AgreeToRequest(g) \/ AgreeToApproval(g)
    <3>1. PICK task \in tasks[g] : AgreeTo(g, task.tx) /\ UNCHANGED clock
      BY <2>2 DEF AgreeToRequest, AgreeToApproval
    <3>2. task.tx \in Tx
      BY DEF TypeInv, TypeOK, Task
    <3> QED
      BY <3>1, <3>2, AgreeRecent
  <2>3. CASE SetTxAsApproved(g)
    BY <2>3, ApprovedRecent
  <2>4. CASE ~(AgreeToRequest(g) \/ AgreeToApproval(g) \/ SetTxAsApproved(g))
    BY <2>1, <2>4, OtherRecent
    DEF HandleRequest, HandleResponse, HandleApproval, CheckAgreed,
        CountApprovals, Reject, Abandon, clock, memory
  <2> QED
    BY <2>2, <2>3, <2>4
<1>3. CASE Table
  BY <1>3, OtherRecent DEF Table, Advance, Invalidate, Confirm, clock, memory
<1>4. CASE UNCHANGED vars
  BY <1>4, OtherRecent DEF vars, clock, memory
<1> QED
  BY <1>1, <1>2, <1>3, <1>4, TurnsRecent, CrashRecent DEF Next

\* No guard refuses a transaction of an event or of a chain for the sake of
\* one that it agreed to before the last turn, however late its handlers run.
THEOREM AgreementsForgotten == Spec => []AgreementIsRecent
<1>1. Spec => [](TypeInv /\ RecentInv)
  BY InitTypes, NextTypes, InitRecent, NextRecent, PTL DEF Spec
<1>2. RecentInv => AgreementIsRecent
  BY DEF RecentInv, AgreementIsRecent
<1> QED
  BY <1>1, <1>2, PTL

-----------------------------------------------------------------------------
(* What a guard stores was signed by a quorum.  Once a quorum signed one   *)
(* proposal of a transaction it has signed it for ever, so that the table  *)
(* needs an argument only up to that moment.  Until then nobody has stored *)
(* the transaction, nobody but its creator has it in its queue, and every  *)
(* timestamp that is about for it is one of a request of the creator.      *)
(* What the creator has counted of the others was signed with one          *)
(* timestamp: the approvals of an earlier proposal are gone before         *)
(* responses to a later one count.                                         *)

Asked(t, ts) == Request(CreatorOf[t], t, ts) \in msgs
Response(h, g, t, ts) == [type |-> "response", tx |-> t, ts |-> ts, from |-> h, to |-> g]

Backed(t) == \E ts \in 1..turn : {h \in Guard : SignedProposal(h, t, ts)} \in Quorums

\* the creator's candidates and approvals will be cleared in the next gap
InTime(t, ts) ==
  /\ ts = turn /\ InRound
  /\ gap => <<CreatorOf[t], "transactions">> \in toClear

Follows(t, m) ==
  /\ m.type \in {"request", "response"}
  /\ Asked(t, m.ts)
  /\ m.type = "response" => Request(m.to, t, m.ts) \in msgs

CreatorAsks(t) == \A m \in msgs : m.tx = t =>
  m.ts \in 1..turn /\ Holder[m.ts] = CreatorOf[t] /\ Follows(t, m)

NothingStored(t) == \A g \in Guard :
  row[g][t] = "none" /\ (t \in queue[g] => g = CreatorOf[t])

Early(t, g, task) ==
  /\ task.step \in {"register", "request", "verifyRequest", "count"}
  /\ Asked(t, task.ts)
  /\ task.step = "register" =>
       /\ g = CreatorOf[t]
       /\ \A ts \in 1..turn : Asked(t, ts) => ts <= task.ts
  /\ task.step \in {"request", "verifyRequest"} =>
       /\ Request(task.from, t, task.ts) \in msgs
       /\ g = CreatorOf[t] => task.ts < turn /\ Holder[task.ts + 1] # g

NoApprovalYet(t) == \A g \in Guard : \A task \in tasks[g] :
  task.tx = t => Early(t, g, task)

CandidateAsked(t) ==
  /\ \A g \in Guard : transactions[g][t] # 0 => Asked(t, transactions[g][t])
  /\ transactions[CreatorOf[t]][t] # 0 =>
       \A ts \in 1..turn : Asked(t, ts) /\ ts = transactions[CreatorOf[t]][t] + 1
                           => InTime(t, ts)

\* h is not the creator, whose own signature may be of another proposal
CountedOf(t, h) ==
  LET c == CreatorOf[t]
      s == approvals[c][t][h] IN
  s # 0 =>
    /\ Response(h, c, t, s) \in msgs
    /\ \A ts \in 1..turn : Asked(t, ts) /\ ts > s => InTime(t, ts)
    /\ transactions[c][t] \in {0, s} \/ transactions[c][t] + 1 < s
    /\ \A k \in Guard \ {c} : approvals[c][t][k] \in {0, s}

OneProposalCounted(t) ==
  /\ \A g \in Guard \ {CreatorOf[t]} : approvals[g][t] = Nobody
  /\ LET own == approvals[CreatorOf[t]][t][CreatorOf[t]] IN own # 0 => Asked(t, own)
  /\ \A h \in Guard \ {CreatorOf[t]} : CountedOf(t, h)

Unstored(t) ==
  /\ CreatorAsks(t)
  /\ NothingStored(t)
  /\ NoApprovalYet(t)
  /\ CandidateAsked(t)
  /\ OneProposalCounted(t)

QuorumInv == \A t \in Tx : Backed(t) \/ Unstored(t)

LEMMA CreatorType == \A t \in Tx : CreatorOf[t] \in Guard
BY AgreementAssumption DEF AgreementAssumption

LEMMA AskedWhen ==
  ASSUME NEW t \in Tx, NEW ts, CreatorAsks(t), Asked(t, ts)
  PROVE  ts \in 1..turn /\ Holder[ts] = CreatorOf[t]
BY DEF CreatorAsks, Asked, Request

LEMMA InitQuorum == Init => QuorumInv
<1> SUFFICES ASSUME Init PROVE QuorumInv
  OBVIOUS
<1>1. ASSUME NEW t \in Tx PROVE Unstored(t)
  <2>1. CreatorAsks(t)
    BY DEF Init, CreatorAsks
  <2>2. NothingStored(t) /\ NoApprovalYet(t)
    BY DEF Init, NothingStored, NoApprovalYet, Empty
  <2>3. \A g \in Guard : transactions[g][t] = 0
    BY DEF Init
  <2>4. CandidateAsked(t)
    BY <2>3, CreatorType DEF CandidateAsked
  <2>5. OneProposalCounted(t)
    BY CreatorType DEF Init, OneProposalCounted, CountedOf, Nobody
  <2> QED
    BY <2>1, <2>2, <2>4, <2>5 DEF Unstored
<1> QED
  BY <1>1, Zenon DEF QuorumInv

\* No quorum is empty.
LEMMA QuorumHasMember == ~HasQuorum({})
<1>1. IsFiniteSet(Guard) /\ RequiredSign \in Nat
      /\ 2 * RequiredSign > Cardinality(Guard)
  BY AgreementAssumption DEF AgreementAssumption
<1>2. Cardinality(Guard) \in Nat /\ Cardinality({}) = 0
  BY <1>1, FS_CardinalityType, FS_EmptySet
<1> QED
  BY <1>1, <1>2 DEF HasQuorum

\* What was sent stays sent, and so a proposal that a quorum signed stays one.
LEMMA MessagesStay == [Next]_vars => msgs \subseteq msgs'
<1> SUFFICES ASSUME [Next]_vars PROVE msgs \subseteq msgs'
  OBVIOUS
<1>1. CASE Turns
  BY <1>1 DEF Turns, EndTurn, NextTurn, ClearTransactions, ClearAgreedTransactions
<1>2. CASE Propose
  BY <1>2 DEF Propose, GenerateTx, BroadcastRequest, EnqueueSignFailedTxs,
      RegisterCandidate, ResendTransactionRequests, Send
<1>3. CASE ProcessMessage
  <2>1. ASSUME NEW g \in Guard, NEW m \in msgs,
               HandleRequest(g, m) \/ HandleResponse(g, m) \/ HandleApproval(g, m)
        PROVE  msgs \subseteq msgs'
    BY <2>1 DEF HandleRequest, HandleResponse, HandleApproval, Send
  <2>2. ASSUME NEW g \in Guard,
               CheckAgreed(g) \/ AgreeToRequest(g) \/ CountApprovals(g) \/ AgreeToApproval(g)
        PROVE  msgs \subseteq msgs'
    BY <2>2 DEF CheckAgreed, AgreeToRequest, CountApprovals, AgreeToApproval, Send
  <2>3. ASSUME NEW g \in Guard, Reject(g) \/ SetTxAsApproved(g) \/ Abandon(g)
        PROVE  msgs \subseteq msgs'
    BY <2>3 DEF Reject, SetTxAsApproved, Abandon, Send
  <2> QED
    BY <1>3, <2>1, <2>2, <2>3 DEF ProcessMessage
<1>4. CASE Table
  BY <1>4 DEF Table, Advance, Invalidate, Confirm
<1>5. CASE \E g \in Guard : Crash(g)
  BY <1>5 DEF Crash
<1> QED
  BY <1>1, <1>2, <1>3, <1>4, <1>5 DEF Next, vars

LEMMA TurnStays == TypeInv /\ [Next]_vars => turn' \in {turn, turn + 1}
<1> SUFFICES ASSUME TypeInv, [Next]_vars PROVE turn' \in {turn, turn + 1}
  OBVIOUS
<1>1. CASE Turns
  BY <1>1 DEF Turns, EndTurn, NextTurn, ClearTransactions, ClearAgreedTransactions
<1>2. CASE Propose
  BY <1>2 DEF Propose, GenerateTx, BroadcastRequest, EnqueueSignFailedTxs,
      RegisterCandidate, ResendTransactionRequests, clock
<1>3. CASE ProcessMessage
  <2>1. ASSUME NEW g \in Guard, NEW m \in msgs,
               HandleRequest(g, m) \/ HandleResponse(g, m) \/ HandleApproval(g, m)
        PROVE  turn' \in {turn, turn + 1}
    BY <2>1 DEF HandleRequest, HandleResponse, HandleApproval, clock
  <2>2. ASSUME NEW g \in Guard,
               CheckAgreed(g) \/ AgreeToRequest(g) \/ CountApprovals(g) \/ AgreeToApproval(g)
        PROVE  turn' \in {turn, turn + 1}
    BY <2>2 DEF CheckAgreed, AgreeToRequest, CountApprovals, AgreeToApproval, clock
  <2>3. ASSUME NEW g \in Guard, Reject(g) \/ SetTxAsApproved(g) \/ Abandon(g)
        PROVE  turn' \in {turn, turn + 1}
    BY <2>3 DEF Reject, SetTxAsApproved, Abandon, clock
  <2> QED
    BY <1>3, <2>1, <2>2, <2>3 DEF ProcessMessage
<1>4. CASE Table
  BY <1>4 DEF Table, Advance, Invalidate, Confirm, clock
<1>5. CASE \E g \in Guard : Crash(g)
  BY <1>5 DEF Crash
<1> QED
  BY <1>1, <1>2, <1>3, <1>4, <1>5 DEF Next, vars, clock

LEMMA BackedStays ==
  ASSUME TypeInv, [Next]_vars, NEW t \in Tx, Backed(t)
  PROVE  Backed(t)'
<1>1. PICK ts \in 1..turn : {h \in Guard : SignedProposal(h, t, ts)} \in Quorums
  BY DEF Backed
<1>2. {h \in Guard : SignedProposal(h, t, ts)} \subseteq {h \in Guard : SignedProposal(h, t, ts)'}
  BY MessagesStay DEF SignedProposal
<1>3. {h \in Guard : SignedProposal(h, t, ts)'} \in Quorums
  BY <1>1, <1>2, QuorumGrows
<1>4. ts \in 1..turn'
  <2>1. turn \in Nat
    BY Constants DEF TypeInv, TypeOK, ClockOK
  <2> QED
    BY <1>1, <2>1, TurnStays
<1> QED
  BY <1>3, <1>4 DEF Backed

\* When the signatures that are counted are enough, they are a quorum's
\* signatures of one proposal.
LEMMA CountedIsBacked ==
  ASSUME TypeInv, NEW t \in Tx, NEW g \in Guard, Unstored(t),
         HasQuorum(Signers(approvals[g][t]))
  PROVE  Backed(t)
<1> DEFINE c == CreatorOf[t]
           signs == approvals[c][t]
<1>1. g = c
  <2>1. g # c => Signers(approvals[g][t]) = {}
    BY DEF Unstored, OneProposalCounted, Nobody, Signers
  <2> QED
    BY <2>1, QuorumHasMember
<1>2. Signers(signs) \in Quorums
  BY <1>1 DEF HasQuorum, Quorums, Signers
<1>3. signs \in [Guard -> Nat] /\ c \in Guard
  BY CreatorType DEF TypeInv, TypeOK, MemoryOK
<1>4. CASE \E h \in Guard \ {c} : signs[h] # 0
  <2>1. PICK h \in Guard \ {c} : signs[h] # 0
    BY <1>4
  <2> DEFINE s == signs[h]
  <2>2. \A k \in Guard \ {c} : signs[k] \in {0, s}
    BY <2>1 DEF Unstored, OneProposalCounted, CountedOf
  <2>3. Response(h, c, t, s) \in msgs
    BY <2>1 DEF Unstored, OneProposalCounted, CountedOf
  <2>4. s \in 1..turn /\ Request(c, t, s) \in msgs
    BY <2>3 DEF Unstored, CreatorAsks, Response, Follows
  <2>5. \A k \in Guard \ {c} : signs[k] # 0 => Response(k, c, t, s) \in msgs
    BY <2>2 DEF Unstored, OneProposalCounted, CountedOf
  <2>6. ASSUME NEW k \in Signers(signs) PROVE SignedProposal(k, t, s)
    <3>1. CASE k = c
      BY <2>4, <3>1 DEF SignedProposal
    <3>2. CASE k # c
      <4>1. Response(k, c, t, s) \in msgs
        BY <2>5, <3>2 DEF Signers
      <4>2. LET m == Response(k, c, t, s) IN
              m.type = "response" /\ m.from = k /\ m.tx = t /\ m.ts = s
        BY DEF Response
      <4> QED
        BY <4>1, <4>2 DEF SignedProposal
    <3> QED
      BY <3>1, <3>2
  <2>7. {k \in Guard : SignedProposal(k, t, s)} \in Quorums
    BY <1>2, <2>6, QuorumGrows DEF Signers
  <2> QED
    BY <2>4, <2>7 DEF Backed
<1>5. CASE \A h \in Guard \ {c} : signs[h] = 0
  <2>1. signs[c] # 0
    BY <1>1, <1>3, <1>5, QuorumHasMember DEF Signers
  <2> DEFINE s == signs[c]
  <2>2. Request(c, t, s) \in msgs /\ s \in 1..turn
    BY <2>1, AskedWhen DEF Unstored, OneProposalCounted, Asked
  <2>3. \A k \in Signers(signs) : SignedProposal(k, t, s)
    BY <1>5, <2>2 DEF Signers, SignedProposal
  <2>4. {k \in Guard : SignedProposal(k, t, s)} \in Quorums
    BY <1>2, <2>3, QuorumGrows DEF Signers
  <2> QED
    BY <2>2, <2>4 DEF Backed
<1> QED
  BY <1>4, <1>5

-----------------------------------------------------------------------------
\* A step says nothing new of t when it sends no first request for it, begins
\* no task but such as may run, and makes no candidate of the creator's.
NoNews(t) ==
  /\ turn' = turn
  /\ msgs \subseteq msgs'
  /\ \A m \in msgs' \ msgs : m.tx = t => Follows(t, m)
  /\ \A g \in Guard : /\ row'[g][t] = "none"
                      /\ t \in queue'[g] => g = CreatorOf[t]
                      /\ \A task \in tasks'[g] : task.tx = t => Early(t, g, task)
NoNewCandidate(t) ==
  /\ \A g \in Guard : \/ transactions'[g][t] \in {0, transactions[g][t]}
                      \/ g # CreatorOf[t] /\ Asked(t, transactions'[g][t])
  /\ \A g \in Guard : approvals'[g][t] \in {Nobody, approvals[g][t]}
  /\ \/ /\ transactions'[CreatorOf[t]][t] = 0
        /\ approvals'[CreatorOf[t]][t] = Nobody
     \/ \A ts : Asked(t, ts) /\ InTime(t, ts) => InTime(t, ts)'

LEMMA NoNewsKeeps ==
  ASSUME TypeInv, NEW t \in Tx, Unstored(t), NoNews(t)
  PROVE  /\ \A ts : Asked(t, ts)' <=> Asked(t, ts)
         /\ CreatorAsks(t)' /\ NothingStored(t)' /\ NoApprovalYet(t)'
<1>1. \A ts : Asked(t, ts)' <=> Asked(t, ts)
  <2>1. ASSUME NEW ts, Asked(t, ts)' PROVE Asked(t, ts)
    <3> DEFINE m == Request(CreatorOf[t], t, ts)
    <3>1. m \in msgs' /\ m.tx = t /\ m.ts = ts
      BY <2>1 DEF Asked, Request
    <3>2. m \notin msgs => Asked(t, m.ts)
      BY <3>1 DEF NoNews, Follows
    <3> QED
      BY <3>1, <3>2 DEF Asked
  <2> QED
    BY <2>1 DEF Asked, NoNews
<1>2. \A m : Follows(t, m) => Follows(t, m)'
  BY <1>1 DEF Follows, NoNews
<1>3. CreatorAsks(t)'
  <2> SUFFICES ASSUME NEW m \in msgs', m.tx = t
               PROVE  m.ts \in 1..turn /\ Holder[m.ts] = CreatorOf[t] /\ Follows(t, m)'
    BY DEF CreatorAsks, NoNews
  <2>1. Follows(t, m)
    BY DEF Unstored, CreatorAsks, NoNews
  <2>2. Asked(t, m.ts)
    BY <2>1 DEF Follows
  <2> QED
    BY <1>2, <2>1, <2>2, AskedWhen DEF Unstored
<1>4. NothingStored(t)'
  BY DEF NothingStored, NoNews
<1>5. \A g, task : Early(t, g, task) => Early(t, g, task)'
  BY <1>1 DEF Early, NoNews
<1>6. NoApprovalYet(t)'
  BY <1>5 DEF NoApprovalYet, NoNews
<1> QED
  BY <1>1, <1>3, <1>4, <1>6

LEMMA QuietKeeps ==
  ASSUME TypeInv, NEW t \in Tx, Unstored(t), NoNews(t), NoNewCandidate(t)
  PROVE  Unstored(t)'
<1> DEFINE c == CreatorOf[t]
<1>c. c \in Guard
  BY CreatorType
<1>1. /\ \A ts : Asked(t, ts)' <=> Asked(t, ts)
      /\ CreatorAsks(t)' /\ NothingStored(t)' /\ NoApprovalYet(t)'
  BY NoNewsKeeps
<1>2. turn' = turn
  BY DEF NoNews
<1>3. CandidateAsked(t)'
  <2>1. \A g \in Guard : transactions'[g][t] # 0 => Asked(t, transactions'[g][t])
    BY DEF Unstored, CandidateAsked, NoNewCandidate
  <2>2. ASSUME transactions'[c][t] # 0, NEW ts \in 1..turn, Asked(t, ts),
               ts = transactions'[c][t] + 1
        PROVE  InTime(t, ts)'
    <3>1. transactions'[c][t] = transactions[c][t]
      BY <1>c, <2>2 DEF NoNewCandidate
    <3>2. InTime(t, ts)
      BY <2>2, <3>1 DEF Unstored, CandidateAsked
    <3> QED
      BY <2>2, <3>2 DEF NoNewCandidate
  <2> QED
    BY <1>1, <1>2, <2>1, <2>2 DEF CandidateAsked
<1>4. OneProposalCounted(t)'
  <2>1. \A g \in Guard \ {c} : approvals'[g][t] = Nobody
    BY DEF Unstored, OneProposalCounted, NoNewCandidate
  <2>2. CASE approvals'[c][t] = Nobody
    BY <1>c, <2>1, <2>2 DEF OneProposalCounted, CountedOf, Nobody
  <2>3. CASE approvals'[c][t] # Nobody
    <3>1. approvals'[c][t] = approvals[c][t]
      BY <1>c, <2>3 DEF NoNewCandidate
    <3>2. approvals'[c][t][c] # 0 => Asked(t, approvals'[c][t][c])
      BY <3>1 DEF Unstored, OneProposalCounted
    <3>3. ASSUME NEW h \in Guard \ {c} PROVE CountedOf(t, h)'
      <4>1. CountedOf(t, h)
        BY DEF Unstored, OneProposalCounted
      <4>2. transactions'[c][t] \in {0, transactions[c][t]}
        BY <1>c DEF NoNewCandidate
      <4>3. \A ts : Asked(t, ts) /\ InTime(t, ts) => InTime(t, ts)'
        BY <2>3 DEF NoNewCandidate
      <4> QED
        BY <1>1, <1>2, <3>1, <4>1, <4>2, <4>3 DEF CountedOf, NoNews
    <3> QED
      BY <1>1, <2>1, <3>1, <3>2, <3>3 DEF OneProposalCounted
  <2> QED
    BY <2>2, <2>3
<1> QED
  BY <1>1, <1>3, <1>4 DEF Unstored

-----------------------------------------------------------------------------
\* Steps that leave the clock, or the candidates, as they are.
LEMMA QuietFacts ==
  ASSUME NEW t \in Tx, Unstored(t)
  PROVE  /\ UNCHANGED row => \A g \in Guard : row'[g][t] = "none"
         /\ UNCHANGED queue => \A g \in Guard : t \in queue'[g] => g = CreatorOf[t]
         /\ \A g \in Guard : \A task \in tasks[g] : task.tx = t => Early(t, g, task)
         /\ UNCHANGED <<turn, gap, toClear, round>> => \A ts : InTime(t, ts) => InTime(t, ts)'
BY DEF Unstored, NothingStored, NoApprovalYet, InTime, InRound

\* The turns: what is asked for in this turn is cleared in its gap.
LEMMA TurnsKeepUnstored ==
  ASSUME TypeInv, NEW t \in Tx, Unstored(t), Turns
  PROVE  Unstored(t)'
<1> DEFINE c == CreatorOf[t]
<1>c. c \in Guard /\ turn \in Nat
  BY CreatorType, Constants DEF TypeInv, TypeOK, ClockOK
<1>a. \A ts : Asked(t, ts) => ts \in 1..turn /\ Holder[ts] = c
  BY AskedWhen DEF Unstored
<1>1. CASE EndTurn
  <2>1. NoNews(t)
    BY <1>1, QuietFacts DEF EndTurn, NoNews, memory, outside
  <2>2. \A ts : Asked(t, ts) /\ InTime(t, ts) => InTime(t, ts)'
    BY <1>1, <1>a DEF EndTurn, InTime, InRound, holder
  <2>3. NoNewCandidate(t)
    BY <1>1, <2>2 DEF EndTurn, NoNewCandidate, memory
  <2> QED
    BY <2>1, <2>3, QuietKeeps
<1>2. CASE NextTurn
  <2>1. /\ gap /\ toClear = {} /\ turn' = turn + 1
        /\ UNCHANGED <<queue, transactions, approvals, tasks, row, msgs>>
    BY <1>2 DEF NextTurn, memory, outside
  <2>2. \A ts : ~InTime(t, ts)
    BY <2>1 DEF InTime
  <2>3. \A ts : Asked(t, ts)' <=> Asked(t, ts)
    BY <2>1 DEF Asked
  <2>4. \A ts \in 1..turn' : Asked(t, ts) => ts \in 1..turn
    BY <1>a
  <2>5. CreatorAsks(t)'
    BY <1>c, <2>1, <2>3 DEF Unstored, CreatorAsks, Follows
  <2>6. NothingStored(t)'
    BY <2>1 DEF Unstored, NothingStored
  <2>7. NoApprovalYet(t)'
    <3> SUFFICES ASSUME NEW g \in Guard, NEW task \in tasks[g], task.tx = t
                 PROVE  Early(t, g, task)'
      BY <2>1 DEF NoApprovalYet
    <3>1. Early(t, g, task)
      BY DEF Unstored, NoApprovalYet
    <3>2. task.ts \in Nat
      BY <1>a, <3>1 DEF Early
    <3> QED
      BY <1>c, <2>1, <2>3, <2>4, <3>1, <3>2 DEF Early
  <2>8. CandidateAsked(t)'
    BY <2>1, <2>2, <2>3, <2>4 DEF Unstored, CandidateAsked
  <2>9. OneProposalCounted(t)'
    BY <2>1, <2>2, <2>3, <2>4 DEF Unstored, OneProposalCounted, CountedOf
  <2> QED
    BY <2>5, <2>6, <2>7, <2>8, <2>9 DEF Unstored
<1>3. ASSUME NEW g \in Guard, ClearTransactions(g) PROVE Unstored(t)'
  <2>1. NoNews(t)
    BY <1>3, QuietFacts DEF ClearTransactions, NoNews, outside, Unstored, NothingStored,
       TypeInv, TypeOK, MemoryOK
  <2>2. g # c => \A ts : Asked(t, ts) /\ InTime(t, ts) => InTime(t, ts)'
    BY <1>3 DEF ClearTransactions, InTime, InRound
  <2>3. g = c => transactions'[c][t] = 0 /\ approvals'[c][t] = Nobody
    BY <1>3, <1>c DEF ClearTransactions, TypeInv, TypeOK, MemoryOK
  <2>4. \A h \in Guard : /\ transactions'[h][t] \in {0, transactions[h][t]}
                         /\ approvals'[h][t] \in {Nobody, approvals[h][t]}
    BY <1>3 DEF ClearTransactions, TypeInv, TypeOK, MemoryOK
  <2>5. NoNewCandidate(t)
    BY <2>2, <2>3, <2>4 DEF NoNewCandidate
  <2> QED
    BY <2>1, <2>5, QuietKeeps
<1>4. ASSUME NEW g \in Guard, ClearAgreedTransactions(g) PROVE Unstored(t)'
  <2>1. NoNews(t)
    BY <1>4, QuietFacts DEF ClearAgreedTransactions, NoNews, outside
  <2>2. \A ts : Asked(t, ts) /\ InTime(t, ts) => InTime(t, ts)'
    BY <1>4 DEF ClearAgreedTransactions, InTime, InRound
  <2>3. \A h \in Guard : /\ transactions'[h][t] \in {0, transactions[h][t]}
                         /\ approvals'[h][t] = approvals[h][t]
    BY <1>4 DEF ClearAgreedTransactions, TypeInv, TypeOK, MemoryOK
  <2>4. NoNewCandidate(t)
    BY <2>2, <2>3 DEF NoNewCandidate
  <2> QED
    BY <2>1, <2>4, QuietKeeps
<1> QED
  BY <1>1, <1>2, <1>3, <1>4 DEF Turns

\* The creator asks for its transaction, first with the timestamp of the
\* turn.
LEMMA BroadcastKeepsUnstored ==
  ASSUME TypeInv, NEW t \in Tx, Unstored(t), NEW g \in Guard, BroadcastRequest(g, t)
  PROVE  Unstored(t)'
<1> DEFINE c == CreatorOf[t]
<1> PICK r : r = Request(c, t, turn)
  OBVIOUS
<1>c. turn \in Nat \ {0} /\ turn \in 1..turn
  BY Constants DEF TypeInv, TypeOK, ClockOK
<1>1. /\ g = c /\ InTurn(c) /\ InRound
      /\ \A task \in tasks[c] : task.step # "register" \/ task.tx # t
      /\ msgs' = msgs \cup {r}
      /\ tasks' = [tasks EXCEPT ![c] = @ \cup
                     {[step |-> "register", tx |-> t, ts |-> turn, from |-> c]}]
      /\ \A h \in Guard : queue'[h] \subseteq queue[h]
      /\ UNCHANGED <<turn, gap, toClear, round, transactions, approvals, row>>
  BY DEF BroadcastRequest, Unstored, NothingStored, Registering, Send, Begin, Request,
     clock, outside, TypeInv, TypeOK, MemoryOK
<1>2. r.tx = t /\ r.ts = turn /\ r.type = "request" /\ r.type # "response"
  BY DEF Request
<1>3. \A ts : Asked(t, ts)' <=> Asked(t, ts) \/ ts = turn
  <2>1. \A ts : Request(c, t, ts) = r <=> ts = turn
    BY DEF Request
  <2> QED
    BY <1>1, <2>1 DEF Asked
<1>4. \A ts : Asked(t, ts) => ts \in 1..turn /\ Holder[ts] = c
  BY AskedWhen DEF Unstored
<1>5. /\ InTime(t, turn)'
      /\ \A ts : InTime(t, ts) => InTime(t, ts)'
      /\ Holder[turn] = c
  BY <1>1 DEF InTime, InRound, InTurn, holder
<1>6. CreatorAsks(t)'
  <2>1. \A m \in msgs : Follows(t, m) => Follows(t, m)'
    BY <1>1, <1>3 DEF Follows
  <2>2. Follows(t, r)'
    <3>1. Asked(t, r.ts)'
      BY <1>2, <1>3
    <3> QED
      BY <1>2, <3>1 DEF Follows
  <2> QED
    BY <1>1, <1>2, <1>5, <1>c, <2>1, <2>2 DEF Unstored, CreatorAsks
<1>7. NothingStored(t)'
  BY <1>1 DEF Unstored, NothingStored
<1>8. NoApprovalYet(t)'
  <2> SUFFICES ASSUME NEW h \in Guard, NEW task \in tasks'[h], task.tx = t
               PROVE  Early(t, h, task)'
    BY DEF NoApprovalYet
  <2>1. CASE task \in tasks[h]
    <3>1. Early(t, h, task)
      BY <2>1 DEF Unstored, NoApprovalYet
    <3>2. task.step # "register"
      BY <1>1, <2>1, <3>1 DEF Early
    <3> QED
      BY <1>1, <1>3, <3>1, <3>2 DEF Early
  <2>2. CASE task \notin tasks[h]
    <3>1. h = c /\ task = [step |-> "register", tx |-> t, ts |-> turn, from |-> c]
      BY <1>1, <2>2 DEF TypeInv, TypeOK
    <3>2. \A ts \in 1..turn : ts <= turn
      BY <1>c
    <3> QED
      BY <1>1, <1>3, <3>1, <3>2 DEF Early
  <2> QED
    BY <2>1, <2>2
<1>9. CandidateAsked(t)'
  BY <1>1, <1>3, <1>5 DEF Unstored, CandidateAsked
<1>10. OneProposalCounted(t)'
  <2>1. ASSUME NEW h \in Guard \ {c} PROVE CountedOf(t, h)'
    <3>1. CountedOf(t, h)
      BY DEF Unstored, OneProposalCounted
    <3> QED
      BY <1>1, <1>3, <1>5, <3>1 DEF CountedOf
  <2> QED
    BY <1>1, <1>3, <2>1 DEF Unstored, OneProposalCounted
<1> QED
  BY <1>6, <1>7, <1>8, <1>9, <1>10 DEF Unstored

\* The creator counts its own signature, and none of before.
LEMMA RegisterKeepsUnstored ==
  ASSUME TypeInv, NEW t \in Tx, Unstored(t), NEW g \in Guard, RegisterCandidate(g)
  PROVE  Unstored(t)'
<1> DEFINE c == CreatorOf[t]
<1>1. PICK task \in tasks[g] :
        /\ task.step = "register"
        /\ transactions' = [transactions EXCEPT ![g][task.tx] = task.ts]
        /\ approvals' = [approvals EXCEPT ![g][task.tx] = [Nobody EXCEPT ![g] = task.ts]]
        /\ Finish(g, task)
        /\ UNCHANGED <<clock, queue, agreed, outside, msgs, faults>>
  BY DEF RegisterCandidate
<1>2. task.tx \in Tx
  BY DEF TypeInv, TypeOK, Task
<1>3. UNCHANGED <<turn, gap, toClear, round, queue, row, msgs>>
  BY <1>1 DEF clock, outside
<1>4. \A h \in Guard : tasks'[h] \subseteq tasks[h]
  BY <1>1 DEF Finish, TypeInv, TypeOK
<1>5. NoNews(t)
  BY <1>3, <1>4, QuietFacts DEF NoNews
<1>6. CASE task.tx # t
  <2>1. \A h \in Guard : transactions'[h][t] = transactions[h][t] /\ approvals'[h][t] = approvals[h][t]
    BY <1>1, <1>2, <1>6 DEF TypeInv, TypeOK, MemoryOK
  <2>2. NoNewCandidate(t)
    BY <1>3, <2>1, QuietFacts DEF NoNewCandidate
  <2> QED
    BY <1>5, <2>2, QuietKeeps
<1>7. CASE task.tx = t
  <2>1. /\ g = c /\ Asked(t, task.ts)
        /\ \A ts \in 1..turn : Asked(t, ts) => ts <= task.ts
    BY <1>1, <1>7 DEF Unstored, NoApprovalYet, Early
  <2>2. /\ \A ts : Asked(t, ts)' <=> Asked(t, ts)
        /\ CreatorAsks(t)' /\ NothingStored(t)' /\ NoApprovalYet(t)'
    BY <1>5, NoNewsKeeps
  <2>3. task.ts \in Nat
    BY <2>1, AskedWhen DEF Unstored
  <2>4. /\ \A h \in Guard : transactions'[h][t] = IF h = c THEN task.ts ELSE transactions[h][t]
        /\ \A h \in Guard : h # c => approvals'[h][t] = approvals[h][t]
        /\ \A k \in Guard : approvals'[c][t][k] = IF k = c THEN task.ts ELSE 0
    BY <1>1, <1>7, <2>1 DEF TypeInv, TypeOK, MemoryOK, Nobody
  <2>5. CandidateAsked(t)'
    BY <1>3, <2>1, <2>2, <2>3, <2>4 DEF Unstored, CandidateAsked
  <2>6. OneProposalCounted(t)'
    BY <2>1, <2>2, <2>4 DEF Unstored, OneProposalCounted, CountedOf, Nobody
  <2> QED
    BY <2>2, <2>5, <2>6 DEF Unstored
<1> QED
  BY <1>6, <1>7

\* The creator agrees to its own old proposal, which another guard resent in
\* its turn, and does not count signatures of another.
LEMMA AgreeKeepsUnstored ==
  ASSUME TypeInv, NEW t \in Tx, Unstored(t), NEW g \in Guard, AgreeToRequest(g)
  PROVE  Unstored(t)'
<1> DEFINE c == CreatorOf[t]
<1>1. PICK task \in tasks[g] :
        /\ task.step = "verifyRequest"
        /\ transactions' = [transactions EXCEPT ![g][task.tx] = task.ts]
        /\ Send({Response(g, task.from, task.tx, task.ts)})
        /\ Finish(g, task)
        /\ UNCHANGED <<clock, queue, approvals, outside, faults>>
  BY DEF AgreeToRequest, Response
<1>2. task.tx \in Tx /\ turn \in Nat
  BY Constants DEF TypeInv, TypeOK, Task, ClockOK
<1>3. UNCHANGED <<turn, gap, toClear, round, queue, row, approvals>>
  BY <1>1 DEF clock, outside
<1>4. \A h \in Guard : tasks'[h] \subseteq tasks[h]
  BY <1>1 DEF Finish, TypeInv, TypeOK
<1> DEFINE m == Response(g, task.from, task.tx, task.ts)
<1>5. /\ msgs' = msgs \cup {m} /\ m.tx = task.tx /\ m.ts = task.ts
      /\ m.to = task.from /\ m.type = "response"
  BY <1>1 DEF Send, Response
<1>6. task.tx = t => Early(t, g, task)
  BY DEF Unstored, NoApprovalYet
<1>7. task.tx = t => Follows(t, m)
  <2>1. task.tx = t => Asked(t, m.ts) /\ Request(m.to, t, m.ts) \in msgs
    BY <1>1, <1>5, <1>6 DEF Early
  <2> QED
    BY <1>5, <2>1 DEF Follows
<1>8. NoNews(t)
  BY <1>3, <1>4, <1>5, <1>7, QuietFacts DEF NoNews
<1>9. CASE task.tx # t \/ g # c
  <2>1. \A h \in Guard : \/ transactions'[h][t] = transactions[h][t]
                         \/ h # c /\ Asked(t, transactions'[h][t])
    BY <1>1, <1>2, <1>6, <1>9 DEF TypeInv, TypeOK, MemoryOK, Early
  <2>2. NoNewCandidate(t)
    BY <1>3, <2>1, QuietFacts DEF NoNewCandidate
  <2> QED
    BY <1>8, <2>2, QuietKeeps
<1>10. CASE task.tx = t /\ g = c
  <2>1. Asked(t, task.ts) /\ task.ts < turn /\ Holder[task.ts + 1] # c
    BY <1>1, <1>6, <1>10 DEF Early
  <2>2. /\ \A ts : Asked(t, ts)' <=> Asked(t, ts)
        /\ CreatorAsks(t)' /\ NothingStored(t)' /\ NoApprovalYet(t)'
    BY <1>8, NoNewsKeeps
  <2>3. \A ts : Asked(t, ts) => ts \in 1..turn /\ Holder[ts] = c
    BY AskedWhen DEF Unstored
  <2>4. \A h \in Guard : transactions'[h][t] = IF h = c THEN task.ts ELSE transactions[h][t]
    BY <1>1, <1>10 DEF TypeInv, TypeOK, MemoryOK
  <2>5. CandidateAsked(t)'
    BY <1>3, <2>1, <2>2, <2>3, <2>4, CreatorType DEF Unstored, CandidateAsked
  <2>6. ASSUME NEW h \in Guard \ {c} PROVE CountedOf(t, h)'
    <3> DEFINE s == approvals[c][t][h]
    <3> SUFFICES ASSUME s # 0
                 PROVE  /\ Response(h, c, t, s) \in msgs'
                        /\ \A ts \in 1..turn : Asked(t, ts) /\ ts > s => InTime(t, ts)'
                        /\ task.ts = s \/ task.ts + 1 < s
                        /\ \A k \in Guard \ {c} : approvals[c][t][k] \in {0, s}
      BY <1>3, <2>2, <2>4, CreatorType DEF CountedOf
    <3>1. /\ Response(h, c, t, s) \in msgs
          /\ \A ts \in 1..turn : Asked(t, ts) /\ ts > s => InTime(t, ts)
          /\ \A k \in Guard \ {c} : approvals[c][t][k] \in {0, s}
      BY DEF Unstored, OneProposalCounted, CountedOf
    <3>2. s \in 1..turn /\ Holder[s] = c
      BY <3>1 DEF Unstored, CreatorAsks, Response
    <3>3. ~(task.ts > s)
      BY <2>1, <2>3, <3>1 DEF InTime
    <3>4. task.ts + 1 # s
      BY <2>1, <3>2
    <3>5. task.ts = s \/ task.ts + 1 < s
      BY <1>2, <2>1, <2>3, <3>2, <3>3, <3>4
    <3> QED
      BY <1>3, <1>5, <3>1, <3>5, QuietFacts
  <2>7. OneProposalCounted(t)'
    BY <1>3, <2>2, <2>6 DEF Unstored, OneProposalCounted
  <2> QED
    BY <2>2, <2>5, <2>7 DEF Unstored
<1> QED
  BY <1>9, <1>10

\* A response is counted for the proposal that is the candidate, and that is
\* the one the others' counted signatures are of.
LEMMA ResponseKeepsUnstored ==
  ASSUME TypeInv, NEW t \in Tx, Unstored(t), NEW g \in Guard, NEW m \in msgs,
         HandleResponse(g, m)
  PROVE  Unstored(t)'
<1> DEFINE c == CreatorOf[t]
<1>1. /\ m.type = "response" /\ m.to = g /\ m.from # g /\ m.ts + 1 >= turn
      /\ transactions[g][m.tx] = m.ts /\ approvals[g][m.tx] # Nobody
      /\ approvals' = [approvals EXCEPT ![g][m.tx][m.from] = m.ts]
      /\ Begin(g, "count", m)
      /\ UNCHANGED <<clock, queue, transactions, agreed, outside, msgs, faults>>
  BY DEF HandleResponse, Expected, Arrives
<1>2. m \in Message /\ m.tx \in Tx /\ m.ts \in Nat /\ m.from \in Guard /\ turn \in Nat
  BY MessageFields, Constants DEF TypeInv, TypeOK, ClockOK
<1>3. UNCHANGED <<turn, gap, toClear, round, queue, row, transactions, msgs>>
  BY <1>1 DEF clock, outside
<1>4. m.tx = t => m.ts \in 1..turn /\ Asked(t, m.ts)
  BY DEF Unstored, CreatorAsks, Follows
<1>5. NoNews(t)
  <2>1. ASSUME NEW h \in Guard, NEW task \in tasks'[h], task.tx = t, task \notin tasks[h]
        PROVE  Early(t, h, task)
    <3>1. task = [step |-> "count", tx |-> m.tx, ts |-> m.ts, from |-> m.from]
      BY <1>1, <2>1 DEF Begin, TypeInv, TypeOK
    <3> QED
      BY <1>4, <2>1, <3>1 DEF Early
  <2> QED
    BY <1>3, <2>1, QuietFacts DEF NoNews
<1>6. CASE m.tx # t
  <2>1. \A h \in Guard : approvals'[h][t] = approvals[h][t]
    BY <1>1, <1>2, <1>6 DEF TypeInv, TypeOK, MemoryOK
  <2>2. NoNewCandidate(t)
    BY <1>3, <2>1, QuietFacts DEF NoNewCandidate
  <2> QED
    BY <1>5, <2>2, QuietKeeps
<1>7. CASE m.tx = t
  <2>1. g = c
    BY <1>1, <1>7 DEF Unstored, OneProposalCounted
  <2>2. /\ \A ts : Asked(t, ts)' <=> Asked(t, ts)
        /\ CreatorAsks(t)' /\ NothingStored(t)' /\ NoApprovalYet(t)'
    BY <1>5, NoNewsKeeps
  <2>3. /\ \A h \in Guard : h # c => approvals'[h][t] = approvals[h][t]
        /\ \A k \in Guard : approvals'[c][t][k] = IF k = m.from THEN m.ts ELSE approvals[c][t][k]
    BY <1>1, <1>2, <1>7, <2>1 DEF TypeInv, TypeOK, MemoryOK
  <2>4. CandidateAsked(t)'
    BY <1>3, <2>2, QuietFacts DEF Unstored, CandidateAsked
  <2>5. ASSUME NEW k \in Guard \ {c} PROVE approvals[c][t][k] \in {0, m.ts}
    <3> DEFINE s == approvals[c][t][k]
    <3> SUFFICES ASSUME s # 0 PROVE s = m.ts
      OBVIOUS
    <3>1. /\ Response(k, c, t, s) \in msgs
          /\ transactions[c][t] \in {0, s} \/ transactions[c][t] + 1 < s
      BY DEF Unstored, OneProposalCounted, CountedOf
    <3>2. s \in 1..turn
      BY <3>1 DEF Unstored, CreatorAsks, Response
    <3> QED
      BY <1>1, <1>2, <1>4, <1>7, <2>1, <3>1, <3>2
  <2>6. m = Response(m.from, c, t, m.ts)
    BY <1>1, <1>2, <1>7, <2>1 DEF Message, Response
  <2>7. ASSUME NEW ts \in 1..turn, Asked(t, ts), ts > m.ts PROVE InTime(t, ts)
    <3>1. ts = transactions[c][t] + 1 /\ transactions[c][t] # 0
      BY <1>1, <1>2, <1>4, <1>7, <2>1, <2>7
    <3> QED
      BY <2>7, <3>1 DEF Unstored, CandidateAsked
  <2>8. ASSUME NEW h \in Guard \ {c} PROVE CountedOf(t, h)'
    <3> SUFFICES ASSUME approvals'[c][t][h] # 0 PROVE CountedOf(t, h)'
      BY DEF CountedOf
    <3>1. approvals'[c][t][h] = m.ts
      BY <2>3, <2>5
    <3>2. Response(h, c, t, m.ts) \in msgs
      <4>1. CASE h = m.from
        BY <2>6, <4>1
      <4>2. CASE h # m.from
        BY <2>3, <3>1, <4>2, <1>4, <1>7 DEF Unstored, OneProposalCounted, CountedOf
      <4> QED
        BY <4>1, <4>2
    <3>3. \A k \in Guard \ {c} : approvals'[c][t][k] \in {0, m.ts}
      BY <2>3, <2>5
    <3>4. \A ts \in 1..turn : Asked(t, ts) /\ ts > m.ts => InTime(t, ts)'
      BY <1>3, <2>7, QuietFacts
    <3> QED
      BY <1>1, <1>3, <1>7, <2>1, <2>2, <3>1, <3>2, <3>3, <3>4 DEF CountedOf
  <2>9. approvals'[c][t][c] = approvals[c][t][c]
    BY <1>1, <2>1, <2>3, CreatorType
  <2>10. OneProposalCounted(t)'
    BY <2>2, <2>3, <2>8, <2>9 DEF Unstored, OneProposalCounted
  <2> QED
    BY <2>2, <2>4, <2>10 DEF Unstored
<1> QED
  BY <1>6, <1>7

LEMMA ProposeKeepsUnstored ==
  ASSUME TypeInv, NEW t \in Tx, Unstored(t), Propose
  PROVE  Unstored(t)'
<1> PICK g \in Guard : \/ \E u \in Tx : GenerateTx(g, u) \/ BroadcastRequest(g, u)
                       \/ EnqueueSignFailedTxs(g) \/ RegisterCandidate(g)
                       \/ ResendTransactionRequests(g)
  BY DEF Propose
<1>1. ASSUME NEW u \in Tx, GenerateTx(g, u) PROVE Unstored(t)'
  <2>1. /\ CreatorOf[u] = g /\ queue' = [queue EXCEPT ![g] = @ \cup {u}]
        /\ UNCHANGED <<turn, gap, toClear, round, transactions, approvals, tasks, row, msgs>>
    BY <1>1 DEF GenerateTx, clock, outside
  <2>2. \A h \in Guard : t \in queue'[h] => h = CreatorOf[t]
    BY <2>1 DEF Unstored, NothingStored, TypeInv, TypeOK, MemoryOK
  <2>3. NoNews(t)
    BY <2>1, <2>2, QuietFacts DEF NoNews
  <2>4. NoNewCandidate(t)
    BY <2>1, QuietFacts DEF NoNewCandidate
  <2> QED
    BY <2>3, <2>4, QuietKeeps
<1>2. ASSUME NEW u \in Tx, BroadcastRequest(g, u), u # t PROVE Unstored(t)'
  <2> DEFINE task == [step |-> "register", tx |-> u, ts |-> turn, from |-> g]
  <2>1. /\ \A h \in Guard : queue'[h] \subseteq queue[h]
        /\ msgs' = msgs \cup {Request(g, u, turn)}
        /\ tasks' = [tasks EXCEPT ![g] = @ \cup {task}]
        /\ UNCHANGED <<turn, gap, toClear, round, transactions, approvals, row>>
    BY <1>2 DEF BroadcastRequest, Begin, Send, Request, clock, outside,
       TypeInv, TypeOK, MemoryOK
  <2>2. Request(g, u, turn).tx # t /\ task.tx # t
    BY <1>2 DEF Request
  <2>3. \A h \in Guard : t \in queue'[h] => h = CreatorOf[t]
    BY <2>1 DEF Unstored, NothingStored
  <2>4. \A h \in Guard : \A other \in tasks'[h] : other.tx = t => other \in tasks[h]
    BY <2>1, <2>2 DEF TypeInv, TypeOK
  <2>5. NoNews(t)
    BY <2>1, <2>2, <2>3, <2>4, QuietFacts DEF NoNews
  <2>6. NoNewCandidate(t)
    BY <2>1, QuietFacts DEF NoNewCandidate
  <2> QED
    BY <2>5, <2>6, QuietKeeps
<1>3. CASE EnqueueSignFailedTxs(g)
  <2>1. PICK failed \in SUBSET {u \in Tx : row[g][u] = "advanced" /\ TypeOf[u] # "manual"} :
          queue' = [queue EXCEPT ![g] = @ \cup failed]
    BY <1>3 DEF EnqueueSignFailedTxs
  <2>2. /\ round = "started" /\ round' = "requeued"
        /\ UNCHANGED <<turn, gap, toClear, transactions, approvals, tasks, row, msgs>>
    BY <1>3 DEF EnqueueSignFailedTxs, outside
  <2>3. t \notin failed
    BY DEF Unstored, NothingStored
  <2>4. \A h \in Guard : t \in queue'[h] => h = CreatorOf[t]
    BY <2>1, <2>3 DEF Unstored, NothingStored, TypeInv, TypeOK, MemoryOK
  <2>5. NoNews(t)
    BY <2>2, <2>4, QuietFacts DEF NoNews
  <2>6. \A ts : InTime(t, ts) => InTime(t, ts)'
    BY <2>2 DEF InTime, InRound
  <2>7. NoNewCandidate(t)
    BY <2>2, <2>6 DEF NoNewCandidate
  <2> QED
    BY <2>5, <2>7, QuietKeeps
<1>4. CASE ResendTransactionRequests(g)
  <2>1. /\ msgs' = msgs \cup {Request(g, u, transactions[g][u]) :
                                u \in {v \in Tx : transactions[g][v] # 0}}
        /\ UNCHANGED <<turn, gap, toClear, round, queue, transactions, approvals, tasks, row>>
    BY <1>4 DEF ResendTransactionRequests, Send, clock, memory, outside
  <2>2. ASSUME NEW m \in msgs' \ msgs, m.tx = t PROVE Follows(t, m)
    <3>1. PICK u \in Tx : transactions[g][u] # 0 /\ m = Request(g, u, transactions[g][u])
      BY <2>1, <2>2
    <3>2. u = t /\ m.type = "request" /\ m.ts = transactions[g][u]
      BY <2>2, <3>1 DEF Request
    <3>3. Asked(t, m.ts)
      BY <3>1, <3>2 DEF Unstored, CandidateAsked
    <3> QED
      BY <3>2, <3>3 DEF Follows
  <2>3. NoNews(t)
    BY <2>1, <2>2, QuietFacts DEF NoNews
  <2>4. NoNewCandidate(t)
    BY <2>1, QuietFacts DEF NoNewCandidate
  <2> QED
    BY <2>3, <2>4, QuietKeeps
<1> QED
  BY <1>1, <1>2, <1>3, <1>4, BroadcastKeepsUnstored, RegisterKeepsUnstored

\* A request of the creator's reaches it only from another guard, in the turn
\* after its own.  No approval of t is about.
LEMMA ReceiveKeepsUnstored ==
  ASSUME TypeInv, NEW t \in Tx, Unstored(t), NEW g \in Guard, NEW m \in msgs,
         HandleRequest(g, m) \/ HandleApproval(g, m)
  PROVE  Unstored(t)'
<1>1. PICK step \in Step : /\ Begin(g, step, m)
                           /\ (HandleRequest(g, m) /\ step = "request") \/ HandleApproval(g, m)
  BY DEF HandleRequest, HandleApproval, StoreCandidate, VerifyUnknown, Step
<1>2. UNCHANGED <<turn, gap, toClear, round, queue, transactions, approvals, row, msgs>>
  BY DEF HandleRequest, HandleApproval, clock, memory, outside
<1> DEFINE task == [step |-> step, tx |-> m.tx, ts |-> m.ts, from |-> m.from]
<1>3. m \in Message /\ m.ts \in Nat /\ m.from \in Guard /\ turn \in Nat
  BY MessageFields, Constants DEF TypeInv, TypeOK, ClockOK
<1>4. ASSUME m.tx = t PROVE Early(t, g, task)
  <2>1. m.ts \in 1..turn /\ Holder[m.ts] = CreatorOf[t] /\ Follows(t, m)
    BY <1>4 DEF Unstored, CreatorAsks
  <2>2. HandleRequest(g, m) /\ step = "request"
    BY <1>1, <2>1 DEF HandleApproval, Follows
  <2>3. m.type = "request" /\ m.from # g /\ m.ts + 1 >= turn /\ m.from = Holder[turn]
    BY <2>2 DEF HandleRequest, Arrives, InTurn, holder
  <2>4. m = Request(m.from, t, m.ts)
    BY <1>3, <1>4, <2>3 DEF Message, Request
  <2>5. g = CreatorOf[t] => m.ts < turn /\ Holder[m.ts + 1] # g
    BY <1>3, <2>1, <2>3
  <2> QED
    BY <2>1, <2>2, <2>4, <2>5 DEF Early, Follows
<1>5. NoNews(t)
  <2>1. \A h \in Guard : \A other \in tasks'[h] : other \in tasks[h] \/ (h = g /\ other = task)
    BY <1>1 DEF Begin, TypeInv, TypeOK
  <2> QED
    BY <1>2, <1>4, <2>1, QuietFacts DEF NoNews
<1>6. NoNewCandidate(t)
  BY <1>2, QuietFacts DEF NoNewCandidate
<1> QED
  BY <1>5, <1>6, QuietKeeps

\* What the handlers of other transactions do is no news of t, and while t is
\* not stored nobody approves it or stores it but by the creator's count.
LEMMA TaskKeepsUnstored ==
  ASSUME TypeInv, NEW t \in Tx, Unstored(t), NEW g \in Guard,
         CheckAgreed(g) \/ CountApprovals(g) \/ AgreeToApproval(g) \/ Reject(g)
         \/ SetTxAsApproved(g) \/ Abandon(g)
  PROVE  Backed(t) \/ Unstored(t)'
<1>e. \A task \in tasks[g] : task.tx = t =>
        task.step \in {"register", "request", "verifyRequest", "count"}
  BY DEF Unstored, NoApprovalYet, Early
<1>t. \A task \in tasks[g] : task.tx \in Tx /\ task \in Task
  BY DEF TypeInv, TypeOK, Task
<1>f. ASSUME NEW task \in tasks[g], Finish(g, task)
      PROVE  \A h \in Guard : \A other \in tasks'[h] : other.tx = t => Early(t, h, other)
  BY <1>f, QuietFacts DEF Finish, TypeInv, TypeOK
<1>c. ASSUME NEW task \in tasks[g], NEW step, Continue(g, task, step),
             task.tx = t => step = "verifyRequest" /\ task.step = "request"
      PROVE  \A h \in Guard : \A other \in tasks'[h] : other.tx = t => Early(t, h, other)
  <2> DEFINE next == [task EXCEPT !.step = step]
  <2>1. next.tx = task.tx /\ next.ts = task.ts /\ next.from = task.from /\ next.step = step
    BY <1>t DEF Task
  <2>2. task.tx = t => Early(t, g, next)
    <3>1. task.tx = t => Early(t, g, task)
      BY DEF Unstored, NoApprovalYet
    <3> HIDE DEF next
    <3> QED
      BY <1>c, <2>1, <3>1 DEF Early
  <2>3. \A h \in Guard : \A other \in tasks'[h] : other \in tasks[h] \/ (h = g /\ other = next)
    BY <1>c DEF Continue, TypeInv, TypeOK
  <2> HIDE DEF next
  <2> QED
    BY <2>1, <2>2, <2>3, QuietFacts
<1>1. CASE CheckAgreed(g)
  <2>1. PICK task \in tasks[g] :
          \/ task.step = "request" /\ Continue(g, task, "verifyRequest")
          \/ task.step = "approval" /\ Continue(g, task, "verifyApproval")
    BY <1>1 DEF CheckAgreed
  <2>2. UNCHANGED <<turn, gap, toClear, round, queue, transactions, approvals, row, msgs>>
    BY <1>1 DEF CheckAgreed, clock, memory, outside
  <2>3. \A h \in Guard : \A other \in tasks'[h] : other.tx = t => Early(t, h, other)
    BY <1>e, <1>c, <2>1
  <2>4. NoNews(t) /\ NoNewCandidate(t)
    BY <2>2, <2>3, QuietFacts DEF NoNews, NoNewCandidate
  <2> QED
    BY <2>4, QuietKeeps
<1>2. CASE CountApprovals(g)
  <2>1. PICK task \in tasks[g] :
          \/ /\ HasQuorum(Signers(approvals[g][task.tx]))
             /\ msgs' = msgs \cup {[type |-> "approval", tx |-> task.tx, ts |-> task.ts,
                                    from |-> g, signs |-> approvals[g][task.tx]]}
             /\ Continue(g, task, "storeCounted")
          \/ Finish(g, task) /\ UNCHANGED msgs
    BY <1>2 DEF CountApprovals, Send
  <2>2. UNCHANGED <<turn, gap, toClear, round, queue, transactions, approvals, row>>
    BY <1>2 DEF CountApprovals, clock, memory, outside
  <2>3. CASE task.tx = t /\ HasQuorum(Signers(approvals[g][task.tx]))
    BY <2>3, CountedIsBacked
  <2>4. CASE ~(task.tx = t /\ HasQuorum(Signers(approvals[g][task.tx])))
    <3>1. \A h \in Guard : \A other \in tasks'[h] : other.tx = t => Early(t, h, other)
      BY <1>c, <1>f, <2>1, <2>4
    <3>2. msgs \subseteq msgs' /\ \A m \in msgs' \ msgs : m.tx # t
      BY <2>1, <2>4
    <3>3. NoNews(t) /\ NoNewCandidate(t)
      BY <2>2, <3>1, <3>2, QuietFacts DEF NoNews, NoNewCandidate
    <3> QED
      BY <3>3, QuietKeeps
  <2> QED
    BY <2>3, <2>4
<1>3. CASE AgreeToApproval(g)
  <2>1. PICK task \in tasks[g] : task.step = "verifyApproval" /\ Continue(g, task, "store")
    BY <1>3 DEF AgreeToApproval
  <2>2. UNCHANGED <<turn, gap, toClear, round, queue, transactions, approvals, row, msgs>>
    BY <1>3 DEF AgreeToApproval, clock, outside
  <2>3. \A h \in Guard : \A other \in tasks'[h] : other.tx = t => Early(t, h, other)
    BY <1>e, <1>c, <2>1
  <2>4. NoNews(t) /\ NoNewCandidate(t)
    BY <2>2, <2>3, QuietFacts DEF NoNews, NoNewCandidate
  <2> QED
    BY <2>4, QuietKeeps
<1>4. CASE Reject(g) \/ Abandon(g)
  <2>1. PICK task \in tasks[g] : Finish(g, task)
    BY <1>4 DEF Reject, Abandon
  <2>2. UNCHANGED <<turn, gap, toClear, round, queue, transactions, approvals, row, msgs>>
    BY <1>4 DEF Reject, Abandon, clock, memory, outside
  <2>3. \A h \in Guard : \A other \in tasks'[h] : other.tx = t => Early(t, h, other)
    BY <1>f, <2>1
  <2>4. NoNews(t) /\ NoNewCandidate(t)
    BY <2>2, <2>3, QuietFacts DEF NoNews, NoNewCandidate
  <2> QED
    BY <2>4, QuietKeeps
<1>5. CASE SetTxAsApproved(g)
  <2>1. PICK task \in tasks[g] :
          /\ task.step \in {"store", "storeCounted"}
          /\ InsertTx(g, task.tx)
          /\ transactions' = [transactions EXCEPT ![g][task.tx] = 0]
          /\ approvals' = [approvals EXCEPT ![g][task.tx] = Nobody]
          /\ Finish(g, task)
          /\ UNCHANGED <<clock, queue, confirmed, took, msgs, faults>>
    BY <1>5 DEF SetTxAsApproved
  <2>2. task.tx # t /\ task.tx \in Tx
    BY <1>e, <1>t, <2>1
  <2>3. UNCHANGED <<turn, gap, toClear, round, queue, msgs>>
    BY <2>1 DEF clock
  <2>4. \A h \in Guard : row'[h][t] = "none"
    <3>1. \A h \in Guard : row'[h][t] \in {row[h][t], "none"}
      BY <2>1, <2>2 DEF InsertTx, TypeInv, TypeOK, OutsideOK
    <3> QED
      BY <3>1 DEF Unstored, NothingStored
  <2>5. \A h \in Guard : /\ transactions'[h][t] = transactions[h][t]
                         /\ approvals'[h][t] = approvals[h][t]
    BY <2>1, <2>2 DEF TypeInv, TypeOK, MemoryOK
  <2>6. \A h \in Guard : \A other \in tasks'[h] : other.tx = t => Early(t, h, other)
    BY <1>f, <2>1
  <2>7. NoNews(t) /\ NoNewCandidate(t)
    BY <2>3, <2>4, <2>5, <2>6, QuietFacts DEF NoNews, NoNewCandidate
  <2> QED
    BY <2>7, QuietKeeps
<1> QED
  BY <1>1, <1>2, <1>3, <1>4, <1>5

LEMMA TableKeepsUnstored ==
  ASSUME TypeInv, NEW t \in Tx, Unstored(t), Table
  PROVE  Unstored(t)'
<1>1. UNCHANGED <<turn, gap, toClear, round, queue, transactions, approvals, tasks, msgs>>
  BY DEF Table, Advance, Invalidate, Confirm, clock, memory
<1>2. \A h \in Guard : row'[h][t] = "none"
  BY DEF Table, Advance, Invalidate, Confirm, Unstored, NothingStored, TypeInv, TypeOK, OutsideOK
<1>3. NoNews(t) /\ NoNewCandidate(t)
  BY <1>1, <1>2, QuietFacts DEF NoNews, NoNewCandidate
<1> QED
  BY <1>3, QuietKeeps

LEMMA CrashKeepsUnstored ==
  ASSUME TypeInv, NEW t \in Tx, Unstored(t), NEW g \in Guard, Crash(g)
  PROVE  Unstored(t)'
<1> DEFINE c == CreatorOf[t]
<1>1. /\ \A h \in Guard : queue'[h] \subseteq queue[h] /\ tasks'[h] \subseteq tasks[h]
      /\ UNCHANGED <<turn, gap, row, msgs>>
  BY DEF Crash, outside, TypeInv, TypeOK, MemoryOK
<1>2. \A h \in Guard : t \in queue'[h] => h = c
  BY <1>1 DEF Unstored, NothingStored
<1>3. NoNews(t)
  BY <1>1, <1>2, QuietFacts DEF NoNews
<1>4. \A h \in Guard : /\ transactions'[h][t] = IF h = g THEN 0 ELSE transactions[h][t]
                       /\ approvals'[h][t] = IF h = g THEN Nobody ELSE approvals[h][t]
  BY DEF Crash, TypeInv, TypeOK, MemoryOK
<1>5. g # c => \A ts : Asked(t, ts) /\ InTime(t, ts) => InTime(t, ts)'
  <2>1. \A ts : Asked(t, ts) => Holder[ts] = c
    BY AskedWhen DEF Unstored
  <2> QED
    BY <1>1, <2>1 DEF Crash, InTime, InRound, holder
<1>6. NoNewCandidate(t)
  BY <1>4, <1>5, CreatorType DEF NoNewCandidate
<1> QED
  BY <1>3, <1>6, QuietKeeps

LEMMA NextQuorum == TypeInv /\ QuorumInv /\ [Next]_vars => QuorumInv'
<1> SUFFICES ASSUME TypeInv, [Next]_vars, NEW t \in Tx, Unstored(t)
             PROVE  Backed(t) \/ Unstored(t)'
  BY BackedStays DEF QuorumInv
<1>1. CASE ProcessMessage
  <2>1. PICK g \in Guard :
          \/ \E m \in msgs : HandleRequest(g, m) \/ HandleResponse(g, m) \/ HandleApproval(g, m)
          \/ CheckAgreed(g) \/ AgreeToRequest(g) \/ CountApprovals(g) \/ AgreeToApproval(g)
          \/ Reject(g) \/ SetTxAsApproved(g) \/ Abandon(g)
    BY <1>1 DEF ProcessMessage
  <2> QED
    BY <2>1, ReceiveKeepsUnstored, ResponseKeepsUnstored, AgreeKeepsUnstored, TaskKeepsUnstored
<1>2. CASE UNCHANGED vars
  <2>1. UNCHANGED <<turn, gap, toClear, round, queue, transactions, approvals, tasks, row, msgs>>
    BY <1>2 DEF vars, clock, memory, outside
  <2>2. NoNews(t) /\ NoNewCandidate(t)
    BY <2>1, QuietFacts DEF NoNews, NoNewCandidate
  <2> QED
    BY <2>2, QuietKeeps
<1> QED
  BY <1>1, <1>2, TurnsKeepUnstored, ProposeKeepsUnstored, TableKeepsUnstored,
     CrashKeepsUnstored DEF Next

\* Whatever crashes, is lost or comes late, a guard has a transaction in its
\* table only if a quorum of guards signed one proposal of it, although the
\* code counts signatures without a look at what they sign.
THEOREM StoredWithQuorum == Spec => []StoredByQuorum
<1>1. Spec => [](TypeInv /\ QuorumInv)
  BY InitTypes, NextTypes, InitQuorum, NextQuorum, PTL DEF Spec
<1>2. QuorumInv => StoredByQuorum
  BY DEF QuorumInv, StoredByQuorum, Unstored, NothingStored, Backed
<1> QED
  BY <1>1, <1>2, PTL
=============================================================================

----------------------------- MODULE Generation -----------------------------
(***************************************************************************)
(* How a guard collects what a new transaction must not be in conflict     *)
(* with.  Whatever is generated, for an event, an order or the cold        *)
(* storage, three lists of its chain are read one after another: the       *)
(* pending transactions in the agreement's memory, the unsigned rows of    *)
(* the table and the signed ones.  The inputs of none of them are spent    *)
(* again.  Between the reads transactions move on from one list to the     *)
(* next: this is TransactionProcessor with one generator beside it.        *)
(*                                                                         *)
(* GenerateTx of TransactionProcessor stands for a generation that nothing *)
(* interferes with; selecting and spending inputs is the chain's.          *)
(***************************************************************************)
EXTENDS TransactionProcessor

VARIABLES
  gen,       \* the generation that is running
  broadcast, \* what processAgreementQueue has popped and not registered yet
  there      \* history: what was there when the reading began, and never since
             \* left or went back to an earlier list

genVars == <<gen, broadcast, there>>
allVars == <<vars, genVars>>

NoGeneration == [next |-> "none", tx |-> NoTx, seen |-> {}]

\* next: the list that is read next, or the chain's generateTransaction
Generation == [next : {"none", "pending", "unsigned", "signed", "inputs"},
               tx : Tx \cup {NoTx}, seen : SUBSET Tx]

GenTypeOK ==
  /\ gen \in Generation
  /\ broadcast \in Tx \cup {NoTx}
  /\ there \subseteq Tx

GenInit ==
  /\ Init
  /\ gen = NoGeneration
  /\ broadcast = NoTx
  /\ there = {}

-----------------------------------------------------------------------------
\* transactions of the chain that the generation is for
SameChain(t) == {u \in Tx : u \in OnErgo <=> t \in OnErgo}

UnsignedStatus == {"approved", "inSign", "signFailed"}
SignedStatus == {"signed", "sent"}

\* getChainPendingTransactions: the queue and what is under agreement
Pending == candidates

\* getUnsignedActiveTxsInChain
Unsigned == {u \in Tx : status[u] \in UnsignedStatus}

\* getSignedActiveTxsInChain
Signed == {u \in Tx : status[u] \in SignedStatus}

\* how far a transaction is on its way through the lists; 0 when it is in none
Stage(t) == IF t \in Signed THEN 3
            ELSE IF t \in Unsigned THEN 2
            ELSE IF t \in Pending /\ status[t] = "none" THEN 1 ELSE 0

\* those that neither left nor went back
Onward == {t \in there : Stage(t)' # 0 /\ Stage(t)' >= Stage(t)}

-----------------------------------------------------------------------------
(* What generations begin with, at the read of the owner's status.         *)

Owed(t) == /\ PendingToType(t)
           /\ unexpectedFails[OwnerOf[t]] < FailLimit[OwnerOf[t]]

Begins(t) ==
  /\ gen = NoGeneration
  /\ gen' = [NoGeneration EXCEPT !.next = "pending", !.tx = t]
  /\ UNCHANGED <<vars, broadcast, there>>

CreateEventPayment(t) == TypeOf[t] = "payment" /\ Owed(t) /\ Begins(t)

\* on Ergo, wherever the payment was
CreateEventRewardDistribution(t) ==
  /\ TypeOf[t] = "reward" /\ t \in OnErgo
  /\ Owed(t) /\ OnePayment(OwnerOf[t])
  /\ Begins(t)

CreateOrderPayment(t) == TypeOf[t] = "arbitrary" /\ Owed(t) /\ Begins(t)

GenerateColdStorageTransaction(t) ==
  TypeOf[t] = "coldStorage" /\ NoColdStorage(t) /\ Begins(t)

-----------------------------------------------------------------------------
(* The three reads.                                                        *)

After(list) ==
  CASE list = "pending" -> "unsigned"
    [] list = "unsigned" -> "signed"
    [] list = "signed" -> "inputs"

Read(list, found) ==
  /\ gen.next = list
  /\ gen' = [gen EXCEPT !.next = After(list),
                        !.seen = @ \cup (found \cap SameChain(gen.tx))]
  /\ UNCHANGED <<vars, broadcast>>

ReadPending ==
  /\ Read("pending", Pending)
  /\ there' = {t \in SameChain(gen.tx) : Stage(t) # 0}

ReadUnsigned == Read("unsigned", Unsigned) /\ there' = Onward

ReadSigned == Read("signed", Signed) /\ there' = Onward

\* The transaction is generated, and queued unless the turn is over
QueueTx ==
  /\ gen.next = "inputs"
  /\ candidates' \in {candidates, candidates \cup {gen.tx}}
  /\ gen' = NoGeneration
  /\ there' = {}
  /\ UNCHANGED <<table, owners, pass, jobs, handler, sem, network, crashes, broadcast>>

\* a call on the chain or the database throws
GiveUp ==
  /\ gen # NoGeneration
  /\ gen' = NoGeneration
  /\ there' = {}
  /\ UNCHANGED <<vars, broadcast>>

-----------------------------------------------------------------------------
(* processAgreementQueue: while the request of a transaction is broadcast  *)
(* and its own approval signed it is neither in the queue nor under        *)
(* agreement, and no generation sees it.                                   *)

PopQueue(t) ==
  /\ broadcast = NoTx
  /\ t \in candidates
  /\ broadcast' = t
  /\ candidates' = candidates \ {t}
  /\ UNCHANGED <<table, owners, pass, jobs, handler, sem, network, crashes, gen>>
  /\ there' = Onward

\* it is registered, unless broadcasting or signing failed
RegisterPopped ==
  /\ broadcast # NoTx
  /\ broadcast' = NoTx
  /\ candidates' \in {candidates, candidates \cup {broadcast}}
  /\ UNCHANGED <<table, owners, pass, jobs, handler, sem, network, crashes, gen>>
  /\ there' = Onward

\* a step of the rest of the service; a crash ends the generation too
ServiceStep ==
  /\ Next
  /\ IF crashes' = crashes
     THEN there' = Onward /\ UNCHANGED <<gen, broadcast>>
     ELSE there' = {} /\ gen' = NoGeneration /\ broadcast' = NoTx

Generate ==
  \/ \E t \in Tx : \/ CreateEventPayment(t) \/ CreateEventRewardDistribution(t)
                   \/ CreateOrderPayment(t) \/ GenerateColdStorageTransaction(t)
  \/ ReadPending \/ ReadUnsigned \/ ReadSigned \/ QueueTx \/ GiveUp

GenNext == ServiceStep \/ Generate \/ RegisterPopped \/ \E t \in Tx : PopQueue(t)

GenSpec == GenInit /\ [][GenNext]_allVars

-----------------------------------------------------------------------------
(* Properties.                                                             *)

(***************************************************************************)
(* A generated transaction does not spend what another one is about to     *)
(* spend: what was pending or active when the lists were read, and only    *)
(* went on its way meanwhile, was seen in one of them, because they are    *)
(* read in the order in which a transaction passes through them.  What     *)
(* goes back, as a transaction that a late answer of the signer revives    *)
(* does, may be missed.                                                    *)
(***************************************************************************)
NothingMissed == gen.next = "inputs" => there \subseteq gen.seen

\* the inductive invariant: what was not seen is yet to be read
StillToRead ==
  /\ there \subseteq SameChain(gen.tx)
  /\ \A t \in there \ gen.seen :
       CASE gen.next = "unsigned" -> Stage(t) >= 2
         [] gen.next = "signed" -> Stage(t) >= 3
         [] OTHER -> FALSE
=============================================================================

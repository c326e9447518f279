------------------------------ MODULE MultiSig ------------------------------
(***************************************************************************)
(* How the guards sign one Ergo transaction together (MultiSigHandler).    *)
(* Every guard that is asked to sign publishes a commitment.  A few        *)
(* seconds after a guard has enough of them it makes the first signature,  *)
(* which fixes who the signers are and whose part is simulated.  The       *)
(* signed transaction goes round among the signers until requiredSigner    *)
(* of them have added theirs, and then to everybody.                       *)
(*                                                                         *)
(* All handlers run under one semaphore from beginning to end, and so does *)
(* the timeout: each is one action.  Cryptography is reduced to which      *)
(* commitment a signature was made with.                                   *)
(***************************************************************************)
EXTENDS Naturals, FiniteSets, FiniteSetsExt

CONSTANTS
  Guard,
  RequiredSigner,
  AllRegistered,   \* every guard knows the peer ids of all others
  NoEntry, NoSign,
  MaxSecrets,      \* bound on the requests to sign that find no entry, of each guard
  MaxFaults        \* bound on timeouts, crashes and failed chain calls, of each guard

ASSUME MultiSigAssumption ==
  /\ IsFiniteSet(Guard)
  /\ RequiredSigner \in Nat \ {0}
  /\ AllRegistered \in BOOLEAN
  /\ MaxSecrets \in [Guard -> Nat] /\ MaxFaults \in [Guard -> Nat]

VARIABLES
  entry,     \* transactions.get(txId) of each guard
  secrets,   \* how many secrets a guard has made for the transaction
  timers,    \* delayedGenerateSign calls that have not fired
  outcome,   \* what became of the last sign() call
  msgs,      \* messages in flight; a lost one stays there
  faults,
  disturbed  \* history: what has happened of Disturbance

vars == <<entry, secrets, timers, outcome, msgs, faults, disturbed>>

-----------------------------------------------------------------------------
\* A commitment is the number of the secret it belongs to; 0 is none.
Commitments == [Guard -> Nat]
NoCommitments == [h \in Guard |-> 0]

\* A partly signed transaction.  The first signature binds it to a commitment
\* of each signer (0 of the simulated ones); it is sound as long as everybody
\* signed with the commitments it is bound to.
Signs == [first : Guard, bound : Commitments, signed : SUBSET Guard, sound : BOOLEAN]
Signers(x) == {h \in Guard : x.bound[h] # 0}
Complete(x) == x # NoSign /\ Cardinality(x.signed) >= RequiredSigner

\* secret # 0 is an entry that sign() was called for: it has a transaction,
\* boxes, requiredSigner and a promise
Entry == [secret : Nat, commitments : Commitments, sign : Signs \cup {NoSign}]

ASSUME NoEntryAssumption == NoEntry \notin Entry /\ NoSign \notin Signs

\* mutant: commitments are an empty array
UnfilledEntry == [secret |-> 0, commitments |-> [h \in {} |-> 0], sign |-> NoSign]

NewEntry == [secret |-> 0, commitments |-> NoCommitments, sign |-> NoSign]
Queued(g) == IF entry[g] = NoEntry THEN NewEntry ELSE entry[g]
Committed(en) == {h \in Guard : en.commitments[h] # 0}

\* an entry was removed before its time, a commitment took longer than
\* multiSigFirstSignDelay, the state context of the chain was not to be had
Disturbance == {"entryLost", "commitmentLate", "chainFailed"}

CommitmentMsg == [type : {"commitment"}, to : Guard, from : Guard, commitment : Nat]
SignMsg == [type : {"sign"}, to : Guard, tx : Signs, commitments : Commitments]

TypeOK ==
  /\ entry \in [Guard -> Entry \cup {NoEntry}]
  /\ secrets \in [Guard -> Nat]
  /\ timers \in [Guard -> Nat]
  /\ outcome \in [Guard -> {"none", "asked", "signed", "failed"}]
  /\ msgs \subseteq CommitmentMsg \cup SignMsg
  /\ faults \in [Guard -> Nat]
  /\ disturbed \subseteq Disturbance

Init ==
  /\ entry = [g \in Guard |-> NoEntry]
  /\ secrets = [g \in Guard |-> 0]
  /\ timers = [g \in Guard |-> 0]
  /\ outcome = [g \in Guard |-> "none"]
  /\ msgs = {}
  /\ faults = [g \in Guard |-> 0]
  /\ disturbed = {}

-----------------------------------------------------------------------------
\* What comes to a guard that has the signed transaction makes a new entry,
\* which has no transaction until it is cleaned up; this is left out.
Open(g) == outcome[g] # "signed"

Fault(g) == faults[g] < MaxFaults[g] /\ faults' = [faults EXCEPT ![g] = @ + 1]

\* sign, for a transaction that is not in the queue or only announced there.
\* A call for one that is being signed replaces the promise and nothing else.
Sign(g) ==
  /\ Open(g)
  /\ Queued(g).secret = 0 /\ secrets[g] < MaxSecrets[g]
  /\ secrets' = [secrets EXCEPT ![g] = @ + 1]
  /\ entry' = [entry EXCEPT ![g] = [Queued(g) EXCEPT !.secret = secrets[g] + 1]]
  /\ outcome' = [outcome EXCEPT ![g] = "asked"]
  /\ msgs' = msgs \cup [type : {"commitment"}, to : Guard \ {g}, from : {g},
                        commitment : {secrets[g] + 1}]
  /\ UNCHANGED <<timers, faults, disturbed>>

\* commitments that come after the first signature are not needed
HandleCommitment(m) ==
  /\ m \in msgs /\ m.type = "commitment" /\ Open(m.to)
  /\ LET g == m.to
         en == IF Queued(g).sign # NoSign THEN Queued(g)
               ELSE [Queued(g) EXCEPT !.commitments[m.from] = m.commitment]
         enough == /\ en.sign = NoSign /\ en.secret # 0
                   /\ Cardinality(Committed(en)) >= RequiredSigner - 1
     IN /\ entry' = [entry EXCEPT ![g] = en]
        /\ timers' = [timers EXCEPT ![g] = IF enough THEN @ + 1 ELSE @]
  /\ msgs' = msgs \ {m}
  /\ UNCHANGED <<secrets, outcome, faults, disturbed>>

\* The first signature: who has not committed is simulated, and who is one
\* too many.  The prover fails if there are too few.
FirstSigns(g, en) ==
  {[first |-> g, signed |-> {g}, sound |-> TRUE,
    bound |-> [h \in Guard |-> IF h = g THEN en.secret
                               ELSE IF h \in others THEN en.commitments[h] ELSE 0]] :
     others \in kSubset(RequiredSigner - 1, Committed(en) \ {g})}

\* who the prover takes to be signers: those who have signed and those whose
\* commitment the guard itself has received
Known(g, x, en) == x.signed \cup {g} \cup (Signers(x) \cap Committed(en))

SignedWell(g, x, en) ==
  /\ en.secret = x.bound[g]
  /\ \A h \in Signers(x) \ (x.signed \cup {g}) : en.commitments[h] = x.bound[h]

\* The next signature.  What the prover makes of a part that is simulated
\* already is its own affair: it fails or spoils the transaction.
NextSigns(g, en) ==
  LET x == en.sign
      next == [x EXCEPT !.signed = @ \cup {g}, !.sound = @ /\ SignedWell(g, x, en)]
  IN IF Cardinality(Known(g, x, en)) < RequiredSigner THEN {}
     ELSE IF g \in Signers(x) THEN {next} ELSE {x, next}

\* generateSign: what the transaction may be afterwards
GeneratedSigns(g, en) ==
  IF en.secret = 0 THEN {en.sign}
  ELSE IF en.sign = NoSign
       THEN IF FirstSigns(g, en) = {} THEN {NoSign} ELSE FirstSigns(g, en)
  ELSE IF g \in en.sign.signed \/ NextSigns(g, en) = {} THEN {en.sign}
  ELSE NextSigns(g, en)

\* mutant: to everybody
AnnouncedToAll(g, en, x) ==
  IF x = en.sign THEN {}
  ELSE [type : {"sign"}, to : Guard \ {g}, tx : {x},
        commitments : {IF Complete(x) THEN NoCommitments ELSE en.commitments}]

\* To the signers, or to everybody when it is complete.  With no peer id
\* known among them sendMessage broadcasts.  The commitments go along, but
\* not with a complete transaction.
Announced(g, en, x) ==
  LET to == IF Complete(x) \/ ~AllRegistered THEN Guard ELSE Signers(x)
  IN IF x = en.sign THEN {}
     ELSE [type : {"sign"}, to : to \ {g}, tx : {x},
           commitments : {IF Complete(x) THEN NoCommitments ELSE en.commitments}]

\* processResolve settles the promise; verify_tx_input_proof tells the sound
\* from the others.  When the chain fails all stays as it is.
ProcessResolve(g, en, failed) ==
  IF Complete(en.sign) /\ en.secret # 0 /\ ~failed
  THEN /\ entry' = [entry EXCEPT ![g] = NoEntry]
       /\ outcome' = [outcome EXCEPT ![g] = IF en.sign.sound THEN "signed" ELSE "failed"]
  ELSE /\ entry' = [entry EXCEPT ![g] = en]
       /\ UNCHANGED outcome

\* what multiSigFirstSignDelay is for; two signers need no third one's commitment
Late == RequiredSigner > 2 /\ \E m \in msgs : m.type = "commitment" /\ Open(m.to)

ChainFails(g) == Fault(g) /\ disturbed' = disturbed \cup {"chainFailed"}

\* When a call that ends with x needs the chain: for the hints of what others
\* signed, without which x is as it was, and for verifying a complete one.
NeedsChain(g, en, x) ==
  \/ x = en.sign /\ x # NoSign /\ g \notin x.signed
  \/ Complete(x)

\* delayedGenerateSign, multiSigFirstSignDelay after there were enough commitments
DelayedGenerateSign(g) ==
  /\ timers[g] > 0 /\ Open(g)
  /\ timers' = [timers EXCEPT ![g] = @ - 1]
  /\ LET en == Queued(g)
     IN \/ /\ \E x \in GeneratedSigns(g, en) :
                /\ msgs' = msgs \cup Announced(g, en, x)
                /\ ProcessResolve(g, [en EXCEPT !.sign = x], FALSE)
           /\ disturbed' = disturbed \cup IF Late THEN {"commitmentLate"} ELSE {}
           /\ UNCHANGED faults
        \/ \* the chain fails before or after the own signature
           /\ \E x \in {en.sign} \cup GeneratedSigns(g, en) :
                /\ NeedsChain(g, en, x)
                /\ msgs' = msgs \cup Announced(g, en, x)
                /\ ProcessResolve(g, [en EXCEPT !.sign = x], TRUE)
           /\ ChainFails(g)
  /\ UNCHANGED secrets

\* mutant: the own commitment is not compared
AgreesButOwn(g, en, m) ==
  \A h \in Guard : m.commitments[h] # 0 =>
    /\ en.commitments[h] # 0 => m.commitments[h] = en.commitments[h]
    /\ h \in m.tx.signed => m.commitments[h] = m.tx.bound[h]

\* verifySignedPayload: the commitments that came along are the own one, those
\* received before and those the transaction was signed with
Agrees(g, en, m) ==
  \A h \in Guard : m.commitments[h] # 0 =>
    /\ h = g => m.commitments[h] = en.secret
    /\ en.commitments[h] # 0 => m.commitments[h] = en.commitments[h]
    /\ h \in m.tx.signed => m.commitments[h] = m.tx.bound[h]

Verified(g, m) == Queued(g).secret # 0 /\ Agrees(g, Queued(g), m)

\* mutant: the own signature counts
BetterThanOwn(g, x, y) ==
  y = NoSign \/ Cardinality(x.signed) > Cardinality(y.signed)

Better(g, x, y) ==
  y = NoSign \/ Cardinality(x.signed \ {g}) > Cardinality(y.signed \ {g})

\* the hints of a transaction cannot be extracted without its boxes
RefuseSign(m) ==
  /\ m \in msgs /\ m.type = "sign" /\ Open(m.to)
  /\ ~Verified(m.to, m)
  /\ entry' = [entry EXCEPT ![m.to] = Queued(m.to)]
  /\ msgs' = msgs \ {m}
  /\ UNCHANGED <<secrets, timers, outcome, faults, disturbed>>

\* The commitments that came along are not stored: their signatures were made
\* over the index and the id too, and do not verify without.
HandleSign(m) ==
  /\ m \in msgs /\ m.type = "sign" /\ Open(m.to)
  /\ Verified(m.to, m)
  /\ LET g == m.to
         en == [Queued(g) EXCEPT !.sign = IF Better(g, m.tx, @) THEN m.tx ELSE @]
         mine == g \in Signers(en.sign) \ en.sign.signed /\ ~Complete(en.sign)
     IN \/ /\ \E x \in IF mine THEN GeneratedSigns(g, en) ELSE {en.sign} :
                /\ msgs' = (msgs \ {m}) \cup Announced(g, en, x)
                /\ ProcessResolve(g, [en EXCEPT !.sign = x], FALSE)
           /\ UNCHANGED <<faults, disturbed>>
        \/ \* the chain fails before or after the own signature; if it does
           \* in verifySignedPayload the message might as well be lost
           /\ \E x \in {en.sign} \cup IF mine THEN GeneratedSigns(g, en) ELSE {} :
                /\ IF mine THEN NeedsChain(g, en, x) ELSE Complete(x)
                /\ msgs' = (msgs \ {m}) \cup Announced(g, en, x)
                /\ ProcessResolve(g, [en EXCEPT !.sign = x], TRUE)
           /\ ChainFails(g)
  /\ UNCHANGED <<secrets, timers>>

-----------------------------------------------------------------------------
\* cleanup, txSignTimeout after the entry was created
Cleanup(g) ==
  /\ Fault(g)
  /\ entry[g] # NoEntry
  /\ entry' = [entry EXCEPT ![g] = NoEntry]
  /\ outcome' = [outcome EXCEPT ![g] = IF entry[g].secret # 0 THEN "failed" ELSE @]
  /\ disturbed' = disturbed \cup {"entryLost"}
  /\ UNCHANGED <<secrets, timers, msgs>>

\* the process dies, and the promise with it
Crash(g) ==
  /\ Fault(g)
  /\ entry' = [entry EXCEPT ![g] = NoEntry]
  /\ timers' = [timers EXCEPT ![g] = 0]
  /\ outcome' = [outcome EXCEPT ![g] = IF Queued(g).secret # 0 THEN "failed" ELSE @]
  /\ disturbed' = disturbed \cup {"entryLost"}
  /\ UNCHANGED <<secrets, msgs>>

Next ==
  \/ \E g \in Guard : Sign(g) \/ DelayedGenerateSign(g) \/ Cleanup(g) \/ Crash(g)
  \/ \E m \in msgs : HandleCommitment(m) \/ RefuseSign(m) \/ HandleSign(m)

Spec == Init /\ [][Next]_vars

-----------------------------------------------------------------------------
(* Properties.                                                             *)

Transcripts ==
  {m.tx : m \in {n \in msgs : n.type = "sign"}}
    \cup ({IF entry[g] = NoEntry THEN NoSign ELSE entry[g].sign : g \in Guard} \ {NoSign})

\* A transaction is signed with the commitments it is bound to, whatever
\* guards forgot, made again or received late: what its signers completed is
\* never refused by the chain.
SignersAgree == \A x \in Transcripts : x.signed \subseteq Signers(x) => x.sound

\* Nobody signs where its part is simulated: an unfinished transaction goes to
\* its signers only, and a complete one does not stay.
SimulatedStayOut ==
  "chainFailed" \notin disturbed =>
    \A x \in Transcripts : x.signed \subseteq Signers(x)

\* Nobody signs, or counts as a signer, who was not asked to by its own
\* TransactionProcessor, whatever commitments and signatures of others reach
\* it: a signed transaction was handed to the signers of as many guards as
\* must sign (what TxAgreement's Confirm wants).
Requested == {g \in Guard : secrets[g] # 0}

SignedOnlyByRequested ==
  /\ \A x \in Transcripts : x.signed \cup Signers(x) \subseteq Requested
  /\ (\E g \in Guard : outcome[g] = "signed") => Cardinality(Requested) >= RequiredSigner

\* If all guards were asked, all messages arrived and nobody gave up, then the
\* exchange ends with a signed transaction: the signers of one first
\* signature do not wait for those of another.
ExchangeEndsSigned ==
  /\ disturbed = {} /\ msgs = {}
  /\ \A g \in Guard : outcome[g] # "none" /\ timers[g] = 0
  => \E g \in Guard : outcome[g] = "signed"
=============================================================================

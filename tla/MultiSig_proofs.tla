--------------------------- MODULE MultiSig_proofs ---------------------------
(***************************************************************************)
(* What the signers of a transaction complete is valid, for any guards,    *)
(* any number of required signers, timeouts, crashes and lost messages;    *)
(* and an exchange that nothing disturbs ends with a signed transaction.   *)
(***************************************************************************)
EXTENDS MultiSig, FiniteSetTheorems, FunctionTheorems, WellFoundedInduction, TLAPS

USE MultiSigAssumption, NoEntryAssumption DEF NoCommitments

-----------------------------------------------------------------------------
(* Lemmas about the operators.                                             *)

LEMMA QueuedType ==
  ASSUME TypeOK, NEW g \in Guard
  PROVE  Queued(g) \in Entry
  BY DEF TypeOK, Queued, NewEntry, Entry, Commitments

LEMMA EntryWith ==
  ASSUME NEW en \in Entry
  PROVE  /\ \A s \in Nat : [en EXCEPT !.secret = s] \in Entry
         /\ \A h \in Guard, c \in Nat : [en EXCEPT !.commitments[h] = c] \in Entry
<1>1. ASSUME NEW s \in Nat PROVE [en EXCEPT !.secret = s] \in Entry
  BY DEF Entry
<1>2. ASSUME NEW h \in Guard, NEW c \in Nat PROVE [en EXCEPT !.commitments[h] = c] \in Entry
  <2>1. [en.commitments EXCEPT ![h] = c] \in Commitments
    BY DEF Entry, Commitments
  <2> QED
    BY <2>1 DEF Entry
<1> QED
  BY <1>1, <1>2

LEMMA FirstSignsType ==
  ASSUME NEW g \in Guard, NEW en \in Entry, NEW x \in FirstSigns(g, en)
  PROVE  x \in Signs /\ x.signed = {g} /\ x.sound
<1>1. PICK others \in kSubset(RequiredSigner - 1, Committed(en) \ {g}) :
        x = [first |-> g, signed |-> {g}, sound |-> TRUE,
             bound |-> [h \in Guard |-> IF h = g THEN en.secret
                                        ELSE IF h \in others THEN en.commitments[h] ELSE 0]]
  BY DEF FirstSigns
<1> QED
  BY <1>1 DEF Signs, Entry, Commitments

\* The first signature has requiredSigner signers, and is bound to what the
\* guard knows of them.
LEMMA FirstSignsBound ==
  ASSUME NEW g \in Guard, NEW en \in Entry, en.secret # 0, NEW x \in FirstSigns(g, en)
  PROVE  /\ Cardinality(Signers(x)) = RequiredSigner
         /\ g \in Signers(x) /\ x.bound[g] = en.secret
         /\ \A h \in Signers(x) \ {g} : x.bound[h] = en.commitments[h]
<1>1. PICK others \in kSubset(RequiredSigner - 1, Committed(en) \ {g}) :
        x = [first |-> g, signed |-> {g}, sound |-> TRUE,
             bound |-> [h \in Guard |-> IF h = g THEN en.secret
                                        ELSE IF h \in others THEN en.commitments[h] ELSE 0]]
  BY DEF FirstSigns
<1>2. others \subseteq Committed(en) \ {g} /\ Cardinality(others) = RequiredSigner - 1
  BY DEF kSubset
<1>3. others \subseteq Guard /\ g \notin others
  BY <1>2 DEF Committed
<1>4. Signers(x) = others \cup {g}
  BY <1>1, <1>2, <1>3 DEF Signers, Committed
<1>5. IsFiniteSet(others)
  BY <1>3, FS_Subset
<1>6. Cardinality(Signers(x)) = RequiredSigner
  <2>1. Cardinality(others \cup {g}) = Cardinality(others) + 1
    BY <1>3, <1>5, FS_AddElement
  <2> QED
    BY <2>1, <1>2, <1>4
<1> QED
  BY <1>1, <1>3, <1>4, <1>6

\* The next signature adds the own one and changes nothing else.
LEMMA NextSignsType ==
  ASSUME NEW g \in Guard, NEW en \in Entry, en.sign # NoSign, NEW x \in NextSigns(g, en)
  PROVE  /\ x \in Signs /\ x.bound = en.sign.bound
         /\ Cardinality(Known(g, en.sign, en)) >= RequiredSigner
         /\ \/ x = en.sign /\ g \notin Signers(en.sign)
            \/ /\ x.signed = en.sign.signed \cup {g}
               /\ x.sound = (en.sign.sound /\ SignedWell(g, en.sign, en))
<1>1. en.sign \in Signs
  BY DEF Entry
<1> DEFINE next == [en.sign EXCEPT !.signed = @ \cup {g},
                                   !.sound = @ /\ SignedWell(g, en.sign, en)]
<1>2. SignedWell(g, en.sign, en) \in BOOLEAN
  BY DEF SignedWell
<1>3. /\ next \in Signs /\ next.bound = en.sign.bound
      /\ next.signed = en.sign.signed \cup {g}
      /\ next.sound = (en.sign.sound /\ SignedWell(g, en.sign, en))
  BY <1>1, <1>2 DEF Signs
<1>4. ~(Cardinality(Known(g, en.sign, en)) < RequiredSigner)
  BY DEF NextSigns
<1>5. Cardinality(Known(g, en.sign, en)) \in Nat
  <2>1. Known(g, en.sign, en) \subseteq Guard
    BY <1>1 DEF Known, Signs, Signers
  <2> QED
    BY <2>1, FS_Subset, FS_CardinalityType
<1>6. x = next \/ (x = en.sign /\ g \notin Signers(en.sign))
  BY <1>4 DEF NextSigns
<1>7. Cardinality(Known(g, en.sign, en)) >= RequiredSigner
  BY <1>4, <1>5
<1> HIDE DEF next
<1> QED
  BY <1>1, <1>3, <1>6, <1>7, Zenon

LEMMA GeneratedType ==
  ASSUME NEW g \in Guard, NEW en \in Entry, NEW x \in GeneratedSigns(g, en)
  PROVE  x \in Signs \cup {NoSign}
<1>1. en.sign \in Signs \cup {NoSign}
  BY DEF Entry
<1> QED
  BY <1>1, FirstSignsType, NextSignsType DEF GeneratedSigns

LEMMA AnnouncedType ==
  ASSUME NEW g \in Guard, NEW en \in Entry, NEW x \in Signs
  PROVE  Announced(g, en, x) \subseteq SignMsg
  BY DEF Announced, SignMsg, Entry, Signers, Commitments

LEMMA ResolveType ==
  ASSUME TypeOK, NEW g \in Guard, NEW en \in Entry, NEW failed \in BOOLEAN,
         ProcessResolve(g, en, failed)
  PROVE  /\ entry' \in [Guard -> Entry \cup {NoEntry}]
         /\ outcome' \in [Guard -> {"none", "asked", "signed", "failed"}]
  BY DEF TypeOK, ProcessResolve

-----------------------------------------------------------------------------
(* Types.                                                                  *)

LEMMA TypeInit == Init => TypeOK
  BY DEF Init, TypeOK

\* generateSign and processResolve, for the delayed sign and for a received one
LEMMA GenerateStepType ==
  ASSUME TypeOK, NEW g \in Guard, NEW en \in Entry, NEW before \in SUBSET msgs,
         NEW failed \in BOOLEAN,
         NEW x \in {en.sign} \cup GeneratedSigns(g, en),
         msgs' = before \cup Announced(g, en, x),
         ProcessResolve(g, [en EXCEPT !.sign = x], failed)
  PROVE  /\ entry' \in [Guard -> Entry \cup {NoEntry}]
         /\ outcome' \in [Guard -> {"none", "asked", "signed", "failed"}]
         /\ msgs' \subseteq CommitmentMsg \cup SignMsg
<1>1. x \in Signs \cup {NoSign}
  BY GeneratedType DEF Entry
<1>2. [en EXCEPT !.sign = x] \in Entry
  BY <1>1 DEF Entry
<1>3. Announced(g, en, x) \subseteq SignMsg
  <2>1. CASE x \in Signs
    BY <2>1, AnnouncedType
  <2>2. CASE x \notin Signs
    <3>1. x = en.sign
      BY <1>1, <2>2, FirstSignsType, NextSignsType DEF GeneratedSigns
    <3> QED
      BY <3>1 DEF Announced
  <2> QED
    BY <2>1, <2>2
<1> QED
  BY <1>2, <1>3, ResolveType DEF TypeOK

LEMMA FaultType ==
  ASSUME TypeOK, NEW g \in Guard, Fault(g)
  PROVE  faults' \in [Guard -> Nat]
  BY DEF TypeOK, Fault

LEMMA ChainFailsType ==
  ASSUME TypeOK, NEW g \in Guard, ChainFails(g)
  PROVE  faults' \in [Guard -> Nat] /\ disturbed' \subseteq Disturbance
  BY FaultType DEF TypeOK, ChainFails, Disturbance

LEMMA TypeStep == TypeOK /\ [Next]_vars => TypeOK'
<1> SUFFICES ASSUME TypeOK, [Next]_vars PROVE TypeOK'
  OBVIOUS
<1> USE DEF TypeOK
<1>1. ASSUME NEW g \in Guard, Sign(g) PROVE TypeOK'
  <2> DEFINE sent == [type : {"commitment"}, to : Guard \ {g}, from : {g},
                      commitment : {secrets[g] + 1}]
  <2>1. [Queued(g) EXCEPT !.secret = secrets[g] + 1] \in Entry
    <3>1. Queued(g) \in Entry
      BY QueuedType
    <3>2. secrets[g] + 1 \in Nat
      OBVIOUS
    <3> QED
      BY <3>1, <3>2, EntryWith, Zenon
  <2>2. sent \subseteq CommitmentMsg
    BY DEF CommitmentMsg
  <2>3. /\ entry' = [entry EXCEPT ![g] = [Queued(g) EXCEPT !.secret = secrets[g] + 1]]
        /\ msgs' = msgs \cup sent
    BY <1>1 DEF Sign
  <2>4. entry' \in [Guard -> Entry \cup {NoEntry}] /\ msgs' \subseteq CommitmentMsg \cup SignMsg
    BY <2>1, <2>2, <2>3
  <2>5. /\ secrets' \in [Guard -> Nat]
        /\ outcome' \in [Guard -> {"none", "asked", "signed", "failed"}]
        /\ UNCHANGED <<timers, faults, disturbed>>
    BY <1>1 DEF Sign
  <2> HIDE DEF sent
  <2> QED
    BY <2>4, <2>5
<1>2. ASSUME NEW g \in Guard, DelayedGenerateSign(g) PROVE TypeOK'
  <2>1. PICK failed \in BOOLEAN, x \in {Queued(g).sign} \cup GeneratedSigns(g, Queued(g)) :
          /\ msgs' = msgs \cup Announced(g, Queued(g), x)
          /\ ProcessResolve(g, [Queued(g) EXCEPT !.sign = x], failed)
    BY <1>2 DEF DelayedGenerateSign
  <2>2. /\ entry' \in [Guard -> Entry \cup {NoEntry}]
        /\ outcome' \in [Guard -> {"none", "asked", "signed", "failed"}]
        /\ msgs' \subseteq CommitmentMsg \cup SignMsg
    BY <2>1, QueuedType, GenerateStepType
  <2>3. faults' \in [Guard -> Nat] /\ disturbed' \subseteq Disturbance
    <3>1. ChainFails(g) \/ (UNCHANGED faults /\ disturbed' \subseteq disturbed \cup {"commitmentLate"})
      BY <1>2 DEF DelayedGenerateSign
    <3> QED
      BY <3>1, ChainFailsType DEF Disturbance
  <2>4. timers' \in [Guard -> Nat] /\ secrets' = secrets
    BY <1>2 DEF DelayedGenerateSign
  <2> QED
    BY <2>2, <2>3, <2>4
<1>3. ASSUME NEW m \in msgs, HandleCommitment(m) PROVE TypeOK'
  <2>1. m \in CommitmentMsg
    BY <1>3 DEF HandleCommitment, SignMsg
  <2> DEFINE en == IF Queued(m.to).sign # NoSign THEN Queued(m.to)
                   ELSE [Queued(m.to) EXCEPT !.commitments[m.from] = m.commitment]
  <2>2. m.to \in Guard /\ en \in Entry
    <3>1. m.to \in Guard /\ m.from \in Guard /\ m.commitment \in Nat
      BY <2>1 DEF CommitmentMsg
    <3>2. Queued(m.to) \in Entry
      BY <3>1, QueuedType
    <3> QED
      BY <3>1, <3>2, EntryWith, Zenon
  <2>3. entry' = [entry EXCEPT ![m.to] = en]
    BY <1>3 DEF HandleCommitment
  <2>4. timers' \in [Guard -> Nat]
    <3>1. \E b \in BOOLEAN : timers' = [timers EXCEPT ![m.to] = IF b THEN @ + 1 ELSE @]
      BY <1>3 DEF HandleCommitment
    <3> QED
      BY <2>2, <3>1
  <2>5. /\ msgs' \subseteq msgs
        /\ UNCHANGED <<secrets, outcome, faults, disturbed>>
    BY <1>3 DEF HandleCommitment
  <2> QED
    BY <2>2, <2>3, <2>4, <2>5
<1>4. ASSUME NEW m \in msgs, RefuseSign(m) PROVE TypeOK'
  <2>1. m.to \in Guard
    BY DEF CommitmentMsg, SignMsg
  <2> QED
    BY <1>4, <2>1, QueuedType DEF RefuseSign
<1>5. ASSUME NEW m \in msgs, HandleSign(m) PROVE TypeOK'
  <2> DEFINE g == m.to
             en == [Queued(g) EXCEPT !.sign = IF Better(g, m.tx, @) THEN m.tx ELSE @]
  <2>1. m \in SignMsg
    BY <1>5 DEF HandleSign, CommitmentMsg
  <2>2. g \in Guard /\ en \in Entry
    BY <2>1, QueuedType DEF SignMsg, Entry
  <2>3. PICK failed \in BOOLEAN, x \in {en.sign} \cup GeneratedSigns(g, en) :
          /\ msgs' = (msgs \ {m}) \cup Announced(g, en, x)
          /\ ProcessResolve(g, [en EXCEPT !.sign = x], failed)
    BY <1>5 DEF HandleSign
  <2>4. msgs \ {m} \in SUBSET msgs
    OBVIOUS
  <2>5. /\ entry' \in [Guard -> Entry \cup {NoEntry}]
        /\ outcome' \in [Guard -> {"none", "asked", "signed", "failed"}]
        /\ msgs' \subseteq CommitmentMsg \cup SignMsg
    <3> HIDE DEF en, g
    <3> QED
      BY <2>2, <2>3, <2>4, GenerateStepType
  <2>6. faults' \in [Guard -> Nat] /\ disturbed' \subseteq Disturbance
    <3>1. ChainFails(g) \/ UNCHANGED <<faults, disturbed>>
      BY <1>5 DEF HandleSign
    <3> HIDE DEF g
    <3> QED
      BY <2>2, <3>1, ChainFailsType
  <2>7. UNCHANGED <<secrets, timers>>
    BY <1>5 DEF HandleSign
  <2> QED
    BY <2>5, <2>6, <2>7
<1>6. ASSUME NEW g \in Guard, Cleanup(g) \/ Crash(g) PROVE TypeOK'
  <2>1. faults' \in [Guard -> Nat]
    BY <1>6, FaultType DEF Cleanup, Crash
  <2>2. entry' \in [Guard -> Entry \cup {NoEntry}] /\ timers' \in [Guard -> Nat]
    BY <1>6 DEF Cleanup, Crash
  <2>3. outcome' \in [Guard -> {"none", "asked", "signed", "failed"}]
    BY <1>6 DEF Cleanup, Crash
  <2>4. disturbed' \subseteq Disturbance /\ UNCHANGED <<secrets, msgs>>
    BY <1>6 DEF Cleanup, Crash, Disturbance
  <2> QED
    BY <2>1, <2>2, <2>3, <2>4
<1>7. CASE UNCHANGED vars
  BY <1>7 DEF vars
<1> QED
  BY <1>1, <1>2, <1>3, <1>4, <1>5, <1>6, <1>7 DEF Next

(***************************************************************************)
(* Every variable stays in its type: an entry is whole whatever order sign *)
(* and the messages come in, and only partly signed transactions are sent. *)
(***************************************************************************)
THEOREM TypeCorrect == Spec => []TypeOK
  BY TypeInit, TypeStep, PTL DEF Spec

-----------------------------------------------------------------------------
(* The invariant.  A transaction has requiredSigner signers, and as long as *)
(* only they signed it, whoever has it agrees to the commitments it is      *)
(* bound to: the guards to which it comes, and the messages it comes in.    *)

Honest(x) == x.signed \subseteq Signers(x)

WellSigned(x) == Cardinality(Signers(x)) = RequiredSigner /\ (Honest(x) => x.sound)

EntryBound(g, en) ==
  en.sign # NoSign =>
    /\ en.secret # 0
    /\ WellSigned(en.sign)
    /\ Honest(en.sign) =>
         /\ g \in Signers(en.sign) \ en.sign.signed => en.secret = en.sign.bound[g]
         /\ \A h \in Signers(en.sign) \ (en.sign.signed \cup {g}) :
              en.commitments[h] # 0 => en.commitments[h] = en.sign.bound[h]

MessageBound(m) ==
  m.type = "sign" =>
    /\ WellSigned(m.tx)
    /\ Honest(m.tx) =>
         \A h \in Signers(m.tx) \ m.tx.signed : m.commitments[h] = m.tx.bound[h]

BindInv ==
  /\ \A g \in Guard : entry[g] # NoEntry => EntryBound(g, entry[g])
  /\ \A m \in msgs : MessageBound(m)

\* A complete transaction is signed by all its signers.
LEMMA CompleteByAll ==
  ASSUME NEW x \in Signs, Cardinality(Signers(x)) = RequiredSigner, Honest(x), Complete(x)
  PROVE  x.signed = Signers(x)
<1>1. IsFiniteSet(Signers(x)) /\ IsFiniteSet(x.signed)
  BY FS_Subset DEF Signers, Signs
<1>2. Cardinality(x.signed) <= Cardinality(Signers(x))
  BY <1>1, FS_Subset DEF Honest
<1>3. Cardinality(x.signed) >= RequiredSigner
  BY DEF Complete
<1>4. Cardinality(x.signed) \in Nat
  BY <1>1, FS_CardinalityType
<1>5. Cardinality(x.signed) = Cardinality(Signers(x))
  BY <1>2, <1>3, <1>4
<1> QED
  BY <1>1, <1>5, FS_Subset DEF Honest

\* What the first signature makes agrees with the entry it was made from.
LEMMA FirstBound ==
  ASSUME NEW g \in Guard, NEW en \in Entry, en.secret # 0, NEW x \in FirstSigns(g, en)
  PROVE  /\ WellSigned(x)
         /\ \A h \in Signers(x) \ x.signed : en.commitments[h] = x.bound[h]
         /\ EntryBound(g, [en EXCEPT !.sign = x])
<1>1. /\ Cardinality(Signers(x)) = RequiredSigner
      /\ \A h \in Signers(x) \ {g} : x.bound[h] = en.commitments[h]
  BY FirstSignsBound
<1>2. x.signed = {g} /\ x.sound
  BY FirstSignsType
<1>3. WellSigned(x)
  BY <1>1, <1>2 DEF WellSigned
<1> DEFINE new == [en EXCEPT !.sign = x]
<1>4. new.sign = x /\ new.secret = en.secret /\ new.commitments = en.commitments
  BY DEF Entry
<1> HIDE DEF new
<1>5. EntryBound(g, new)
  BY <1>1, <1>2, <1>3, <1>4 DEF EntryBound
<1> QED
  BY <1>1, <1>2, <1>3, <1>5 DEF new

\* What the next signature makes is sound if all was right before: the prover
\* has the commitments of all signers, and they are those it is bound to.
LEMMA NextBound ==
  ASSUME NEW g \in Guard, NEW en \in Entry, EntryBound(g, en), en.sign # NoSign,
         g \notin en.sign.signed, NEW x \in NextSigns(g, en), x # en.sign
  PROVE  /\ WellSigned(x)
         /\ Honest(x) => \A h \in Signers(x) \ x.signed : en.commitments[h] = x.bound[h]
         /\ EntryBound(g, [en EXCEPT !.sign = x])
<1> DEFINE y == en.sign
<1>1. /\ x \in Signs /\ x.bound = y.bound
      /\ Cardinality(Known(g, y, en)) >= RequiredSigner
      /\ x.signed = y.signed \cup {g}
      /\ x.sound = (y.sound /\ SignedWell(g, y, en))
  BY NextSignsType
<1>2. Signers(x) = Signers(y)
  BY <1>1 DEF Signers
<1>3. Cardinality(Signers(y)) = RequiredSigner /\ (Honest(y) => y.sound) /\ y \in Signs
  BY DEF EntryBound, WellSigned, Entry
<1>4. ASSUME Honest(x)
      PROVE  /\ x.sound
             /\ \A h \in Signers(x) \ x.signed : en.commitments[h] = x.bound[h]
  <2>1. Honest(y) /\ g \in Signers(y)
    BY <1>1, <1>2, <1>4 DEF Honest
  <2>2. Known(g, y, en) \subseteq Signers(y)
    BY <2>1 DEF Known, Honest
  <2>3. IsFiniteSet(Signers(y)) /\ IsFiniteSet(Known(g, y, en))
    <3>1. Signers(y) \subseteq Guard
      BY DEF Signers
    <3>2. IsFiniteSet(Signers(y))
      BY <3>1, FS_Subset
    <3> QED
      BY <2>2, <3>2, FS_Subset
  <2>4. Known(g, y, en) = Signers(y)
    <3>1. Cardinality(Known(g, y, en)) \in Nat /\ Cardinality(Known(g, y, en)) <= RequiredSigner
      BY <1>3, <2>2, <2>3, FS_Subset, FS_CardinalityType
    <3>2. Cardinality(Known(g, y, en)) = Cardinality(Signers(y))
      BY <1>1, <1>3, <3>1
    <3> QED
      BY <2>2, <2>3, <3>2, FS_Subset
  <2>5. \A h \in Signers(y) \ (y.signed \cup {g}) : en.commitments[h] = y.bound[h]
    <3> SUFFICES ASSUME NEW h \in Signers(y) \ (y.signed \cup {g})
                 PROVE  en.commitments[h] = y.bound[h]
      OBVIOUS
    <3>1. h \in Known(g, y, en)
      BY <2>4
    <3>2. h \in Committed(en)
      BY <3>1 DEF Known
    <3>3. en.commitments[h] # 0
      BY <3>2 DEF Committed
    <3> QED
      BY <2>1, <3>3 DEF EntryBound
  <2>6. en.secret = y.bound[g]
    BY <2>1 DEF EntryBound
  <2>7. SignedWell(g, y, en)
    BY <2>5, <2>6 DEF SignedWell
  <2> QED
    BY <1>1, <1>2, <1>3, <2>1, <2>5, <2>7
<1>5. WellSigned(x)
  BY <1>2, <1>3, <1>4 DEF WellSigned
<1> DEFINE new == [en EXCEPT !.sign = x]
<1>6. new.sign = x /\ new.secret = en.secret /\ new.commitments = en.commitments
  BY DEF Entry
<1>7. en.secret # 0
  BY DEF EntryBound
<1> HIDE DEF new
<1>8. EntryBound(g, new)
  BY <1>1, <1>4, <1>5, <1>6, <1>7 DEF EntryBound
<1> QED
  BY <1>4, <1>5, <1>8 DEF new

\* generateSign keeps the entry and what it announces in agreement.
LEMMA GeneratedBound ==
  ASSUME NEW g \in Guard, NEW en \in Entry, EntryBound(g, en),
         NEW x \in {en.sign} \cup GeneratedSigns(g, en)
  PROVE  /\ EntryBound(g, [en EXCEPT !.sign = x])
         /\ \A m \in Announced(g, en, x) : MessageBound(m)
<1>1. CASE x = en.sign
  <2>1. [en EXCEPT !.sign = x] = en
    BY <1>1 DEF Entry
  <2>2. Announced(g, en, x) = {}
    BY <1>1 DEF Announced
  <2> QED
    BY <2>1, <2>2
<1>2. CASE x # en.sign
  <2>1. /\ x \in Signs
        /\ WellSigned(x)
        /\ Honest(x) => \A h \in Signers(x) \ x.signed : en.commitments[h] = x.bound[h]
        /\ EntryBound(g, [en EXCEPT !.sign = x])
    <3>1. CASE en.sign = NoSign
      <4>1. en.secret # 0 /\ x \in FirstSigns(g, en)
        BY <1>2, <3>1 DEF GeneratedSigns
      <4> QED
        BY <4>1, FirstBound, FirstSignsType
    <3>2. CASE en.sign # NoSign
      <4>1. g \notin en.sign.signed /\ x \in NextSigns(g, en)
        BY <1>2, <3>2 DEF GeneratedSigns
      <4> QED
        BY <1>2, <3>2, <4>1, NextBound, NextSignsType
    <3> QED
      BY <3>1, <3>2
  <2>2. ASSUME NEW m \in Announced(g, en, x) PROVE MessageBound(m)
    <3>1. m.tx = x /\ m.commitments = IF Complete(x) THEN NoCommitments ELSE en.commitments
      BY DEF Announced
    <3>2. CASE ~Complete(x)
      BY <2>1, <3>1, <3>2 DEF MessageBound
    <3>3. CASE Complete(x)
      BY <2>1, <3>1, <3>3, CompleteByAll DEF MessageBound, WellSigned
    <3> QED
      BY <3>2, <3>3
  <2> QED
    BY <2>1, <2>2
<1> QED
  BY <1>1, <1>2

LEMMA QueuedBound ==
  ASSUME BindInv, NEW g \in Guard
  PROVE  EntryBound(g, Queued(g))
  BY DEF BindInv, Queued, NewEntry, EntryBound

\* One guard's entry changes, and messages that agree are sent.
LEMMA KeepsBound ==
  ASSUME TypeOK, BindInv, NEW g \in Guard, NEW en, EntryBound(g, en),
         entry' = [entry EXCEPT ![g] = en] \/ entry' = [entry EXCEPT ![g] = NoEntry],
         \A m \in msgs' : m \in msgs \/ MessageBound(m)
  PROVE  BindInv'
<1>1. \A h \in Guard : entry'[h] # NoEntry => EntryBound(h, entry'[h])
  BY DEF BindInv, TypeOK
<1>2. \A m \in msgs' : MessageBound(m)
  BY DEF BindInv
<1> QED
  BY <1>1, <1>2 DEF BindInv, EntryBound, MessageBound, WellSigned, Honest

\* What a guard stores of a message it verified agrees with its entry.
LEMMA StoredBound ==
  ASSUME NEW m \in SignMsg, NEW en \in Entry, en.secret # 0,
         EntryBound(m.to, en), MessageBound(m), Agrees(m.to, en, m)
  PROVE  EntryBound(m.to, [en EXCEPT !.sign = m.tx])
<1> DEFINE new == [en EXCEPT !.sign = m.tx]
           x == m.tx
<1>1. new.sign = x /\ new.secret = en.secret /\ new.commitments = en.commitments
  BY DEF Entry
<1>2. m.type = "sign" /\ x \in Signs /\ m.to \in Guard
  BY DEF SignMsg
<1>3. WellSigned(x)
  BY <1>2 DEF MessageBound
<1>4. ASSUME Honest(x), NEW h \in Signers(x) \ x.signed
      PROVE  /\ m.commitments[h] = x.bound[h] /\ m.commitments[h] # 0
             /\ h \in Guard
    BY <1>2, <1>4 DEF MessageBound, Signers
<1>5. ASSUME Honest(x), m.to \in Signers(x) \ x.signed
      PROVE  en.secret = x.bound[m.to]
    BY <1>4, <1>5 DEF Agrees
<1>6. ASSUME Honest(x), NEW h \in Signers(x) \ (x.signed \cup {m.to}), en.commitments[h] # 0
      PROVE  en.commitments[h] = x.bound[h]
    BY <1>4, <1>6 DEF Agrees
<1> HIDE DEF new
<1>7. EntryBound(m.to, new)
  BY <1>1, <1>3, <1>5, <1>6 DEF EntryBound
<1> QED
  BY <1>7 DEF new

LEMMA BindInit == Init => BindInv
  BY DEF Init, BindInv

LEMMA BindStep == TypeOK /\ BindInv /\ [Next]_vars => BindInv'
<1> SUFFICES ASSUME TypeOK, BindInv, [Next]_vars PROVE BindInv'
  OBVIOUS
<1>1. ASSUME NEW g \in Guard, Sign(g) PROVE BindInv'
  <2> DEFINE en == [Queued(g) EXCEPT !.secret = secrets[g] + 1]
  <2>1. Queued(g).secret = 0 /\ EntryBound(g, Queued(g)) /\ Queued(g) \in Entry
    BY <1>1, QueuedBound, QueuedType DEF Sign
  <2>2. en.sign = NoSign
    BY <2>1 DEF EntryBound, Entry
  <2>3. EntryBound(g, en)
    BY <2>2 DEF EntryBound
  <2>4. entry' = [entry EXCEPT ![g] = en]
    BY <1>1 DEF Sign
  <2>5. \A m \in msgs' : m \in msgs \/ MessageBound(m)
    BY <1>1 DEF Sign, MessageBound
  <2> QED
    BY <2>3, <2>4, <2>5, KeepsBound
<1>2. ASSUME NEW g \in Guard, DelayedGenerateSign(g) PROVE BindInv'
  <2>1. PICK failed \in BOOLEAN, x \in {Queued(g).sign} \cup GeneratedSigns(g, Queued(g)) :
          /\ msgs' = msgs \cup Announced(g, Queued(g), x)
          /\ ProcessResolve(g, [Queued(g) EXCEPT !.sign = x], failed)
    BY <1>2 DEF DelayedGenerateSign
  <2> DEFINE en == [Queued(g) EXCEPT !.sign = x]
  <2>2. EntryBound(g, en) /\ \A m \in Announced(g, Queued(g), x) : MessageBound(m)
    BY QueuedType, QueuedBound, GeneratedBound
  <2>3. entry' = [entry EXCEPT ![g] = en] \/ entry' = [entry EXCEPT ![g] = NoEntry]
    BY <2>1 DEF ProcessResolve
  <2>4. \A m \in msgs' : m \in msgs \/ MessageBound(m)
    BY <2>1, <2>2
  <2> QED
    BY <2>2, <2>3, <2>4, KeepsBound
<1>3. ASSUME NEW m \in msgs, HandleCommitment(m) PROVE BindInv'
  <2> DEFINE g == m.to
             en == IF Queued(g).sign # NoSign THEN Queued(g)
                   ELSE [Queued(g) EXCEPT !.commitments[m.from] = m.commitment]
  <2>1. g \in Guard
    BY DEF TypeOK, CommitmentMsg, SignMsg
  <2>2. EntryBound(g, Queued(g)) /\ Queued(g) \in Entry
    BY <2>1, QueuedBound, QueuedType
  <2>3. Queued(g).sign = NoSign => en.sign = NoSign
    BY <2>2 DEF Entry
  <2>4. EntryBound(g, en)
    BY <2>2, <2>3 DEF EntryBound
  <2>5. entry' = [entry EXCEPT ![g] = en] /\ msgs' \subseteq msgs
    BY <1>3 DEF HandleCommitment
  <2> QED
    BY <2>1, <2>4, <2>5, KeepsBound
<1>4. ASSUME NEW m \in msgs, RefuseSign(m) PROVE BindInv'
  <2>1. m.to \in Guard
    BY DEF TypeOK, CommitmentMsg, SignMsg
  <2>2. EntryBound(m.to, Queued(m.to))
    BY <2>1, QueuedBound
  <2>3. entry' = [entry EXCEPT ![m.to] = Queued(m.to)] /\ msgs' \subseteq msgs
    BY <1>4 DEF RefuseSign
  <2> QED
    BY <2>1, <2>2, <2>3, KeepsBound
<1>5. ASSUME NEW m \in msgs, HandleSign(m) PROVE BindInv'
  <2> DEFINE g == m.to
             en == [Queued(g) EXCEPT !.sign = IF Better(g, m.tx, @) THEN m.tx ELSE @]
  <2>1. m \in SignMsg
    BY <1>5 DEF HandleSign, TypeOK, CommitmentMsg
  <2>2. g \in Guard /\ Queued(g) \in Entry /\ EntryBound(g, Queued(g)) /\ MessageBound(m)
    BY <2>1, QueuedType, QueuedBound DEF SignMsg, BindInv
  <2>3. Queued(g).secret # 0 /\ Agrees(g, Queued(g), m)
    BY <1>5 DEF HandleSign, Verified
  <2>4. EntryBound(g, en) /\ en \in Entry
    <3>1. CASE Better(g, m.tx, Queued(g).sign)
      <4>1. en = [Queued(g) EXCEPT !.sign = m.tx]
        BY <2>2, <3>1 DEF Entry
      <4>2. en \in Entry
        BY <2>1, <2>2, <4>1 DEF Entry, SignMsg
      <4> QED
        BY <2>1, <2>2, <2>3, <4>1, <4>2, StoredBound
    <3>2. CASE ~Better(g, m.tx, Queued(g).sign)
      <4>1. en = Queued(g)
        BY <2>2, <3>2 DEF Entry
      <4> QED
        BY <2>2, <4>1
    <3> QED
      BY <3>1, <3>2
  <2>5. PICK failed \in BOOLEAN, x \in {en.sign} \cup GeneratedSigns(g, en) :
          /\ msgs' = (msgs \ {m}) \cup Announced(g, en, x)
          /\ ProcessResolve(g, [en EXCEPT !.sign = x], failed)
    BY <1>5 DEF HandleSign
  <2> HIDE DEF en, g
  <2> DEFINE new == [en EXCEPT !.sign = x]
  <2>6. EntryBound(g, new) /\ \A n \in Announced(g, en, x) : MessageBound(n)
    BY <2>2, <2>4, GeneratedBound
  <2>7. entry' = [entry EXCEPT ![g] = new] \/ entry' = [entry EXCEPT ![g] = NoEntry]
    BY <2>5 DEF ProcessResolve
  <2>8. \A n \in msgs' : n \in msgs \/ MessageBound(n)
    BY <2>5, <2>6
  <2> HIDE DEF new
  <2> QED
    BY <2>2, <2>6, <2>7, <2>8, KeepsBound
<1>6. ASSUME NEW g \in Guard, Cleanup(g) \/ Crash(g) PROVE BindInv'
  <2>1. entry' = [entry EXCEPT ![g] = NoEntry] /\ msgs' = msgs
    BY <1>6 DEF Cleanup, Crash
  <2> QED
    BY <2>1, QueuedBound, KeepsBound
<1>7. CASE UNCHANGED vars
  BY <1>7 DEF vars, BindInv, EntryBound, MessageBound, WellSigned, Honest
<1> QED
  BY <1>1, <1>2, <1>3, <1>4, <1>5, <1>6, <1>7 DEF Next

LEMMA BindAgrees == TypeOK /\ BindInv => SignersAgree
<1> SUFFICES ASSUME TypeOK, BindInv, NEW x \in Transcripts, Honest(x) PROVE x.sound
  BY DEF SignersAgree, Honest
<1>1. CASE \E m \in msgs : m.type = "sign" /\ x = m.tx
  BY <1>1 DEF BindInv, MessageBound, WellSigned
<1>2. CASE \E g \in Guard : entry[g] # NoEntry /\ x = entry[g].sign /\ x # NoSign
  BY <1>2 DEF BindInv, EntryBound, WellSigned
<1> QED
  BY <1>1, <1>2 DEF Transcripts

(***************************************************************************)
(* What the signers of a transaction have signed is sound, whatever was    *)
(* forgotten, made again, lost or late: processResolve rejects nothing     *)
(* that only signers signed.                                               *)
(***************************************************************************)
THEOREM SignersSoundly == Spec => []SignersAgree
<1>1. Init => BindInv
  BY BindInit
<1>2. BindInv /\ TypeOK /\ [Next]_vars => BindInv'
  BY BindStep
<1>3. TypeOK /\ BindInv => SignersAgree
  BY BindAgrees
<1> QED
  BY <1>1, <1>2, <1>3, TypeCorrect, PTL DEF Spec

-----------------------------------------------------------------------------
(* Who signs.  A guard makes a secret only when it is asked to sign, and   *)
(* whatever names it as a signer goes back to one of its secrets.  The     *)
(* facts are about any set R that has those who were asked.                *)

SignBy(R, x) == x.signed \cup Signers(x) \subseteq R

EntryBy(R, g, en) ==
  /\ en.secret # 0 => g \in R
  /\ Committed(en) \subseteq R
  /\ en.sign # NoSign => SignBy(R, en.sign)

MessageBy(R, m) ==
  /\ m.type = "commitment" => m.from \in R
  /\ m.type = "sign" => SignBy(R, m.tx)

RequestInv ==
  /\ \A g \in Guard : entry[g] # NoEntry => EntryBy(Requested, g, entry[g])
  /\ \A m \in msgs : MessageBy(Requested, m)
  /\ (\E g \in Guard : outcome[g] = "signed") => Cardinality(Requested) >= RequiredSigner

LEMMA ByMore ==
  ASSUME NEW R, NEW S, R \subseteq S
  PROVE  /\ \A g, en : EntryBy(R, g, en) => EntryBy(S, g, en)
         /\ \A m : MessageBy(R, m) => MessageBy(S, m)
<1>1. \A x : SignBy(R, x) => SignBy(S, x)
  BY DEF SignBy
<1> QED
  BY <1>1 DEF EntryBy, MessageBy

\* The first signature names those whose commitments there are, the next one
\* adds who makes it.
LEMMA GeneratedBy ==
  ASSUME NEW R, NEW g \in Guard, NEW en \in Entry, EntryBy(R, g, en),
         NEW x \in {en.sign} \cup GeneratedSigns(g, en), x # NoSign
  PROVE  SignBy(R, x)
<1>1. CASE x = en.sign
  BY <1>1 DEF EntryBy
<1>2. CASE x # en.sign /\ en.sign = NoSign
  <2>1. en.secret # 0 /\ x \in FirstSigns(g, en)
    BY <1>2 DEF GeneratedSigns
  <2>2. /\ x.signed = {g} /\ g \in R
        /\ \A h \in Signers(x) \ {g} : x.bound[h] = en.commitments[h]
    BY <2>1, FirstSignsType, FirstSignsBound DEF EntryBy
  <2>3. Signers(x) \ {g} \subseteq Committed(en)
    BY <2>2 DEF Signers, Committed
  <2> QED
    BY <2>2, <2>3 DEF SignBy, EntryBy
<1>3. CASE x # en.sign /\ en.sign # NoSign
  <2>1. en.secret # 0 /\ x \in NextSigns(g, en)
    BY <1>3 DEF GeneratedSigns
  <2>2. x.bound = en.sign.bound /\ x.signed = en.sign.signed \cup {g}
    BY <1>3, <2>1, NextSignsType
  <2>3. g \in R /\ SignBy(R, en.sign)
    BY <1>3, <2>1 DEF EntryBy
  <2>4. Signers(x) = Signers(en.sign)
    BY <2>2 DEF Signers
  <2> QED
    BY <2>2, <2>3, <2>4 DEF SignBy
<1> QED
  BY <1>1, <1>2, <1>3

LEMMA RequestedFinite ==
  /\ IsFiniteSet(Requested) /\ Cardinality(Requested) \in Nat
  /\ IsFiniteSet(Requested') /\ Cardinality(Requested') \in Nat
<1>1. Requested \subseteq Guard /\ Requested' \subseteq Guard
  BY DEF Requested
<1> QED
  BY <1>1, FS_Subset, FS_CardinalityType

LEMMA QueuedBy ==
  ASSUME RequestInv, NEW g \in Guard
  PROVE  EntryBy(Requested, g, Queued(g))
  BY DEF RequestInv, Queued, NewEntry, EntryBy, Committed

\* One guard's entry changes, and what is sent names nobody else.
LEMMA KeepsRequest ==
  ASSUME TypeOK, RequestInv, NEW g \in Guard, NEW en, Requested \subseteq Requested',
         EntryBy(Requested', g, en),
         entry' = [entry EXCEPT ![g] = en] \/ entry' = [entry EXCEPT ![g] = NoEntry],
         \A m \in msgs' : m \in msgs \/ MessageBy(Requested', m),
         \A h \in Guard : outcome'[h] = "signed" =>
           outcome[h] = "signed" \/ Cardinality(Requested') >= RequiredSigner
  PROVE  RequestInv'
<1>1. \A h \in Guard : entry'[h] # NoEntry => EntryBy(Requested', h, entry'[h])
  <2>1. \A h \in Guard : entry[h] # NoEntry => EntryBy(Requested', h, entry[h])
    BY ByMore DEF RequestInv
  <2> QED
    BY <2>1 DEF TypeOK
<1>2. \A m \in msgs' : MessageBy(Requested', m)
  BY ByMore DEF RequestInv
<1>3. (\E h \in Guard : outcome'[h] = "signed") => Cardinality(Requested') >= RequiredSigner
  <2>1. Cardinality(Requested) <= Cardinality(Requested')
    BY RequestedFinite, FS_Subset
  <2>2. (\E h \in Guard : outcome[h] = "signed") => Cardinality(Requested) >= RequiredSigner
    BY DEF RequestInv
  <2>3. (\E h \in Guard : outcome[h] = "signed") => Cardinality(Requested') >= RequiredSigner
    BY <2>1, <2>2, RequestedFinite
  <2> QED
    BY <2>3
<1> QED
  BY <1>1, <1>2, <1>3 DEF RequestInv

\* generateSign and processResolve, for the delayed sign and for a received one
LEMMA GenerateKeepsRequest ==
  ASSUME TypeOK, RequestInv, NEW g \in Guard, NEW en \in Entry, EntryBy(Requested, g, en),
         NEW before \in SUBSET msgs, NEW failed \in BOOLEAN,
         NEW x \in {en.sign} \cup GeneratedSigns(g, en),
         msgs' = before \cup Announced(g, en, x),
         ProcessResolve(g, [en EXCEPT !.sign = x], failed), secrets' = secrets
  PROVE  RequestInv'
<1> DEFINE new == [en EXCEPT !.sign = x]
<1>1. new.sign = x /\ new.secret = en.secret /\ new.commitments = en.commitments
  BY DEF Entry
<1>2. Requested' = Requested
  BY DEF Requested
<1>3. x # NoSign => SignBy(Requested, x)
  BY GeneratedBy
<1>4. \A m \in Announced(g, en, x) : m.type = "sign" /\ m.tx = x
  BY DEF Announced
<1>5. Announced(g, en, x) # {} => x # NoSign
  <2>1. x = NoSign => x = en.sign
    BY FirstSignsType, NextSignsType DEF GeneratedSigns
  <2> QED
    BY <2>1 DEF Announced
<1>6. \A m \in msgs' : m \in msgs \/ MessageBy(Requested', m)
  BY <1>2, <1>3, <1>4, <1>5 DEF MessageBy
<1>7. /\ entry' = [entry EXCEPT ![g] = new] \/ entry' = [entry EXCEPT ![g] = NoEntry]
      /\ Complete(x) \/ outcome' = outcome
  BY <1>1 DEF ProcessResolve
<1> HIDE DEF new
<1>8. EntryBy(Requested', g, new)
  BY <1>1, <1>2, <1>3 DEF EntryBy, Committed
<1>9. Complete(x) => Cardinality(Requested') >= RequiredSigner
  <2> SUFFICES ASSUME Complete(x) PROVE Cardinality(Requested) >= RequiredSigner
    BY <1>2
  <2>1. x.signed \subseteq Requested /\ Cardinality(x.signed) >= RequiredSigner
    BY <1>3 DEF Complete, SignBy
  <2>2. IsFiniteSet(x.signed) /\ Cardinality(x.signed) <= Cardinality(Requested)
    BY <2>1, RequestedFinite, FS_Subset
  <2> QED
    BY <2>1, <2>2, RequestedFinite, FS_CardinalityType
<1>10. Requested \subseteq Requested'
  BY <1>2
<1>11. \A h \in Guard : outcome'[h] = "signed" =>
         outcome[h] = "signed" \/ Cardinality(Requested') >= RequiredSigner
  BY <1>7, <1>9
<1> QED
  BY <1>6, <1>7, <1>8, <1>10, <1>11, KeepsRequest

LEMMA RequestInit == Init => RequestInv
  BY DEF Init, RequestInv

LEMMA RequestStep == TypeOK /\ RequestInv /\ [Next]_vars => RequestInv'
<1> SUFFICES ASSUME TypeOK, RequestInv, [Next]_vars PROVE RequestInv'
  OBVIOUS
<1>1. ASSUME NEW g \in Guard, Sign(g) PROVE RequestInv'
  <2> DEFINE en == [Queued(g) EXCEPT !.secret = secrets[g] + 1]
  <2>1. EntryBy(Requested, g, Queued(g)) /\ Queued(g) \in Entry
    BY QueuedBy, QueuedType
  <2>2. Requested \subseteq Requested' /\ g \in Requested'
    BY <1>1 DEF Sign, Requested, TypeOK
  <2>3. en.sign = Queued(g).sign /\ en.commitments = Queued(g).commitments
    BY <2>1 DEF Entry
  <2>4. EntryBy(Requested', g, Queued(g))
    BY <2>1, <2>2, ByMore
  <2>5. entry' = [entry EXCEPT ![g] = en]
    BY <1>1 DEF Sign
  <2>6. \A m \in msgs' : m \in msgs \/ (m.type = "commitment" /\ m.from = g)
    BY <1>1 DEF Sign
  <2>7. \A h \in Guard : outcome'[h] = "signed" => outcome[h] = "signed"
    BY <1>1 DEF Sign, TypeOK
  <2> HIDE DEF en
  <2>8. EntryBy(Requested', g, en)
    BY <2>2, <2>3, <2>4 DEF EntryBy, Committed
  <2>9. \A m \in msgs' : m \in msgs \/ MessageBy(Requested', m)
    BY <2>2, <2>6 DEF MessageBy
  <2> QED
    BY <2>2, <2>5, <2>7, <2>8, <2>9, KeepsRequest
<1>2. ASSUME NEW g \in Guard, DelayedGenerateSign(g) PROVE RequestInv'
  <2>1. PICK failed \in BOOLEAN, x \in {Queued(g).sign} \cup GeneratedSigns(g, Queued(g)) :
          /\ msgs' = msgs \cup Announced(g, Queued(g), x)
          /\ ProcessResolve(g, [Queued(g) EXCEPT !.sign = x], failed)
    BY <1>2 DEF DelayedGenerateSign
  <2>2. secrets' = secrets
    BY <1>2 DEF DelayedGenerateSign
  <2>3. Queued(g) \in Entry /\ EntryBy(Requested, g, Queued(g))
    BY QueuedType, QueuedBy
  <2> QED
    BY <2>1, <2>2, <2>3, GenerateKeepsRequest
<1>3. ASSUME NEW m \in msgs, HandleCommitment(m) PROVE RequestInv'
  <2> DEFINE g == m.to
             en == IF Queued(g).sign # NoSign THEN Queued(g)
                   ELSE [Queued(g) EXCEPT !.commitments[m.from] = m.commitment]
  <2>1. g \in Guard /\ m.type = "commitment" /\ m.from \in Requested
    BY <1>3 DEF TypeOK, CommitmentMsg, SignMsg, HandleCommitment, RequestInv, MessageBy
  <2>2. EntryBy(Requested, g, Queued(g)) /\ Queued(g) \in Entry
    BY <2>1, QueuedBy, QueuedType
  <2>3. entry' = [entry EXCEPT ![g] = en] /\ msgs' \subseteq msgs
        /\ secrets' = secrets /\ outcome' = outcome
    BY <1>3 DEF HandleCommitment
  <2>4. /\ en.secret = Queued(g).secret /\ en.sign = Queued(g).sign
        /\ Committed(en) \subseteq Committed(Queued(g)) \cup {m.from}
    BY <2>2 DEF Entry, Commitments, Committed
  <2> HIDE DEF en
  <2>5. EntryBy(Requested, g, en)
    BY <2>1, <2>2, <2>4 DEF EntryBy
  <2>6. Requested' = Requested
    BY <2>3 DEF Requested
  <2> HIDE DEF g
  <2> QED
    BY <2>1, <2>3, <2>5, <2>6, KeepsRequest
<1>4. ASSUME NEW m \in msgs, RefuseSign(m) PROVE RequestInv'
  <2>1. m.to \in Guard
    BY DEF TypeOK, CommitmentMsg, SignMsg
  <2>2. EntryBy(Requested, m.to, Queued(m.to))
    BY <2>1, QueuedBy
  <2>3. entry' = [entry EXCEPT ![m.to] = Queued(m.to)] /\ msgs' \subseteq msgs
        /\ secrets' = secrets /\ outcome' = outcome
    BY <1>4 DEF RefuseSign
  <2>4. Requested' = Requested
    BY <2>3 DEF Requested
  <2> QED
    BY <2>1, <2>2, <2>3, <2>4, KeepsRequest
<1>5. ASSUME NEW m \in msgs, HandleSign(m) PROVE RequestInv'
  <2> DEFINE g == m.to
             en == [Queued(g) EXCEPT !.sign = IF Better(g, m.tx, @) THEN m.tx ELSE @]
  <2>1. m \in SignMsg /\ secrets' = secrets
    BY <1>5 DEF HandleSign, TypeOK, CommitmentMsg
  <2>2. g \in Guard /\ SignBy(Requested, m.tx)
    BY <2>1 DEF SignMsg, RequestInv, MessageBy
  <2>3. Queued(g) \in Entry /\ EntryBy(Requested, g, Queued(g))
    BY <2>2, QueuedType, QueuedBy
  <2>4. /\ en \in Entry /\ en.secret = Queued(g).secret
        /\ en.commitments = Queued(g).commitments
        /\ en.sign = m.tx \/ en.sign = Queued(g).sign
    BY <2>1, <2>3 DEF Entry, SignMsg
  <2>5. PICK failed \in BOOLEAN, x \in {en.sign} \cup GeneratedSigns(g, en) :
          /\ msgs' = (msgs \ {m}) \cup Announced(g, en, x)
          /\ ProcessResolve(g, [en EXCEPT !.sign = x], failed)
    BY <1>5 DEF HandleSign
  <2> HIDE DEF en
  <2>6. EntryBy(Requested, g, en)
    BY <2>2, <2>3, <2>4 DEF EntryBy, Committed
  <2>7. msgs \ {m} \in SUBSET msgs
    OBVIOUS
  <2> HIDE DEF g
  <2> QED
    BY <2>1, <2>2, <2>4, <2>5, <2>6, <2>7, GenerateKeepsRequest
<1>6. ASSUME NEW g \in Guard, Cleanup(g) \/ Crash(g) PROVE RequestInv'
  <2>1. /\ entry' = [entry EXCEPT ![g] = NoEntry] /\ msgs' = msgs /\ secrets' = secrets
    BY <1>6 DEF Cleanup, Crash
  <2>2. \A h \in Guard : outcome'[h] = "signed" => outcome[h] = "signed"
    BY <1>6 DEF Cleanup, Crash, TypeOK
  <2>3. Requested' = Requested
    BY <2>1 DEF Requested
  <2>4. EntryBy(Requested', g, Queued(g))
    BY <2>3, QueuedBy
  <2> QED
    BY <2>1, <2>2, <2>3, <2>4, KeepsRequest
<1>7. CASE UNCHANGED vars
  BY <1>7 DEF vars, RequestInv, Requested
<1> QED
  BY <1>1, <1>2, <1>3, <1>4, <1>5, <1>6, <1>7 DEF Next

LEMMA RequestedSign == RequestInv => SignedOnlyByRequested
<1> SUFFICES ASSUME RequestInv, NEW x \in Transcripts PROVE SignBy(Requested, x)
  BY DEF SignedOnlyByRequested, SignBy, RequestInv
<1>1. CASE \E m \in msgs : m.type = "sign" /\ x = m.tx
  BY <1>1 DEF RequestInv, MessageBy
<1>2. CASE \E g \in Guard : entry[g] # NoEntry /\ x = entry[g].sign /\ x # NoSign
  BY <1>2 DEF RequestInv, EntryBy
<1> QED
  BY <1>1, <1>2 DEF Transcripts

(***************************************************************************)
(* Whatever commitments and signatures the others send, whatever is lost   *)
(* and whoever crashes, who signs or counts as a signer was asked to sign  *)
(* by its own TransactionProcessor, and what is signed was handed to the   *)
(* signers of requiredSigner guards.                                       *)
(***************************************************************************)
THEOREM SignersWereAsked == Spec => []SignedOnlyByRequested
<1>1. Spec => []RequestInv
  BY TypeCorrect, RequestInit, RequestStep, PTL DEF Spec
<1> QED
  BY <1>1, RequestedSign, PTL

-----------------------------------------------------------------------------
(* Where an unfinished transaction may be.                                 *)

Goes(x, g) == Honest(x) /\ (Complete(x) \/ g \in Signers(x))

EntryOut(g, en) == en.sign # NoSign => Goes(en.sign, g)

MessageOut(m) == m.type = "sign" => Goes(m.tx, m.to)

OutInv ==
  "chainFailed" \notin disturbed =>
    /\ \A g \in Guard : entry[g] # NoEntry =>
         EntryOut(g, entry[g]) /\ ~Complete(entry[g].sign)
    /\ \A m \in msgs : MessageOut(m)

\* With all peer ids known, generateSign sends what it signs where it belongs.
LEMMA GeneratedOut ==
  ASSUME AllRegistered, NEW g \in Guard, NEW en \in Entry, EntryOut(g, en),
         ~Complete(en.sign), NEW x \in GeneratedSigns(g, en)
  PROVE  /\ EntryOut(g, [en EXCEPT !.sign = x])
         /\ \A m \in Announced(g, en, x) : MessageOut(m)
<1>1. x # NoSign => Goes(x, g)
  <2>1. CASE x = en.sign
    BY <2>1 DEF EntryOut
  <2>2. CASE x # en.sign /\ en.sign = NoSign
    <3>1. en.secret # 0 /\ x \in FirstSigns(g, en)
      BY <2>2 DEF GeneratedSigns
    <3>2. g \in Signers(x) /\ x.signed = {g}
      BY <3>1, FirstSignsBound, FirstSignsType
    <3> QED
      BY <3>2 DEF Goes, Honest
  <2>3. CASE x # en.sign /\ en.sign # NoSign
    <3>1. g \in Signers(en.sign) /\ Honest(en.sign)
      BY <2>3 DEF EntryOut, Goes
    <3>2. x \in NextSigns(g, en)
      BY <2>3 DEF GeneratedSigns
    <3>3. x.bound = en.sign.bound /\ x.signed = en.sign.signed \cup {g}
      BY <2>3, <3>2, NextSignsType
    <3> QED
      BY <3>1, <3>3 DEF Goes, Honest, Signers
  <2> QED
    BY <2>1, <2>2, <2>3
<1>2. [en EXCEPT !.sign = x].sign = x
  BY DEF Entry
<1>3. EntryOut(g, [en EXCEPT !.sign = x])
  BY <1>1, <1>2 DEF EntryOut
<1>4. ASSUME NEW m \in Announced(g, en, x) PROVE MessageOut(m)
  <2>1. m.tx = x /\ x # en.sign /\ (Complete(x) \/ m.to \in Signers(x))
    BY <1>4 DEF Announced
  <2>2. Honest(x)
    <3>1. CASE x # NoSign
      BY <1>1, <3>1 DEF Goes
    <3>2. CASE x = NoSign
      <4>1. x \in NextSigns(g, en) /\ en.sign # NoSign
        BY <2>1, <3>2 DEF GeneratedSigns
      <4>2. x.bound = en.sign.bound /\ x.signed = en.sign.signed \cup {g}
        BY <2>1, <4>1, NextSignsType
      <4>3. g \in Signers(en.sign) /\ Honest(en.sign)
        BY <4>1 DEF EntryOut, Goes
      <4> QED
        BY <4>2, <4>3 DEF Honest, Signers
    <3> QED
      BY <3>1, <3>2
  <2> QED
    BY <2>1, <2>2 DEF MessageOut, Goes
<1> QED
  BY <1>3, <1>4

\* processResolve removes what is complete, unless the chain fails.
LEMMA ResolveOut ==
  ASSUME TypeOK, OutInv, NEW g \in Guard, NEW en, EntryBound(g, en), EntryOut(g, en),
         ProcessResolve(g, en, FALSE), "chainFailed" \notin disturbed,
         \A m \in msgs' : m \in msgs \/ MessageOut(m)
  PROVE  OutInv'
<1>1. \/ entry' = [entry EXCEPT ![g] = NoEntry]
      \/ entry' = [entry EXCEPT ![g] = en] /\ ~Complete(en.sign)
  BY DEF ProcessResolve, EntryBound, Complete
<1>2. \A h \in Guard : entry'[h] # NoEntry =>
        EntryOut(h, entry'[h]) /\ ~Complete(entry'[h].sign)
  BY <1>1 DEF OutInv, TypeOK
<1>3. \A m \in msgs' : MessageOut(m)
  BY DEF OutInv
<1> QED
  BY <1>2, <1>3 DEF OutInv, EntryOut, MessageOut, Goes, Honest, Complete

\* One guard's entry changes to one whose transaction is not complete.
LEMMA KeepsOut ==
  ASSUME TypeOK, OutInv, NEW g \in Guard, NEW en, EntryOut(g, en), ~Complete(en.sign),
         entry' = [entry EXCEPT ![g] = en] \/ entry' = [entry EXCEPT ![g] = NoEntry],
         "chainFailed" \notin disturbed,
         \A m \in msgs' : m \in msgs \/ MessageOut(m)
  PROVE  OutInv'
<1>1. \A h \in Guard : entry'[h] # NoEntry =>
        EntryOut(h, entry'[h]) /\ ~Complete(entry'[h].sign)
  BY DEF OutInv, TypeOK
<1>2. \A m \in msgs' : MessageOut(m)
  BY DEF OutInv
<1> QED
  BY <1>1, <1>2 DEF OutInv, EntryOut, MessageOut, Goes, Honest, Complete

LEMMA QueuedOut ==
  ASSUME OutInv, "chainFailed" \notin disturbed, NEW g \in Guard
  PROVE  EntryOut(g, Queued(g)) /\ ~Complete(Queued(g).sign)
  BY DEF OutInv, Queued, NewEntry, EntryOut, Complete

LEMMA OutStep == AllRegistered /\ TypeOK /\ BindInv /\ OutInv /\ [Next]_vars => OutInv'
<1> SUFFICES ASSUME AllRegistered, TypeOK, BindInv, OutInv, [Next]_vars,
                    "chainFailed" \notin disturbed'
             PROVE  OutInv'
  BY DEF OutInv
<1>1. "chainFailed" \notin disturbed
  BY DEF Next, vars, Sign, DelayedGenerateSign, HandleCommitment, RefuseSign, HandleSign,
         Cleanup, Crash, ChainFails
<1>2. \A g : ~ChainFails(g)
  BY DEF ChainFails
<1>3. ASSUME NEW g \in Guard, Sign(g) PROVE OutInv'
  <2> DEFINE en == [Queued(g) EXCEPT !.secret = secrets[g] + 1]
  <2>1. en.sign = Queued(g).sign
    BY QueuedType DEF Entry
  <2>2. EntryOut(g, en) /\ ~Complete(en.sign)
    BY <1>1, <2>1, QueuedOut DEF EntryOut
  <2>3. entry' = [entry EXCEPT ![g] = en]
    BY <1>3 DEF Sign
  <2>4. \A m \in msgs' : m \in msgs \/ MessageOut(m)
    BY <1>3 DEF Sign, MessageOut
  <2> HIDE DEF en
  <2> QED
    BY <1>1, <2>2, <2>3, <2>4, KeepsOut
<1>4. ASSUME NEW g \in Guard, DelayedGenerateSign(g) PROVE OutInv'
  <2>1. PICK x \in GeneratedSigns(g, Queued(g)) :
          /\ msgs' = msgs \cup Announced(g, Queued(g), x)
          /\ ProcessResolve(g, [Queued(g) EXCEPT !.sign = x], FALSE)
    BY <1>2, <1>4 DEF DelayedGenerateSign
  <2> DEFINE en == [Queued(g) EXCEPT !.sign = x]
  <2>2. Queued(g) \in Entry /\ EntryBound(g, Queued(g))
    BY QueuedType, QueuedBound
  <2>3. EntryOut(g, Queued(g)) /\ ~Complete(Queued(g).sign)
    BY <1>1, QueuedOut
  <2>4. EntryBound(g, en)
    BY <2>2, GeneratedBound
  <2>5. EntryOut(g, en) /\ \A m \in Announced(g, Queued(g), x) : MessageOut(m)
    BY <2>2, <2>3, GeneratedOut
  <2>6. \A m \in msgs' : m \in msgs \/ MessageOut(m)
    BY <2>1, <2>5
  <2>7. ProcessResolve(g, en, FALSE)
    BY <2>1
  <2> HIDE DEF en
  <2> QED
    BY <1>1, <2>4, <2>5, <2>6, <2>7, ResolveOut
<1>5. ASSUME NEW m \in msgs, HandleCommitment(m) PROVE OutInv'
  <2> DEFINE g == m.to
             en == IF Queued(g).sign # NoSign THEN Queued(g)
                   ELSE [Queued(g) EXCEPT !.commitments[m.from] = m.commitment]
  <2>1. g \in Guard
    BY DEF TypeOK, CommitmentMsg, SignMsg
  <2>2. en.sign = Queued(g).sign
    BY <2>1, QueuedType DEF Entry
  <2>3. EntryOut(g, en) /\ ~Complete(en.sign)
    BY <1>1, <2>1, <2>2, QueuedOut DEF EntryOut
  <2>4. entry' = [entry EXCEPT ![g] = en] /\ msgs' \subseteq msgs
    BY <1>5 DEF HandleCommitment
  <2> HIDE DEF en
  <2> QED
    BY <1>1, <2>1, <2>3, <2>4, KeepsOut
<1>6. ASSUME NEW m \in msgs, RefuseSign(m) PROVE OutInv'
  <2>1. m.to \in Guard
    BY DEF TypeOK, CommitmentMsg, SignMsg
  <2>2. EntryOut(m.to, Queued(m.to)) /\ ~Complete(Queued(m.to).sign)
    BY <1>1, <2>1, QueuedOut
  <2>3. entry' = [entry EXCEPT ![m.to] = Queued(m.to)] /\ msgs' \subseteq msgs
    BY <1>6 DEF RefuseSign
  <2> QED
    BY <1>1, <2>1, <2>2, <2>3, KeepsOut
<1>7. ASSUME NEW m \in msgs, HandleSign(m) PROVE OutInv'
  <2> DEFINE g == m.to
             en == [Queued(g) EXCEPT !.sign = IF Better(g, m.tx, @) THEN m.tx ELSE @]
             mine == g \in Signers(en.sign) \ en.sign.signed /\ ~Complete(en.sign)
  <2>1. m \in SignMsg
    BY <1>7 DEF HandleSign, TypeOK, CommitmentMsg
  <2>2. g \in Guard /\ Queued(g) \in Entry /\ EntryBound(g, Queued(g)) /\ MessageBound(m)
    BY <2>1, QueuedType, QueuedBound DEF SignMsg, BindInv
  <2>3. Queued(g).secret # 0 /\ Agrees(g, Queued(g), m)
    BY <1>7 DEF HandleSign, Verified
  <2>4. EntryOut(g, Queued(g)) /\ Goes(m.tx, g)
    BY <1>1, <1>7, <2>2, QueuedOut DEF OutInv, MessageOut, HandleSign
  <2>5. EntryBound(g, en) /\ en \in Entry /\ EntryOut(g, en)
    <3>1. CASE Better(g, m.tx, Queued(g).sign)
      <4>1. en = [Queued(g) EXCEPT !.sign = m.tx]
        BY <2>2, <3>1 DEF Entry
      <4>2. en \in Entry /\ en.sign = m.tx
        BY <2>1, <2>2, <4>1 DEF Entry, SignMsg
      <4>3. EntryOut(g, en)
        BY <2>4, <4>2 DEF EntryOut
      <4> QED
        BY <2>1, <2>2, <2>3, <4>1, <4>2, <4>3, StoredBound
    <3>2. CASE ~Better(g, m.tx, Queued(g).sign)
      <4>1. en = Queued(g)
        BY <2>2, <3>2 DEF Entry
      <4> QED
        BY <2>2, <2>4, <4>1
    <3> QED
      BY <3>1, <3>2
  <2>6. PICK x \in IF mine THEN GeneratedSigns(g, en) ELSE {en.sign} :
          /\ msgs' = (msgs \ {m}) \cup Announced(g, en, x)
          /\ ProcessResolve(g, [en EXCEPT !.sign = x], FALSE)
    BY <1>2, <1>7 DEF HandleSign
  <2> DEFINE new == [en EXCEPT !.sign = x]
  <2>7. EntryBound(g, new)
    <3> HIDE DEF en, g
    <3> QED
      BY <2>2, <2>5, <2>6, GeneratedBound
  <2>8. EntryOut(g, new) /\ \A n \in Announced(g, en, x) : MessageOut(n)
    <3>1. CASE x = en.sign
      <4> HIDE DEF en, g
      <4>1. new = en
        BY <2>5, <3>1 DEF Entry
      <4>2. Announced(g, en, x) = {}
        BY <3>1 DEF Announced
      <4> QED
        BY <2>5, <4>1, <4>2
    <3>2. CASE x # en.sign
      <4>1. ~Complete(en.sign) /\ x \in GeneratedSigns(g, en)
        BY <2>6, <3>2
      <4> HIDE DEF en, g
      <4> QED
        BY <2>2, <2>5, <4>1, GeneratedOut
    <3> QED
      BY <3>1, <3>2
  <2>9. \A n \in msgs' : n \in msgs \/ MessageOut(n)
    BY <2>6, <2>8
  <2>10. ProcessResolve(g, new, FALSE)
    BY <2>6
  <2> HIDE DEF new, en, g
  <2> QED
    BY <1>1, <2>2, <2>7, <2>8, <2>9, <2>10, ResolveOut
<1>8. ASSUME NEW g \in Guard, Cleanup(g) \/ Crash(g) PROVE OutInv'
  <2>1. entry' = [entry EXCEPT ![g] = NoEntry] /\ msgs' = msgs
    BY <1>8 DEF Cleanup, Crash
  <2> QED
    BY <1>1, <2>1, QueuedOut, KeepsOut
<1>9. CASE UNCHANGED vars
  BY <1>9 DEF vars, OutInv, EntryOut, MessageOut, Goes, Honest, Complete
<1> QED
  BY <1>3, <1>4, <1>5, <1>6, <1>7, <1>8, <1>9 DEF Next

LEMMA OutHonest == OutInv => SimulatedStayOut
<1> SUFFICES ASSUME OutInv, "chainFailed" \notin disturbed, NEW x \in Transcripts
             PROVE  Honest(x)
  BY DEF SimulatedStayOut, Honest
<1>1. CASE \E m \in msgs : m.type = "sign" /\ x = m.tx
  BY <1>1 DEF OutInv, MessageOut, Goes
<1>2. CASE \E g \in Guard : entry[g] # NoEntry /\ x = entry[g].sign /\ x # NoSign
  BY <1>2 DEF OutInv, EntryOut, Goes
<1> QED
  BY <1>1, <1>2 DEF Transcripts

(***************************************************************************)
(* If all guards know each other's peer ids and the chain answers, nobody  *)
(* ever signs a transaction in which its part is simulated.                *)
(***************************************************************************)
THEOREM SimulatedNeverSign == AllRegistered /\ Spec => []SimulatedStayOut
<1>1. Init => OutInv
  BY DEF Init, OutInv
<1>2. AllRegistered /\ TypeOK /\ BindInv /\ OutInv /\ [Next]_vars => OutInv'
  BY OutStep
<1>3. AllRegistered /\ Spec => []AllRegistered
  <2> SUFFICES ASSUME AllRegistered PROVE Spec => []AllRegistered
    OBVIOUS
  <2> QED
    BY PTL
<1> QED
  BY <1>1, <1>2, <1>3, OutHonest, BindInit, BindStep, TypeCorrect, PTL DEF Spec

-----------------------------------------------------------------------------
(* The exchange ends.  As long as nothing was disturbed and nobody has the   *)
(* signed transaction, every guard was asked once at most and keeps its one  *)
(* secret, and a transaction reaches those of its signers that have not      *)
(* signed, who keep it or one at least as good.  A guard waits with one only *)
(* for signers whose commitments came after its first transaction: for       *)
(* guards that were asked later than itself.  So nobody waits in a circle.   *)

Undecided == disturbed = {} /\ \A g \in Guard : outcome[g] # "signed"
Asked(g) == outcome[g] = "asked"
Held(g) == Queued(g).sign

AskedOnce ==
  \A g \in Guard :
    /\ outcome[g] \in {"none", "asked"}
    /\ Asked(g) => Queued(g).secret = 1
    /\ ~Asked(g) => secrets[g] = 0 /\ Queued(g).secret = 0

CommitmentTo(g, h) == [type |-> "commitment", to |-> h, from |-> g, commitment |-> 1]

\* Nobody misses a commitment but who has a transaction already.
CommitmentsKnown ==
  /\ \A g \in Guard : \A h \in Committed(Queued(g)) :
       Asked(h) /\ h # g /\ Queued(g).commitments[h] = 1
  /\ \A m \in msgs : m.type = "commitment" => Asked(m.from) /\ m.from # m.to /\ m.commitment = 1
  /\ \A m \in msgs : m.type = "sign" => \A h \in Guard : m.commitments[h] \in {0, 1}
  /\ \A g, h \in Guard : Asked(g) /\ g # h =>
       Queued(h).commitments[g] # 0 \/ Held(h) # NoSign \/ CommitmentTo(g, h) \in msgs

Partly(x) ==
  /\ x.signed # {} /\ x.signed \subseteq Signers(x)
  /\ Cardinality(Signers(x)) = RequiredSigner /\ ~Complete(x)
  /\ \A h \in Signers(x) : Asked(h) /\ x.bound[h] = 1

SignsOut ==
  /\ \A x \in Transcripts : Partly(x)
  /\ \A g \in Guard : Held(g) # NoSign => g \in Signers(Held(g))
  /\ \A m \in msgs : m.type = "sign" => m.to \in Signers(m.tx)

\* how many others signed what a guard holds
Others(g, x) == Cardinality(x.signed \ {g})

Reached(x, h) ==
  \/ \E m \in msgs : m.type = "sign" /\ m.to = h /\ m.tx = x
  \/ Held(h) # NoSign /\ Others(h, Held(h)) >= Cardinality(x.signed)

AllReached == \A x \in Transcripts : \A h \in Signers(x) \ x.signed : Reached(x, h)

\* who has not signed what it holds cannot
Waiting ==
  \A g \in Guard : Held(g) # NoSign /\ g \notin Held(g).signed =>
    Cardinality(Known(g, Held(g), Queued(g))) < RequiredSigner

ExchangeOut == AskedOnce /\ CommitmentsKnown /\ SignsOut /\ AllReached /\ Waiting

AskedSet == {g \in Guard : Asked(g)}

\* Whom a guard misses was asked after it.
MissesLater(rank, h) ==
  \A w \in Guard \ {h} : Asked(w) => Queued(h).commitments[w] # 0 \/ rank[h] < rank[w]

\* Who has enough commitments will make a first signature, unless it was the
\* last to be asked.
WillSign(rank, g) ==
  \/ timers[g] > 0
  \/ Cardinality(Committed(Queued(g))) < RequiredSigner - 1
  \/ \A w \in Committed(Queued(g)) : rank[w] < rank[g]

\* rank is the order in which the guards were asked.
AskedInOrder(rank) ==
  /\ \A g \in Guard : rank[g] <= Cardinality(AskedSet)
  /\ RequiredSigner > 2 => \A x \in Transcripts : \A h \in Signers(x) : MissesLater(rank, h)
  /\ \A g \in Guard : Asked(g) /\ Held(g) = NoSign => WillSign(rank, g)

ExchangeInv ==
  Undecided => ExchangeOut /\ \E rank \in [Guard -> Nat] : AskedInOrder(rank)

\* A set of numbers below a bound has a greatest.
LEMMA Greatest ==
  ASSUME NEW T \in SUBSET Nat, T # {}, NEW b \in Nat, \A n \in T : n <= b
  PROVE  \E n \in T : \A k \in T : k <= n
<1> DEFINE U == {i \in Nat : b - i \in T}
<1>1. IsWellFoundedOn(OpToRel(<, Nat), Nat)
  BY NatLessThanWellFounded
<1>2. U \subseteq Nat /\ U # {}
  <2>1. PICK n \in T : TRUE
    OBVIOUS
  <2>2. b - n \in Nat /\ b - (b - n) = n
    BY <2>1
  <2> QED
    BY <2>1, <2>2
<1>3. PICK i \in U : \A j \in U : <<j, i>> \notin OpToRel(<, Nat)
  <2> HIDE DEF U
  <2> QED
  BY <1>1, <1>2, WFMin
<1>4. \A j \in U : ~(j < i)
  BY <1>3 DEF OpToRel
<1>6. i \in Nat /\ b - i \in T
  OBVIOUS
<1>5. ASSUME NEW k \in T PROVE k <= b - i
  <2>1. b - k \in Nat /\ b - (b - k) = k
    OBVIOUS
  <2>2. b - k \in U
    BY <2>1
  <2>3. ~(b - k < i)
    BY <1>4, <2>2
  <2> HIDE DEF U
  <2> QED
    BY <2>1, <2>3, <1>6
<1> QED
  BY <1>5, <1>6

\* There is a subset of every size up to that of the set.
LEMMA SubsetOfSize ==
  ASSUME NEW S, IsFiniteSet(S), NEW k \in Nat, k <= Cardinality(S)
  PROVE  kSubset(k, S) # {}
<1>1. Cardinality(S) \in Nat /\ ExistsBijection(1..Cardinality(S), S)
  BY FS_CardinalityType
<1>2. PICK f \in Bijection(1..Cardinality(S), S) : TRUE
  BY <1>1 DEF ExistsBijection
<1>3. f \in [1..Cardinality(S) -> S] /\ \A i, j \in 1..Cardinality(S) : f[i] = f[j] => i = j
  BY <1>2 DEF Bijection, Injection, Surjection, IsInjective
<1> DEFINE T == {f[i] : i \in 1..k}
           h == [i \in 1..k |-> f[i]]
<1>4. T \subseteq S
  BY <1>1, <1>3
<1>5. h \in Bijection(1..k, T)
  <2>1. h \in [1..k -> T] /\ \A t \in T : \E i \in 1..k : h[i] = t
    OBVIOUS
  <2>2. \A i, j \in 1..k : h[i] = h[j] => i = j
    BY <1>1, <1>3
  <2> QED
    BY <2>1, <2>2 DEF Bijection, Injection, Surjection, IsInjective
<1>6. Cardinality(T) = k
  BY <1>5, FS_CountingElements DEF ExistsBijection
<1> QED
  BY <1>4, <1>6 DEF kSubset

\* One entry changes.
LEMMA QueuedStep ==
  ASSUME TypeOK, NEW g \in Guard, NEW en \in Entry, entry' = [entry EXCEPT ![g] = en]
  PROVE  \A h \in Guard : Queued(h)' = IF h = g THEN en ELSE Queued(h)
  BY DEF Queued, TypeOK

LEMMA TranscriptIs ==
  ASSUME NEW x
  PROVE  x \in Transcripts <=>
           \/ \E m \in msgs : m.type = "sign" /\ x = m.tx
           \/ x # NoSign /\ \E g \in Guard : x = Held(g)
  BY DEF Transcripts, Held, Queued, NewEntry

LEMMA TranscriptType == TypeOK => Transcripts \subseteq Signs
<1> SUFFICES ASSUME TypeOK, NEW x \in Transcripts PROVE x \in Signs
  OBVIOUS
<1>1. CASE \E m \in msgs : m.type = "sign" /\ x = m.tx
  BY <1>1 DEF TypeOK, CommitmentMsg, SignMsg
<1>2. CASE x # NoSign /\ \E g \in Guard : x = Held(g)
  BY <1>2, QueuedType DEF Held, Entry
<1> QED
  BY <1>1, <1>2, TranscriptIs

LEMMA AskedFinite ==
  /\ IsFiniteSet(AskedSet) /\ Cardinality(AskedSet) \in Nat
  /\ Cardinality(AskedSet) <= Cardinality(Guard) /\ Cardinality(Guard) \in Nat
<1>1. AskedSet \subseteq Guard
  BY DEF AskedSet
<1> QED
  BY <1>1, FS_Subset, FS_CardinalityType

LEMMA SignedFinite ==
  ASSUME NEW x \in Signs, NEW g
  PROVE  /\ IsFiniteSet(x.signed) /\ IsFiniteSet(Signers(x)) /\ Signers(x) \subseteq Guard
         /\ Cardinality(x.signed) \in Nat /\ Others(g, x) \in Nat
         /\ Others(g, x) <= Cardinality(x.signed)
         /\ g \notin x.signed => Others(g, x) = Cardinality(x.signed)
<1>1. IsFiniteSet(x.signed) /\ IsFiniteSet(Signers(x)) /\ Signers(x) \subseteq Guard
  BY FS_Subset DEF Signs, Signers
<1>2. x.signed \ {g} \subseteq x.signed
  OBVIOUS
<1>3. g \notin x.signed => x.signed \ {g} = x.signed
  OBVIOUS
<1> QED
  BY <1>1, <1>2, <1>3, FS_Subset, FS_CardinalityType DEF Others

\* Nothing comes back: a guard that has the signed transaction keeps it.
LEMMA UndecidedBefore == TypeOK /\ [Next]_vars /\ Undecided' => Undecided
<1> SUFFICES ASSUME TypeOK, [Next]_vars, Undecided' PROVE Undecided
  OBVIOUS
<1>1. disturbed = {}
  BY DEF Undecided, Next, vars, Sign, DelayedGenerateSign, HandleCommitment, RefuseSign, HandleSign,
         Cleanup, Crash, ChainFails
<1>2. ASSUME NEW g \in Guard, outcome[g] = "signed" PROVE outcome'[g] = "signed"
  <2> USE DEF TypeOK
  <2>1. ASSUME NEW h \in Guard, Sign(h) PROVE outcome'[g] = "signed"
    BY <1>2, <2>1 DEF Sign, Open
  <2>2. ASSUME NEW h \in Guard, DelayedGenerateSign(h) PROVE outcome'[g] = "signed"
    BY <1>2, <2>2 DEF DelayedGenerateSign, Open, ProcessResolve
  <2>3. ASSUME NEW m \in msgs, HandleCommitment(m) \/ RefuseSign(m) PROVE outcome'[g] = "signed"
    BY <1>2, <2>3 DEF HandleCommitment, RefuseSign
  <2>4. ASSUME NEW m \in msgs, HandleSign(m) PROVE outcome'[g] = "signed"
    BY <1>2, <2>4 DEF HandleSign, Open, ProcessResolve
  <2>5. ASSUME NEW h \in Guard, Cleanup(h) \/ Crash(h) PROVE outcome'[g] = "signed"
    BY <2>5 DEF Cleanup, Crash, Undecided
  <2> QED
    BY <1>2, <2>1, <2>2, <2>3, <2>4, <2>5 DEF Next, vars
<1> QED
  BY <1>1, <1>2 DEF Undecided

\* What is complete resolves.
LEMMA ResolvesNothing ==
  ASSUME TypeOK, Undecided', NEW g \in Guard, NEW en \in Entry, EntryBound(g, en),
         en.sign # NoSign => Honest(en.sign), ProcessResolve(g, en, FALSE)
  PROVE  /\ entry' = [entry EXCEPT ![g] = en] /\ outcome' = outcome
         /\ ~Complete(en.sign)
<1>1. ASSUME Complete(en.sign) /\ en.secret # 0 PROVE FALSE
  <2>1. en.sign.sound
    BY <1>1 DEF EntryBound, WellSigned, Complete
  <2>2. outcome' = [outcome EXCEPT ![g] = "signed"]
    BY <1>1, <2>1 DEF ProcessResolve
  <2> QED
    BY <2>2 DEF Undecided, TypeOK
<1>2. ~Complete(en.sign)
  BY <1>1 DEF EntryBound, Complete
<1> QED
  BY <1>1, <1>2 DEF ProcessResolve

\* No transaction changes hands.
LEMMA SignsStay ==
  ASSUME SignsOut, AllReached, Waiting,
         \A h \in Guard : Held(h)' = Held(h) /\ (Asked(h) => Asked(h)'),
         \A h \in Guard : Held(h) # NoSign => Queued(h)'.commitments = Queued(h).commitments,
         {m \in msgs' : m.type = "sign"} = {m \in msgs : m.type = "sign"}
  PROVE  Transcripts' = Transcripts /\ SignsOut' /\ AllReached' /\ Waiting'
<1>1. \A m : m.type = "sign" => (m \in msgs' <=> m \in msgs)
  OBVIOUS
<1>2. \A x : x \in Transcripts' <=> x \in Transcripts
  <2>1. \A x : x \in Transcripts' <=> \/ \E m \in msgs' : m.type = "sign" /\ x = m.tx
                                      \/ x # NoSign /\ \E g \in Guard : x = Held(g)'
    BY DEF Transcripts, Held, Queued, NewEntry
  <2> QED
    BY <1>1, <2>1, TranscriptIs
<1>3. Transcripts' = Transcripts
  BY <1>2
<1>4. SignsOut'
  <2>1. ASSUME NEW x \in Transcripts PROVE Partly(x)'
    BY <2>1 DEF SignsOut, Partly, Signers, Complete
  <2>2. \A g \in Guard : Held(g)' # NoSign => g \in Signers(Held(g)')
    BY DEF SignsOut
  <2>3. \A m \in msgs' : m.type = "sign" => m.to \in Signers(m.tx)
    BY <1>1 DEF SignsOut
  <2> QED
    BY <1>3, <2>1, <2>2, <2>3 DEF SignsOut, Signers
<1>5. AllReached'
  <2> SUFFICES ASSUME NEW x \in Transcripts, NEW h \in Signers(x) \ x.signed PROVE Reached(x, h)'
    BY <1>3 DEF AllReached, Signers
  <2>1. Reached(x, h) /\ h \in Guard
    BY DEF AllReached, Signers
  <2> QED
    BY <1>1, <2>1 DEF Reached, Others
<1>6. Waiting'
  <2> SUFFICES ASSUME NEW g \in Guard, Held(g) # NoSign, g \notin Held(g).signed
               PROVE  Cardinality(Known(g, Held(g), Queued(g)')) < RequiredSigner
    BY DEF Waiting, Known, Signers, Committed
  <2>1. Known(g, Held(g), Queued(g)') = Known(g, Held(g), Queued(g))
    BY DEF Known, Signers, Committed
  <2> QED
    BY <2>1 DEF Waiting
<1> QED
  BY <1>3, <1>4, <1>5, <1>6

LEMMA AskStep ==
  ASSUME TypeOK, ExchangeOut, NEW rank \in [Guard -> Nat], AskedInOrder(rank), NEW g \in Guard, Sign(g)
  PROVE  ExchangeOut' /\ \E later \in [Guard -> Nat] : AskedInOrder(later)'
<1> DEFINE en == [Queued(g) EXCEPT !.secret = secrets[g] + 1]
<1>1. /\ ~Asked(g) /\ outcome[g] = "none" /\ secrets[g] = 0 /\ Queued(g).secret = 0
      /\ Queued(g) \in Entry
  BY QueuedType DEF Sign, ExchangeOut, AskedOnce, Asked
<1>2. en \in Entry /\ en.secret = 1 /\ en.sign = Held(g) /\ en.commitments = Queued(g).commitments
  BY <1>1 DEF Entry, Held
<1>3. \A h \in Guard : Queued(h)' = IF h = g THEN en ELSE Queued(h)
  <2>1. entry' = [entry EXCEPT ![g] = en]
    BY DEF Sign
  <2> HIDE DEF en
  <2> QED
    BY <1>2, <2>1, QueuedStep
<1>4. \A h \in Guard : Held(h)' = Held(h) /\ Queued(h)'.commitments = Queued(h).commitments
  BY <1>2, <1>3 DEF Held
<1>5. \A h \in Guard : /\ outcome'[h] = IF h = g THEN "asked" ELSE outcome[h]
                       /\ secrets'[h] = IF h = g THEN 1 ELSE secrets[h]
  BY <1>1 DEF Sign, TypeOK
<1>6. \A h \in Guard : Asked(h)' <=> Asked(h) \/ h = g
  BY <1>5 DEF Asked
<1>7. /\ \A m \in msgs' : m \in msgs \/ (m.type = "commitment" /\ m.from = g /\ m.to # g /\ m.commitment = 1)
      /\ \A h \in Guard \ {g} : CommitmentTo(g, h) \in msgs'
      /\ msgs \subseteq msgs'
  BY <1>1 DEF Sign, CommitmentTo
<1>8. Held(g) = NoSign
  <2> SUFFICES ASSUME Held(g) # NoSign PROVE FALSE
    OBVIOUS
  <2>1. Held(g) \in Transcripts
    BY TranscriptIs
  <2> QED
    BY <1>1, <2>1 DEF ExchangeOut, SignsOut, Partly
<1>9. timers' = timers
  BY DEF Sign
<1> HIDE DEF en
<1>10. Transcripts' = Transcripts /\ SignsOut' /\ AllReached' /\ Waiting'
  <2>1. {m \in msgs' : m.type = "sign"} = {m \in msgs : m.type = "sign"}
    BY <1>7
  <2> QED
    BY <1>4, <1>6, <2>1, SignsStay DEF ExchangeOut
<1>11. AskedOnce'
  BY <1>2, <1>3, <1>5 DEF ExchangeOut, AskedOnce, Asked
<1>12. CommitmentsKnown'
  <2>1. \A h \in Guard : \A k \in Committed(Queued(h)') :
          Asked(k)' /\ k # h /\ Queued(h)'.commitments[k] = 1
    BY <1>4, <1>6 DEF ExchangeOut, CommitmentsKnown, Committed
  <2>2. \A m \in msgs' : m.type = "commitment" => Asked(m.from)' /\ m.from # m.to /\ m.commitment = 1
    BY <1>6, <1>7 DEF ExchangeOut, CommitmentsKnown, TypeOK, CommitmentMsg, SignMsg
  <2>3. \A m \in msgs' : m.type = "sign" => \A h \in Guard : m.commitments[h] \in {0, 1}
    BY <1>7 DEF ExchangeOut, CommitmentsKnown
  <2>4. \A k, h \in Guard : Asked(k)' /\ k # h =>
          Queued(h)'.commitments[k] # 0 \/ Held(h)' # NoSign \/ CommitmentTo(k, h) \in msgs'
    BY <1>4, <1>6, <1>7 DEF ExchangeOut, CommitmentsKnown
  <2> QED
    BY <2>1, <2>2, <2>3, <2>4 DEF CommitmentsKnown, Committed, CommitmentTo
<1> DEFINE n == Cardinality(AskedSet)
<1>13. n \in Nat /\ \A h \in Guard : rank[h] \in Nat /\ rank[h] <= n
  BY AskedFinite DEF AskedInOrder
<1>14. Cardinality(AskedSet') = n + 1
  <2>1. AskedSet' = AskedSet \cup {g} /\ g \notin AskedSet
    BY <1>1, <1>6 DEF AskedSet
  <2> QED
    BY <2>1, AskedFinite, FS_AddElement
<1> HIDE DEF n
<1>15. PICK later \in [Guard -> Nat] : \A h \in Guard : later[h] = IF h = g THEN n + 1 ELSE rank[h]
  <2>1. [rank EXCEPT ![g] = n + 1] \in [Guard -> Nat]
    BY <1>13
  <2> QED
    BY <2>1
<1>17. AskedInOrder(later)'
  <2>1. \A h \in Guard : later[h] <= Cardinality(AskedSet')
    BY <1>13, <1>14, <1>15
  <2>2. ASSUME RequiredSigner > 2, NEW x \in Transcripts, NEW h \in Signers(x), NEW w \in Guard \ {h},
               Asked(w)'
        PROVE  Queued(h)'.commitments[w] # 0 \/ later[h] < later[w]
    <3>1. h \in Guard /\ Asked(h)
      BY DEF Signers, ExchangeOut, SignsOut, Partly
    <3>2. MissesLater(rank, h)
      BY <2>2 DEF AskedInOrder
    <3> QED
      BY <1>1, <1>4, <1>6, <1>13, <1>15, <2>2, <3>1, <3>2 DEF MissesLater
  <2>3. ASSUME NEW h \in Guard, Asked(h)', Held(h)' = NoSign
        PROVE  \/ timers[h] > 0
               \/ Cardinality(Committed(Queued(h)')) < RequiredSigner - 1
               \/ \A w \in Committed(Queued(h)') : later[w] < later[h]
    <3>0. Committed(Queued(h)') = Committed(Queued(h)) /\ Committed(Queued(h)) \subseteq Guard
      BY <1>4 DEF Committed
    <3>1. CASE h = g
      BY <1>13, <1>15, <3>0, <3>1 DEF ExchangeOut, CommitmentsKnown
    <3>2. CASE h # g
      <4>1. Asked(h) /\ Held(h) = NoSign
        BY <1>4, <1>6, <2>3, <3>2
      <4>2. WillSign(rank, h)
        BY <4>1 DEF AskedInOrder
      <4>3. g \notin Committed(Queued(h))
        BY <1>1 DEF ExchangeOut, CommitmentsKnown
      <4> QED
        BY <1>15, <3>0, <3>2, <4>2, <4>3 DEF WillSign
    <3> QED
      BY <3>1, <3>2
  <2> QED
    BY <1>9, <1>10, <2>1, <2>2, <2>3 DEF AskedInOrder, MissesLater, WillSign, Signers, Committed
<1> QED
  BY <1>10, <1>11, <1>12, <1>15, <1>17 DEF ExchangeOut

LEMMA CommittedFinite ==
  ASSUME NEW en
  PROVE  Committed(en) \subseteq Guard /\ Cardinality(Committed(en)) \in Nat
<1>1. Committed(en) \subseteq Guard
  BY DEF Committed
<1> QED
  BY <1>1, FS_Subset, FS_CardinalityType

LEMMA CommitmentStep ==
  ASSUME TypeOK, ExchangeOut, NEW rank \in [Guard -> Nat], AskedInOrder(rank),
         NEW m \in msgs, HandleCommitment(m)
  PROVE  ExchangeOut' /\ AskedInOrder(rank)'
<1> PICK g : g = m.to
  OBVIOUS
<1> PICK f : f = m.from
  OBVIOUS
<1> DEFINE en == IF Queued(g).sign # NoSign THEN Queued(g)
                 ELSE [Queued(g) EXCEPT !.commitments[f] = m.commitment]
<1>1. /\ m.type = "commitment" /\ g \in Guard /\ f \in Guard /\ f # g /\ Asked(f)
      /\ m.commitment = 1 /\ m = CommitmentTo(f, g)
  BY DEF HandleCommitment, TypeOK, CommitmentMsg, SignMsg, CommitmentTo, ExchangeOut, CommitmentsKnown
<1>2. Queued(g) \in Entry
  BY <1>1, QueuedType
<1>3. /\ en \in Entry /\ en.sign = Held(g) /\ en.secret = Queued(g).secret
      /\ \A k \in Guard : en.commitments[k] =
           IF Held(g) = NoSign /\ k = f THEN 1 ELSE Queued(g).commitments[k]
      /\ Held(g) # NoSign => en = Queued(g)
  <2>1. Queued(g).commitments \in [Guard -> Nat]
    BY <1>2 DEF Entry, Commitments
  <2>2. CASE Held(g) = NoSign
    <3>1. en = [Queued(g) EXCEPT !.commitments[f] = 1]
      BY <1>1, <2>2 DEF Held
    <3>2. en \in Entry
      BY <1>1, <1>2, <3>1, EntryWith
    <3> QED
      BY <1>1, <1>2, <2>1, <2>2, <3>1, <3>2 DEF Entry, Held
  <2>3. CASE Held(g) # NoSign
    BY <1>2, <2>3 DEF Held
  <2> QED
    BY <2>2, <2>3
<1>4. /\ entry' = [entry EXCEPT ![g] = en] /\ msgs' = msgs \ {m}
      /\ outcome' = outcome /\ secrets' = secrets
      /\ timers' = [timers EXCEPT ![g] =
           IF en.sign = NoSign /\ en.secret # 0 /\ Cardinality(Committed(en)) >= RequiredSigner - 1
           THEN @ + 1 ELSE @]
  BY DEF HandleCommitment
<1> HIDE DEF en
<1>5. \A h \in Guard : Queued(h)' = IF h = g THEN en ELSE Queued(h)
  BY <1>1, <1>3, <1>4, QueuedStep
<1>6. /\ \A h \in Guard : Held(h)' = Held(h) /\ (Asked(h)' <=> Asked(h))
      /\ \A h \in Guard : Queued(h)'.secret = Queued(h).secret
      /\ \A h, k \in Guard : Queued(h)'.commitments[k] =
           IF h = g /\ k = f /\ Held(g) = NoSign THEN 1 ELSE Queued(h).commitments[k]
  BY <1>3, <1>4, <1>5 DEF Held, Asked
<1>7. Transcripts' = Transcripts /\ SignsOut' /\ AllReached' /\ Waiting'
  <2>1. {n \in msgs' : n.type = "sign"} = {n \in msgs : n.type = "sign"}
    BY <1>1, <1>4
  <2>2. \A h \in Guard : Held(h) # NoSign => Queued(h)'.commitments = Queued(h).commitments
    BY <1>3, <1>5
  <2> QED
    BY <1>6, <2>1, <2>2, SignsStay DEF ExchangeOut
<1>8. AskedOnce'
  BY <1>4, <1>6 DEF ExchangeOut, AskedOnce, Asked
<1>9. CommitmentsKnown'
  <2>1. \A h \in Guard : \A k \in Committed(Queued(h)') :
          Asked(k)' /\ k # h /\ Queued(h)'.commitments[k] = 1
    BY <1>1, <1>6 DEF ExchangeOut, CommitmentsKnown, Committed
  <2>2. \A n \in msgs' : n.type = "commitment" => Asked(n.from)' /\ n.from # n.to /\ n.commitment = 1
    BY <1>4, <1>6 DEF ExchangeOut, CommitmentsKnown, Asked
  <2>3. \A n \in msgs' : n.type = "sign" => \A h \in Guard : n.commitments[h] \in {0, 1}
    BY <1>4 DEF ExchangeOut, CommitmentsKnown
  <2>4. ASSUME NEW k \in Guard, NEW h \in Guard, Asked(k), k # h
        PROVE  Queued(h)'.commitments[k] # 0 \/ Held(h)' # NoSign \/ CommitmentTo(k, h) \in msgs'
    <3>1. Queued(h).commitments[k] # 0 \/ Held(h) # NoSign \/ CommitmentTo(k, h) \in msgs
      BY <2>4 DEF ExchangeOut, CommitmentsKnown
    <3>2. CommitmentTo(k, h) = m => k = f /\ h = g
      BY <1>1 DEF CommitmentTo
    <3> QED
      BY <1>4, <1>6, <3>1, <3>2
  <2> QED
    BY <1>6, <2>1, <2>2, <2>3, <2>4 DEF CommitmentsKnown, Committed, CommitmentTo
<1>10. AskedInOrder(rank)'
  <2>1. \A h \in Guard : rank[h] <= Cardinality(AskedSet')
    BY <1>4 DEF AskedInOrder, AskedSet, Asked
  <2>2. ASSUME RequiredSigner > 2, NEW x \in Transcripts, NEW h \in Signers(x), NEW w \in Guard \ {h},
               Asked(w)
        PROVE  Queued(h)'.commitments[w] # 0 \/ rank[h] < rank[w]
    <3>1. h \in Guard /\ MissesLater(rank, h)
      BY <2>2 DEF AskedInOrder, Signers
    <3> QED
      BY <1>6, <2>2, <3>1 DEF MissesLater
  <2>3. ASSUME NEW h \in Guard, Asked(h), Held(h) = NoSign
        PROVE  \/ timers'[h] > 0
               \/ Cardinality(Committed(Queued(h)')) < RequiredSigner - 1
               \/ \A w \in Committed(Queued(h)') : rank[w] < rank[h]
    <3>1. CASE h = g
      <4>1. en.sign = NoSign /\ en.secret # 0 /\ Queued(g)' = en
        BY <1>1, <1>3, <1>5, <2>3, <3>1 DEF ExchangeOut, AskedOnce
      <4>2. CASE Cardinality(Committed(en)) >= RequiredSigner - 1
        BY <1>1, <1>4, <3>1, <4>1, <4>2 DEF TypeOK
      <4>3. CASE ~(Cardinality(Committed(en)) >= RequiredSigner - 1)
        BY <3>1, <4>1, <4>3, CommittedFinite
      <4> QED
        BY <4>2, <4>3
    <3>2. CASE h # g
      <4>1. WillSign(rank, h)
        BY <2>3 DEF AskedInOrder
      <4>2. Queued(h)' = Queued(h) /\ timers'[h] = timers[h]
        BY <1>4, <1>5, <3>2 DEF TypeOK
      <4> QED
        BY <4>1, <4>2 DEF WillSign
    <3> QED
      BY <3>1, <3>2
  <2> QED
    BY <1>6, <1>7, <2>1, <2>2, <2>3 DEF AskedInOrder, MissesLater, WillSign, Signers, Committed
<1> QED
  BY <1>7, <1>8, <1>9, <1>10 DEF ExchangeOut

LEMMA NothingStep ==
  ASSUME ExchangeOut, NEW rank \in [Guard -> Nat], AskedInOrder(rank),
         \A h \in Guard : Queued(h)' = Queued(h),
         msgs' = msgs, outcome' = outcome, secrets' = secrets,
         \A h \in Guard : Asked(h) /\ Held(h) = NoSign =>
           timers'[h] = timers[h] \/ Cardinality(Committed(Queued(h))) < RequiredSigner - 1
  PROVE  ExchangeOut' /\ AskedInOrder(rank)'
<1>1. \A h \in Guard : Held(h)' = Held(h) /\ (Asked(h)' <=> Asked(h))
  BY DEF Held, Asked
<1>2. Transcripts' = Transcripts /\ SignsOut' /\ AllReached' /\ Waiting'
  BY <1>1, SignsStay DEF ExchangeOut
<1>3. AskedOnce'
  BY DEF ExchangeOut, AskedOnce, Asked
<1>4. CommitmentsKnown'
  <2>1. \A h \in Guard : Committed(Queued(h)') = Committed(Queued(h))
    OBVIOUS
  <2>2. \A h \in Guard : \A k \in Committed(Queued(h)') :
          Asked(k)' /\ k # h /\ Queued(h)'.commitments[k] = 1
    BY <1>1, <2>1, CommittedFinite DEF ExchangeOut, CommitmentsKnown
  <2>3. \A n \in msgs' : n.type = "commitment" => Asked(n.from)' /\ n.from # n.to /\ n.commitment = 1
    BY DEF ExchangeOut, CommitmentsKnown, Asked
  <2>4. \A k, h \in Guard : Asked(k)' /\ k # h =>
          Queued(h)'.commitments[k] # 0 \/ Held(h)' # NoSign \/ CommitmentTo(k, h) \in msgs'
    BY <1>1 DEF ExchangeOut, CommitmentsKnown
  <2> QED
    BY <2>2, <2>3, <2>4 DEF ExchangeOut, CommitmentsKnown, Committed, CommitmentTo
<1>5. AskedInOrder(rank)'
  <2>1. AskedSet' = AskedSet
    BY <1>1 DEF AskedSet
  <2>2. RequiredSigner > 2 => \A x \in Transcripts : \A h \in Signers(x) : MissesLater(rank, h)'
    BY <1>1 DEF AskedInOrder, MissesLater, Signers
  <2>3. \A h \in Guard : Asked(h) /\ Held(h) = NoSign => WillSign(rank, h)'
    BY DEF AskedInOrder, WillSign, Committed
  <2> QED
    BY <1>1, <1>2, <2>1, <2>2, <2>3 DEF AskedInOrder, Signers
<1> QED
  BY <1>2, <1>3, <1>4, <1>5 DEF ExchangeOut

\* A guard stores a transaction: its own first signature, or what it received,
\* with its signature or without.
LEMMA StoreStep ==
  ASSUME TypeOK, ExchangeOut, NEW rank \in [Guard -> Nat], AskedInOrder(rank),
         NEW g \in Guard, NEW x \in Signs, Partly(x), g \in Signers(x),
         entry' = [entry EXCEPT ![g] = [Queued(g) EXCEPT !.sign = x]],
         outcome' = outcome, secrets' = secrets,
         \A h \in Guard \ {g} : timers'[h] = timers[h],
         \A n \in msgs : \/ n \in msgs'
                         \/ /\ n.type = "sign" /\ n.to = g
                            /\ g \notin n.tx.signed => Others(g, x) >= Cardinality(n.tx.signed),
         \A n \in msgs' : \/ n \in msgs
                          \/ /\ n.type = "sign" /\ n.tx = x /\ n.to \in Signers(x)
                             /\ \A h \in Guard : n.commitments[h] \in {0, 1},
         g \in x.signed \/ Cardinality(Known(g, x, Queued(g))) < RequiredSigner,
         Held(g) # NoSign => Others(g, x) >= Others(g, Held(g)),
         \/ x \in Transcripts
         \/ \A h \in Signers(x) \ x.signed : \E n \in msgs' : n.type = "sign" /\ n.to = h /\ n.tx = x,
         RequiredSigner > 2 => \A h \in Signers(x) :
           \/ \E y \in Transcripts : h \in Signers(y)
           \/ \A w \in Guard \ {h} : Asked(w) => Queued(h).commitments[w] # 0
  PROVE  ExchangeOut' /\ AskedInOrder(rank)'
<1> DEFINE en == [Queued(g) EXCEPT !.sign = x]
<1>1. Queued(g) \in Entry /\ x # NoSign
  BY QueuedType
<1>2. /\ en \in Entry /\ en.sign = x /\ en.secret = Queued(g).secret
      /\ en.commitments = Queued(g).commitments
  BY <1>1 DEF Entry
<1>3. entry' = [entry EXCEPT ![g] = en]
  OBVIOUS
<1> HIDE DEF en
<1>4. \A h \in Guard : Queued(h)' = IF h = g THEN en ELSE Queued(h)
  BY <1>2, <1>3, QueuedStep
<1>5. /\ \A h \in Guard : Held(h)' = IF h = g THEN x ELSE Held(h)
      /\ \A h \in Guard : /\ Queued(h)'.secret = Queued(h).secret
                          /\ Queued(h)'.commitments = Queued(h).commitments
      /\ \A h \in Guard : Asked(h)' <=> Asked(h)
  BY <1>2, <1>4 DEF Held, Asked
<1>6. \A y \in Transcripts' : y \in Transcripts \/ y = x
  <2> SUFFICES ASSUME NEW y \in Transcripts' PROVE y \in Transcripts \/ y = x
    OBVIOUS
  <2>1. \/ \E m \in msgs' : m.type = "sign" /\ y = m.tx
        \/ y # NoSign /\ \E h \in Guard : y = Held(h)'
    BY DEF Transcripts, Held, Queued, NewEntry
  <2> QED
    BY <1>5, <2>1, TranscriptIs
<1>7. AskedOnce'
  BY <1>5 DEF ExchangeOut, AskedOnce, Asked
<1>8. CommitmentsKnown'
  <2>1. \A h \in Guard : \A k \in Committed(Queued(h)') :
          Asked(k)' /\ k # h /\ Queued(h)'.commitments[k] = 1
    BY <1>5 DEF ExchangeOut, CommitmentsKnown, Committed
  <2>2. \A n \in msgs' : n.type = "commitment" => Asked(n.from)' /\ n.from # n.to /\ n.commitment = 1
    BY DEF ExchangeOut, CommitmentsKnown, Asked
  <2>3. \A n \in msgs' : n.type = "sign" => \A h \in Guard : n.commitments[h] \in {0, 1}
    BY DEF ExchangeOut, CommitmentsKnown
  <2>4. ASSUME NEW k \in Guard, NEW h \in Guard, Asked(k), k # h
        PROVE  Queued(h)'.commitments[k] # 0 \/ Held(h)' # NoSign \/ CommitmentTo(k, h) \in msgs'
    <3>1. Queued(h).commitments[k] # 0 \/ Held(h) # NoSign \/ CommitmentTo(k, h) \in msgs
      BY <2>4 DEF ExchangeOut, CommitmentsKnown
    <3>2. CommitmentTo(k, h).type = "commitment"
      BY DEF CommitmentTo
    <3> QED
      BY <1>1, <1>5, <3>1, <3>2
  <2> QED
    BY <1>5, <2>1, <2>2, <2>3, <2>4 DEF CommitmentsKnown, Committed, CommitmentTo
<1>9. SignsOut'
  <2>1. ASSUME NEW y \in Transcripts' PROVE Partly(y)'
    <3>1. Partly(y)
      BY <1>6 DEF ExchangeOut, SignsOut
    <3>2. \A h \in Signers(y) : Asked(h)' <=> Asked(h)
      BY <1>5 DEF Signers
    <3> QED
      BY <3>1, <3>2 DEF Partly, Signers, Complete
  <2>2. \A h \in Guard : Held(h)' # NoSign => h \in Signers(Held(h)')
    BY <1>5 DEF ExchangeOut, SignsOut
  <2>3. \A m \in msgs' : m.type = "sign" => m.to \in Signers(m.tx)
    BY DEF ExchangeOut, SignsOut
  <2> QED
    BY <2>1, <2>2, <2>3 DEF SignsOut, Signers
<1>10. AllReached'
  <2> SUFFICES ASSUME NEW y \in Transcripts', NEW h \in Signers(y) \ y.signed
               PROVE  Reached(y, h)'
    BY DEF AllReached, Signers
  <2>0. h \in Guard
    BY DEF Signers
  <2>1. CASE y \in Transcripts
    <3>1. Reached(y, h) /\ y \in Signs
      BY <2>1, TranscriptType DEF ExchangeOut, AllReached
    <3>2. CASE \E m \in msgs : m.type = "sign" /\ m.to = h /\ m.tx = y
      <4> PICK m \in msgs : m.type = "sign" /\ m.to = h /\ m.tx = y
        BY <3>2
      <4>1. CASE m \in msgs'
        BY <4>1 DEF Reached
      <4>2. CASE m \notin msgs'
        <5>1. h = g /\ Others(g, x) >= Cardinality(y.signed)
          BY <4>2
        <5> QED
          BY <1>1, <1>5, <5>1 DEF Reached, Others
      <4> QED
        BY <4>1, <4>2
    <3>3. CASE Held(h) # NoSign /\ Others(h, Held(h)) >= Cardinality(y.signed)
      <4>1. CASE h = g
        <5>1. Held(g) \in Signs
          BY <1>1, <3>3, <4>1 DEF Held, Entry
        <5>2. Others(g, x) >= Cardinality(y.signed)
          BY <3>1, <3>3, <4>1, <5>1, SignedFinite
        <5> QED
          BY <1>1, <1>5, <4>1, <5>2 DEF Reached, Others
      <4>2. CASE h # g
        BY <1>5, <2>0, <3>3, <4>2 DEF Reached, Others
      <4> QED
        BY <4>1, <4>2
    <3> QED
      BY <3>1, <3>2, <3>3 DEF Reached
  <2>2. CASE y \notin Transcripts
    BY <1>6, <2>2 DEF Reached
  <2> QED
    BY <2>1, <2>2
<1>11. Waiting'
  <2> SUFFICES ASSUME NEW h \in Guard, Held(h)' # NoSign, h \notin Held(h)'.signed
               PROVE  Cardinality(Known(h, Held(h)', Queued(h)')) < RequiredSigner
    BY DEF Waiting, Known, Signers, Committed
  <2>1. \A y : Known(h, y, Queued(h)') = Known(h, y, Queued(h))
    BY <1>5 DEF Known, Signers, Committed
  <2>2. CASE h = g
    BY <1>5, <2>1, <2>2
  <2>3. CASE h # g
    <3>1. Held(h)' = Held(h)
      BY <1>5, <2>3
    <3> QED
      BY <2>1, <3>1 DEF ExchangeOut, Waiting
  <2> QED
    BY <2>2, <2>3
<1>12. AskedInOrder(rank)'
  <2>1. AskedSet' = AskedSet
    BY <1>5 DEF AskedSet
  <2>2. ASSUME RequiredSigner > 2, NEW y \in Transcripts', NEW h \in Signers(y)
        PROVE  MissesLater(rank, h)'
    <3>1. h \in Guard
      BY DEF Signers
    <3>2. MissesLater(rank, h)
      BY <1>6, <2>2 DEF AskedInOrder, MissesLater
    <3> QED
      BY <1>5, <3>1, <3>2 DEF MissesLater
  <2>3. ASSUME NEW h \in Guard, Asked(h)', Held(h)' = NoSign PROVE WillSign(rank, h)'
    <3>1. h # g /\ Queued(h)' = Queued(h) /\ timers'[h] = timers[h]
      BY <1>1, <1>4, <1>5, <2>3
    <3>2. WillSign(rank, h)
      BY <1>5, <2>3, <3>1 DEF AskedInOrder
    <3> QED
      BY <3>1, <3>2 DEF WillSign, Committed
  <2> QED
    BY <2>1, <2>2, <2>3 DEF AskedInOrder, Signers
<1> QED
  BY <1>7, <1>8, <1>9, <1>10, <1>11, <1>12 DEF ExchangeOut

\* What a guard announces goes to the other signers of it.
LEMMA AnnouncedToSigners ==
  ASSUME AllRegistered, ExchangeOut, NEW g \in Guard, NEW en, en.commitments = Queued(g).commitments,
         NEW x, ~Complete(x)
  PROVE  /\ \A n \in Announced(g, en, x) :
              /\ n.type = "sign" /\ n.tx = x /\ n.to \in Signers(x)
              /\ \A h \in Guard : n.commitments[h] \in {0, 1}
         /\ x # en.sign => \A h \in Signers(x) \ {g} :
              \E n \in Announced(g, en, x) : n.type = "sign" /\ n.to = h /\ n.tx = x
<1>1. \A h \in Guard : en.commitments[h] \in {0, 1}
  BY DEF ExchangeOut, CommitmentsKnown, Committed
<1>2. ASSUME x # en.sign
      PROVE  Announced(g, en, x) = [type : {"sign"}, to : Signers(x) \ {g}, tx : {x},
                                    commitments : {en.commitments}]
  BY <1>2 DEF Announced
<1>3. x = en.sign => Announced(g, en, x) = {}
  BY DEF Announced
<1>4. \A n \in Announced(g, en, x) :
              /\ n.type = "sign" /\ n.tx = x /\ n.to \in Signers(x)
              /\ \A h \in Guard : n.commitments[h] \in {0, 1}
  <2>1. CASE x = en.sign
    BY <1>3, <2>1
  <2>2. CASE x # en.sign
    <3> SUFFICES ASSUME NEW n \in Announced(g, en, x)
                 PROVE  /\ n.type = "sign" /\ n.tx = x /\ n.to \in Signers(x)
                        /\ n.commitments = en.commitments
      BY <1>1
    <3> PICK c : c = en.commitments
      OBVIOUS
    <3>1. n \in [type : {"sign"}, to : Signers(x) \ {g}, tx : {x}, commitments : {c}]
      BY <1>2, <2>2
    <3> QED
      BY <3>1
  <2> QED
    BY <2>1, <2>2
<1>5. ASSUME x # en.sign, NEW h \in Signers(x) \ {g}
      PROVE  \E n \in Announced(g, en, x) : n.type = "sign" /\ n.to = h /\ n.tx = x
  <2>1. [type |-> "sign", to |-> h, tx |-> x, commitments |-> en.commitments] \in Announced(g, en, x)
    BY <1>2, <1>5
  <2> QED
    BY <2>1
<1> QED
  BY <1>4, <1>5

\* With enough commitments the first signature does not fail.
LEMMA FirstSignsReady ==
  ASSUME NEW g \in Guard, NEW en \in Entry, g \notin Committed(en), FirstSigns(g, en) = {}
  PROVE  Cardinality(Committed(en)) < RequiredSigner - 1
<1> SUFFICES ASSUME ~(Cardinality(Committed(en)) < RequiredSigner - 1) PROVE FALSE
  OBVIOUS
<1>1. Committed(en) \ {g} = Committed(en) /\ IsFiniteSet(Committed(en))
  BY CommittedFinite, FS_Subset
<1>2. RequiredSigner - 1 \in Nat /\ RequiredSigner - 1 <= Cardinality(Committed(en))
  BY CommittedFinite
<1>3. kSubset(RequiredSigner - 1, Committed(en)) # {}
  BY <1>1, <1>2, SubsetOfSize
<1>4. \E others \in kSubset(RequiredSigner - 1, Committed(en) \ {g}) : TRUE
  BY <1>1, <1>3
<1>5. \A others \in kSubset(RequiredSigner - 1, Committed(en) \ {g}) :
        [first |-> g, signed |-> {g}, sound |-> TRUE,
         bound |-> [h \in Guard |-> IF h = g THEN en.secret
                                    ELSE IF h \in others THEN en.commitments[h] ELSE 0]]
          \in FirstSigns(g, en)
  BY Zenon DEF FirstSigns
<1> QED
  BY <1>4, <1>5

LEMMA DelayedStep ==
  ASSUME AllRegistered, TypeOK, BindInv, Undecided, Undecided', ExchangeOut,
         NEW rank \in [Guard -> Nat], AskedInOrder(rank), NEW g \in Guard, DelayedGenerateSign(g)
  PROVE  ExchangeOut' /\ AskedInOrder(rank)'
<1> DEFINE en == Queued(g)
<1>1. PICK x \in GeneratedSigns(g, en) :
        /\ msgs' = msgs \cup Announced(g, en, x)
        /\ ProcessResolve(g, [en EXCEPT !.sign = x], FALSE)
        /\ ~Late
  BY DEF DelayedGenerateSign, ChainFails, Undecided
<1>2. /\ secrets' = secrets
      /\ \A h \in Guard \ {g} : timers'[h] = timers[h]
  BY DEF DelayedGenerateSign, TypeOK
<1>3. en \in Entry /\ EntryBound(g, en) /\ en.sign = Held(g)
  BY QueuedType, QueuedBound DEF Held
<1>4. Held(g) # NoSign => Held(g) \in Transcripts /\ Partly(Held(g)) /\ g \in Signers(Held(g))
  BY TranscriptIs DEF ExchangeOut, SignsOut
<1>5. Asked(g) <=> en.secret # 0
  BY DEF ExchangeOut, AskedOnce
<1> HIDE DEF en
<1>6. CASE x = en.sign
  <2>1. [en EXCEPT !.sign = x] = en
    BY <1>3, <1>6 DEF Entry
  <2>2. entry' = [entry EXCEPT ![g] = en] /\ outcome' = outcome
    BY <1>1, <1>3, <1>4, <2>1, ResolvesNothing DEF Honest, Partly
  <2>3. \A h \in Guard : Queued(h)' = Queued(h)
    <3>1. \A h \in Guard : Queued(h)' = IF h = g THEN en ELSE Queued(h)
      BY <1>3, <2>2, QueuedStep
    <3> QED
      BY <3>1 DEF en
  <2>4. msgs' = msgs
    BY <1>1, <1>6 DEF Announced
  <2>5. ASSUME Asked(g), Held(g) = NoSign PROVE Cardinality(Committed(Queued(g))) < RequiredSigner - 1
    <3>1. FirstSigns(g, en) = {}
      <4> SUFFICES ASSUME FirstSigns(g, en) # {} PROVE FALSE
        OBVIOUS
      <4>1. x \in FirstSigns(g, en)
        BY <1>3, <1>5, <2>5 DEF GeneratedSigns
      <4>2. x \in Signs
        BY <1>3, <4>1, FirstSignsType
      <4> QED
        BY <1>3, <1>6, <2>5, <4>2
    <3>2. g \notin Committed(en)
      BY DEF ExchangeOut, CommitmentsKnown, en
    <3> QED
      BY <1>3, <3>1, <3>2, FirstSignsReady DEF en
  <2> QED
    BY <1>2, <2>2, <2>3, <2>4, <2>5, NothingStep
<1>7. CASE x # en.sign
  <2>1. Held(g) = NoSign
    <3> SUFFICES ASSUME Held(g) # NoSign PROVE FALSE
      OBVIOUS
    <3>1. g \notin en.sign.signed /\ x \in NextSigns(g, en)
      BY <1>3, <1>7 DEF GeneratedSigns
    <3>2. Cardinality(Known(g, en.sign, en)) < RequiredSigner
      BY <1>3, <3>1 DEF ExchangeOut, Waiting, en
    <3> QED
      BY <3>1, <3>2 DEF NextSigns
  <2>2. en.secret # 0 /\ x \in FirstSigns(g, en)
    BY <1>3, <1>7, <2>1 DEF GeneratedSigns
  <2>3. /\ x \in Signs /\ x.signed = {g} /\ Cardinality(Signers(x)) = RequiredSigner
        /\ g \in Signers(x) /\ x.bound[g] = en.secret
        /\ \A h \in Signers(x) \ {g} : x.bound[h] = en.commitments[h]
    BY <1>3, <2>2, FirstSignsType, FirstSignsBound
  <2> DEFINE new == [en EXCEPT !.sign = x]
  <2>4. new \in Entry /\ new.sign = x
    BY <1>3, <2>3 DEF Entry
  <2>5. EntryBound(g, new)
    BY <1>3, <2>2, FirstBound
  <2>6. entry' = [entry EXCEPT ![g] = new] /\ outcome' = outcome /\ ~Complete(x)
    <3>1. Honest(x) /\ ProcessResolve(g, new, FALSE)
      BY <1>1, <2>3 DEF Honest
    <3> HIDE DEF new
    <3> QED
      BY <2>4, <2>5, <3>1, ResolvesNothing
  <2>7. Partly(x)
    <3>1. \A h \in Signers(x) : h \in Guard /\ x.bound[h] # 0
      BY DEF Signers
    <3>2. \A h \in Signers(x) : Asked(h) /\ x.bound[h] = 1
      BY <1>5, <2>2, <2>3, <3>1 DEF ExchangeOut, AskedOnce, CommitmentsKnown, Committed, en
    <3> QED
      BY <2>3, <2>6, <3>2 DEF Partly
  <2>8. \A n \in msgs' : n \in msgs \/ (/\ n.type = "sign" /\ n.tx = x /\ n.to \in Signers(x)
                                        /\ \A h \in Guard : n.commitments[h] \in {0, 1})
    BY <1>1, <2>6, AnnouncedToSigners DEF en
  <2>9. \A h \in Signers(x) \ x.signed : \E n \in msgs' : n.type = "sign" /\ n.to = h /\ n.tx = x
    BY <1>1, <1>7, <2>3, <2>6, AnnouncedToSigners DEF en
  <2>10. ASSUME RequiredSigner > 2, NEW h \in Signers(x)
         PROVE  \/ \E y \in Transcripts : h \in Signers(y)
                \/ \A w \in Guard \ {h} : Asked(w) => Queued(h).commitments[w] # 0
    <3>1. h \in Guard
      BY DEF Signers
    <3>2. CASE Held(h) = NoSign
      <4>1. \A w \in Guard : CommitmentTo(w, h) \notin msgs
        BY <1>1, <2>10, <3>1 DEF Late, Open, Undecided, CommitmentTo
      <4> QED
        BY <3>1, <3>2, <4>1 DEF ExchangeOut, CommitmentsKnown
    <3>3. CASE Held(h) # NoSign
      <4>1. Held(h) \in Transcripts /\ h \in Signers(Held(h))
        BY <3>1, <3>3, TranscriptIs DEF ExchangeOut, SignsOut
      <4> QED
        BY <4>1
    <3> QED
      BY <3>2, <3>3
  <2>11. /\ entry' = [entry EXCEPT ![g] = [Queued(g) EXCEPT !.sign = x]]
         /\ \A n \in msgs : n \in msgs'
    BY <1>1, <2>6 DEF en
  <2>12. g \in x.signed
    BY <2>3
  <2> QED
    BY <1>2, <2>1, <2>3, <2>6, <2>7, <2>8, <2>9, <2>10, <2>11, <2>12, StoreStep
<1> QED
  BY <1>6, <1>7

\* Nothing is refused: there is one secret of each guard to agree about.
LEMMA NothingRefused ==
  ASSUME TypeOK, Undecided, ExchangeOut, NEW m \in msgs
  PROVE  ~RefuseSign(m)
<1> SUFFICES ASSUME m.type = "sign" PROVE Verified(m.to, m)
  BY DEF RefuseSign
<1>1. m \in SignMsg /\ m.to \in Guard /\ m.tx \in Transcripts
  BY TranscriptIs DEF TypeOK, CommitmentMsg, SignMsg
<1>2. Partly(m.tx) /\ m.to \in Signers(m.tx)
  BY <1>1 DEF ExchangeOut, SignsOut
<1>3. Queued(m.to).secret = 1
  BY <1>1, <1>2 DEF Partly, ExchangeOut, AskedOnce
<1>4. Agrees(m.to, Queued(m.to), m)
  <2> SUFFICES ASSUME NEW h \in Guard, m.commitments[h] # 0
               PROVE  /\ h = m.to => m.commitments[h] = 1
                      /\ Queued(m.to).commitments[h] # 0 => m.commitments[h] = Queued(m.to).commitments[h]
                      /\ h \in m.tx.signed => m.commitments[h] = m.tx.bound[h]
    BY <1>3 DEF Agrees
  <2>1. m.commitments[h] = 1
    BY DEF ExchangeOut, CommitmentsKnown
  <2>2. h \in m.tx.signed => m.tx.bound[h] = 1
    BY <1>2 DEF Partly
  <2>3. Queued(m.to).commitments[h] # 0 => Queued(m.to).commitments[h] = 1
    BY <1>1 DEF ExchangeOut, CommitmentsKnown, Committed
  <2> QED
    BY <2>1, <2>2, <2>3
<1> QED
  BY <1>3, <1>4 DEF Verified

LEMMA ReceiveStep ==
  ASSUME AllRegistered, TypeOK, BindInv, Undecided, Undecided', ExchangeOut,
         NEW rank \in [Guard -> Nat], AskedInOrder(rank), NEW m \in msgs, HandleSign(m)
  PROVE  ExchangeOut' /\ AskedInOrder(rank)'
<1> PICK g : g = m.to
  OBVIOUS
<1> PICK q : q = Queued(g)
  OBVIOUS
<1> DEFINE y == IF Better(g, m.tx, q.sign) THEN m.tx ELSE q.sign
           en == [q EXCEPT !.sign = y]
           mine == g \in Signers(en.sign) \ en.sign.signed /\ ~Complete(en.sign)
<1>1. /\ m \in SignMsg /\ m.type = "sign" /\ g \in Guard /\ m.tx \in Signs /\ m.tx # NoSign
      /\ q \in Entry /\ EntryBound(g, q) /\ MessageBound(m) /\ q.sign = Held(g)
  <2>1. m \in SignMsg
    BY DEF HandleSign, TypeOK, CommitmentMsg
  <2>2. m.type = "sign" /\ g \in Guard /\ m.tx \in Signs
    BY <2>1 DEF SignMsg
  <2> QED
    BY <2>1, <2>2, QueuedType, QueuedBound DEF BindInv, Held
<1>2. q.secret = 1 /\ Agrees(g, q, m)
  BY <1>1 DEF HandleSign, Verified, ExchangeOut, AskedOnce
<1>3. /\ y \in Transcripts /\ y \in Signs /\ y # NoSign /\ Partly(y) /\ g \in Signers(y)
      /\ Others(g, y) >= Others(g, m.tx)
      /\ q.sign # NoSign => Others(g, y) >= Others(g, q.sign)
  <2>1. m.tx \in Transcripts /\ g \in Signers(m.tx)
    BY <1>1, TranscriptIs DEF ExchangeOut, SignsOut
  <2>2. Others(g, m.tx) \in Nat /\ (q.sign # NoSign => Others(g, q.sign) \in Nat)
    BY <1>1, SignedFinite DEF Entry
  <2>3. CASE Better(g, m.tx, q.sign)
    <3>1. q.sign # NoSign => Others(g, m.tx) > Others(g, q.sign)
      BY <2>3 DEF Better, Others
    <3> QED
      BY <1>1, <2>1, <2>2, <2>3, <3>1 DEF ExchangeOut, SignsOut
  <2>4. CASE ~Better(g, m.tx, q.sign)
    <3>1. q.sign # NoSign /\ ~(Others(g, m.tx) > Others(g, q.sign)) /\ y = q.sign
      BY <2>4 DEF Better, Others
    <3>2. q.sign \in Transcripts /\ g \in Signers(q.sign) /\ q.sign \in Signs
      BY <1>1, <3>1, TranscriptIs DEF ExchangeOut, SignsOut, Entry
    <3> HIDE DEF y
    <3> QED
      BY <2>2, <3>1, <3>2 DEF ExchangeOut, SignsOut
  <2> QED
    BY <2>3, <2>4
<1>4. EntryBound(g, en) /\ en \in Entry /\ en.sign = y /\ en.secret = 1 /\ en.commitments = q.commitments
  <2>1. en \in Entry /\ en.sign = y /\ en.secret = 1 /\ en.commitments = q.commitments
    BY <1>1, <1>2, <1>3 DEF Entry
  <2>2. CASE Better(g, m.tx, q.sign)
    <3>1. en = [q EXCEPT !.sign = m.tx]
      BY <2>2
    <3>2. EntryBound(m.to, [q EXCEPT !.sign = m.tx])
      BY <1>1, <1>2, StoredBound
    <3> QED
      BY <2>1, <3>1, <3>2
  <2>3. CASE ~Better(g, m.tx, q.sign)
    <3>1. en = q
      BY <1>1, <2>3 DEF Entry
    <3> QED
      BY <1>1, <2>1, <3>1
  <2> QED
    BY <2>2, <2>3
<1>5. PICK x \in IF mine THEN GeneratedSigns(g, en) ELSE {en.sign} :
        /\ msgs' = (msgs \ {m}) \cup Announced(g, en, x)
        /\ ProcessResolve(g, [en EXCEPT !.sign = x], FALSE)
  BY DEF HandleSign, ChainFails, Undecided
<1>6. secrets' = secrets /\ timers' = timers
  BY DEF HandleSign
<1>7. mine <=> g \notin y.signed
  BY <1>3, <1>4 DEF Partly
<1> HIDE DEF en, y, mine
<1>8. \/ x = y /\ (g \in y.signed \/ Cardinality(Known(g, y, en)) < RequiredSigner)
      \/ g \notin y.signed /\ x \in Signs /\ x.bound = y.bound /\ x.signed = y.signed \cup {g}
  <2>1. CASE g \in y.signed
    BY <1>4, <1>5, <1>7, <2>1
  <2>2. CASE g \notin y.signed /\ Cardinality(Known(g, y, en)) < RequiredSigner
    <3>1. NextSigns(g, en) = {}
      BY <1>4, <2>2 DEF NextSigns
    <3> QED
      BY <1>3, <1>4, <1>5, <1>7, <2>2, <3>1 DEF GeneratedSigns
  <2>3. CASE g \notin y.signed /\ ~(Cardinality(Known(g, y, en)) < RequiredSigner)
    <3>1. NextSigns(g, en) # {}
      BY <1>4, <2>3 DEF NextSigns
    <3>2. x \in NextSigns(g, en)
      BY <1>3, <1>4, <1>5, <1>7, <2>3, <3>1 DEF GeneratedSigns
    <3> QED
      BY <1>1, <1>3, <1>4, <2>3, <3>2, NextSignsType
  <2> QED
    BY <2>1, <2>2, <2>3
<1>9. /\ x \in Signs /\ Signers(x) = Signers(y) /\ g \in Signers(x) /\ Honest(x)
      /\ Others(g, x) = Others(g, y)
  BY <1>3, <1>8 DEF Signers, Honest, Partly, Others
<1> DEFINE new == [en EXCEPT !.sign = x]
<1>10. /\ new = [q EXCEPT !.sign = x] /\ new \in Entry /\ new.sign = x
       /\ EntryBound(g, new) /\ ProcessResolve(g, new, FALSE)
  <2>1. EntryBound(g, [en EXCEPT !.sign = x])
    BY <1>1, <1>4, <1>5, GeneratedBound
  <2>2. new = [q EXCEPT !.sign = x]
    BY <1>1 DEF en, Entry
  <2> QED
    BY <1>4, <1>5, <1>9, <2>1, <2>2 DEF Entry
<1> HIDE DEF new
<1>11. entry' = [entry EXCEPT ![g] = new] /\ outcome' = outcome /\ ~Complete(x)
  <2>1. new.sign # NoSign => Honest(new.sign)
    BY <1>9, <1>10
  <2>2. entry' = [entry EXCEPT ![g] = new] /\ outcome' = outcome /\ ~Complete(new.sign)
    BY <1>1, <1>10, <2>1, ResolvesNothing
  <2> QED
    BY <1>10, <2>2
<1>12. Partly(x)
  BY <1>3, <1>8, <1>9, <1>11 DEF Partly
<1>13. g \in x.signed \/ Cardinality(Known(g, x, Queued(g))) < RequiredSigner
  <2>1. Known(g, y, en) = Known(g, y, q)
    BY <1>4 DEF Known, Committed
  <2> QED
    BY <1>8, <2>1
<1>14. \A n \in msgs : \/ n \in msgs'
                       \/ /\ n.type = "sign" /\ n.to = g
                          /\ g \notin n.tx.signed => Others(g, x) >= Cardinality(n.tx.signed)
  <2>1. g \notin m.tx.signed => Others(g, x) >= Cardinality(m.tx.signed)
    BY <1>1, <1>3, <1>9, SignedFinite
  <2>2. \A n \in msgs : n \in msgs' \/ n = m
    BY <1>5
  <2> QED
    BY <1>1, <2>1, <2>2
<1>15. \A n \in msgs' : \/ n \in msgs
                        \/ /\ n.type = "sign" /\ n.tx = x /\ n.to \in Signers(x)
                           /\ \A h \in Guard : n.commitments[h] \in {0, 1}
  BY <1>1, <1>4, <1>5, <1>11, AnnouncedToSigners
<1>16. \/ x \in Transcripts
       \/ \A h \in Signers(x) \ x.signed : \E n \in msgs' : n.type = "sign" /\ n.to = h /\ n.tx = x
  <2>1. CASE x = y
    BY <1>3, <2>1
  <2>2. CASE x # y
    <3>1. g \in x.signed
      BY <1>8, <2>2
    <3>2. \A h \in Signers(x) \ {g} : \E n \in Announced(g, en, x) : n.type = "sign" /\ n.to = h /\ n.tx = x
      BY <1>1, <1>4, <1>11, <2>2, AnnouncedToSigners
    <3> QED
      BY <1>5, <3>1, <3>2
  <2> QED
    BY <2>1, <2>2
<1>17. \A h \in Signers(x) : \E z \in Transcripts : h \in Signers(z)
  BY <1>3, <1>9
<1>18. entry' = [entry EXCEPT ![g] = [Queued(g) EXCEPT !.sign = x]]
  BY <1>10, <1>11
<1>19. Held(g) # NoSign => Others(g, x) >= Others(g, Held(g))
  BY <1>1, <1>3, <1>9
<1> QED
  BY <1>1, <1>6, <1>9, <1>11, <1>12, <1>13, <1>14, <1>15, <1>16, <1>17, <1>18, <1>19, StoreStep

LEMMA ExchangeStep ==
  AllRegistered /\ TypeOK /\ BindInv /\ ExchangeInv /\ [Next]_vars => ExchangeInv'
<1> SUFFICES ASSUME AllRegistered, TypeOK, BindInv, ExchangeInv, [Next]_vars, Undecided'
             PROVE  ExchangeOut' /\ \E later \in [Guard -> Nat] : AskedInOrder(later)'
  BY DEF ExchangeInv
<1>1. Undecided
  BY UndecidedBefore
<1>2. PICK rank \in [Guard -> Nat] : ExchangeOut /\ AskedInOrder(rank)
  BY <1>1 DEF ExchangeInv
<1>3. ASSUME NEW g \in Guard, Sign(g)
      PROVE  ExchangeOut' /\ \E later \in [Guard -> Nat] : AskedInOrder(later)'
  BY <1>2, <1>3, AskStep
<1>4. ASSUME NEW g \in Guard, DelayedGenerateSign(g) PROVE ExchangeOut' /\ AskedInOrder(rank)'
  BY <1>1, <1>2, <1>4, DelayedStep
<1>5. ASSUME NEW m \in msgs, HandleCommitment(m) PROVE ExchangeOut' /\ AskedInOrder(rank)'
  BY <1>2, <1>5, CommitmentStep
<1>6. ASSUME NEW m \in msgs, RefuseSign(m) PROVE FALSE
  BY <1>1, <1>2, <1>6, NothingRefused
<1>7. ASSUME NEW m \in msgs, HandleSign(m) PROVE ExchangeOut' /\ AskedInOrder(rank)'
  BY <1>1, <1>2, <1>7, ReceiveStep
<1>8. ASSUME NEW g \in Guard, Cleanup(g) \/ Crash(g) PROVE FALSE
  BY <1>8 DEF Cleanup, Crash, Undecided
<1>9. CASE UNCHANGED vars
  <2>1. ExchangeOut' /\ AskedInOrder(rank)'
    <3>1. \A h \in Guard : Queued(h)' = Queued(h)
      BY <1>9 DEF Queued, vars
    <3> QED
      BY <1>2, <1>9, <3>1, NothingStep DEF vars
  <2> QED
    BY <2>1
<1> QED
  BY <1>3, <1>4, <1>5, <1>6, <1>7, <1>8, <1>9 DEF Next

LEMMA ExchangeInit == Init => ExchangeInv
<1> SUFFICES ASSUME Init PROVE ExchangeOut /\ \E rank \in [Guard -> Nat] : AskedInOrder(rank)
  BY DEF ExchangeInv
<1>1. \A g \in Guard : Queued(g) = NewEntry /\ Held(g) = NoSign /\ ~Asked(g)
  BY DEF Init, Queued, Held, NewEntry, Asked
<1>2. Transcripts = {} /\ msgs = {}
  BY DEF Transcripts, Init
<1>3. ExchangeOut
  BY <1>1, <1>2 DEF ExchangeOut, AskedOnce, CommitmentsKnown, SignsOut, AllReached, Waiting, Init,
    NewEntry, Committed
<1>4. AskedInOrder([g \in Guard |-> 0])
  BY <1>1, <1>2, AskedFinite DEF AskedInOrder
<1>5. [g \in Guard |-> 0] \in [Guard -> Nat]
  OBVIOUS
<1> QED
  BY <1>3, <1>4, <1>5

\* Who asked first has the commitments of all others, which came after it was
\* asked, and makes a first signature.
LEMMA SomebodySigns ==
  ASSUME TypeOK, ExchangeOut, NEW rank \in [Guard -> Nat], AskedInOrder(rank),
         RequiredSigner >= 2, RequiredSigner <= Cardinality(Guard),
         msgs = {}, \A g \in Guard : Asked(g) /\ timers[g] = 0
  PROVE  Transcripts # {}
<1> SUFFICES ASSUME Transcripts = {} PROVE FALSE
  OBVIOUS
<1>1. \A g \in Guard : Held(g) = NoSign
  BY TranscriptIs
<1> PICK n : n = Cardinality(Guard)
  OBVIOUS
<1>2. n \in Nat /\ n >= 2 /\ \A g \in Guard : rank[g] \in Nat /\ rank[g] <= n
  BY AskedFinite DEF AskedInOrder
<1>3. PICK g \in Guard : \A w \in Guard : rank[g] <= rank[w]
  <2> DEFINE T == {n - rank[w] : w \in Guard}
  <2>1. T \in SUBSET Nat /\ \A k \in T : k <= n
    BY <1>2
  <2>2. T # {}
    <3>1. Guard # {}
      BY <1>2, FS_EmptySet
    <3> QED
      BY <3>1
  <2>3. PICK k \in T : \A j \in T : j <= k
    <3> HIDE DEF T
    <3> QED
      BY <1>2, <2>1, <2>2, Greatest
  <2>4. PICK g \in Guard : k = n - rank[g]
    OBVIOUS
  <2>5. ASSUME NEW w \in Guard PROVE rank[g] <= rank[w]
    <3>1. n - rank[w] <= n - rank[g]
      BY <2>3, <2>4
    <3> QED
      BY <1>2, <3>1
  <2> QED
    BY <2>5
<1>4. Cardinality(Guard \ {g}) = n - 1
  BY <1>2, FS_RemoveElement
<1>5. Guard \ {g} \subseteq Committed(Queued(g))
  <2> SUFFICES ASSUME NEW w \in Guard \ {g} PROVE Queued(g).commitments[w] # 0
    BY DEF Committed
  <2> QED
    BY <1>1 DEF ExchangeOut, CommitmentsKnown
<1>6. Cardinality(Committed(Queued(g))) >= n - 1
  BY <1>4, <1>5, CommittedFinite, FS_Subset
<1>7. PICK w \in Guard \ {g} : TRUE
  <2>1. Guard \ {g} # {}
    <3>1. Cardinality(Guard \ {g}) # 0
      BY <1>2, <1>4
    <3> QED
      BY <3>1, FS_EmptySet
  <2> QED
    BY <2>1
<1>8. WillSign(rank, g)
  BY <1>1 DEF AskedInOrder
<1>9. rank[w] < rank[g]
  <2>1. ~(Cardinality(Committed(Queued(g))) < RequiredSigner - 1)
    BY <1>2, <1>6, CommittedFinite
  <2> QED
    BY <1>5, <1>7, <1>8, <2>1 DEF WillSign
<1> QED
  BY <1>2, <1>3, <1>9

\* Of those who wait with as many signatures as anybody has, the one that was
\* asked last waits for nobody.
LEMMA NobodyWaits ==
  ASSUME TypeOK, ExchangeOut, NEW rank \in [Guard -> Nat], AskedInOrder(rank),
         RequiredSigner >= 2, msgs = {}, Transcripts # {}
  PROVE  FALSE
<1>1. ASSUME NEW x \in Transcripts
      PROVE  /\ x \in Signs /\ Partly(x) /\ Cardinality(x.signed) \in Nat
             /\ Cardinality(x.signed) < RequiredSigner /\ Cardinality(x.signed) # 0
  <2>1. x \in Signs /\ Partly(x)
    BY TranscriptType DEF ExchangeOut, SignsOut
  <2>2. Cardinality(x.signed) \in Nat /\ IsFiniteSet(x.signed)
    BY <2>1, SignedFinite
  <2>3. x # NoSign /\ x.signed # {}
    BY <2>1 DEF Partly
  <2> QED
    BY <2>1, <2>2, <2>3, FS_EmptySet DEF Partly, Complete
<1>2. PICK x0 \in Transcripts : \A x \in Transcripts : Cardinality(x.signed) <= Cardinality(x0.signed)
  <2> DEFINE T == {Cardinality(x.signed) : x \in Transcripts}
  <2>1. T \in SUBSET Nat /\ T # {} /\ \A k \in T : k <= RequiredSigner
    BY <1>1
  <2>2. PICK k \in T : \A j \in T : j <= k
    <3> HIDE DEF T
    <3> QED
      BY <2>1, Greatest
  <2> QED
    BY <2>2
<1> PICK s : s = Cardinality(x0.signed)
  OBVIOUS
<1>3. s \in Nat /\ s >= 1 /\ s < RequiredSigner
  BY <1>1, <1>2
<1> DEFINE S == {h \in Guard : \E x \in Transcripts :
                   Cardinality(x.signed) = s /\ h \in Signers(x) \ x.signed}
<1>4. S # {}
  <2>1. x0.signed \subseteq Signers(x0) /\ x0.signed # Signers(x0)
    BY <1>1, <1>2 DEF Partly
  <2>2. PICK h \in Signers(x0) : h \notin x0.signed
    BY <2>1
  <2> QED
    BY <2>2 DEF Signers
<1>5. PICK h \in S : \A w \in S : rank[w] <= rank[h]
  <2> DEFINE T == {rank[w] : w \in S}
  <2>1. T \in SUBSET Nat /\ T # {}
    BY <1>4
  <2>2. PICK n \in Nat : \A k \in T : k <= n
    <3>1. \A k \in T : k <= Cardinality(AskedSet)
      BY DEF AskedInOrder
    <3> QED
      BY <3>1, AskedFinite
  <2>3. PICK k \in T : \A j \in T : j <= k
    <3> HIDE DEF T
    <3> QED
      BY <2>1, <2>2, Greatest
  <2> QED
    BY <2>3
<1>6. PICK x \in Transcripts : Cardinality(x.signed) = s /\ h \in Signers(x) \ x.signed
  OBVIOUS
<1>7. h \in Guard
  OBVIOUS
<1> PICK y : y = Held(h)
  OBVIOUS
<1>8. y # NoSign /\ Others(h, y) >= s
  BY <1>6 DEF ExchangeOut, AllReached, Reached
<1>9. y \in Transcripts /\ h \in Signers(y) /\ Cardinality(y.signed) <= s
  BY <1>2, <1>7, <1>8, TranscriptIs DEF ExchangeOut, SignsOut
<1>10. h \notin y.signed /\ Cardinality(y.signed) = s
  <2>1. /\ IsFiniteSet(y.signed) /\ Cardinality(y.signed) \in Nat
        /\ Others(h, y) <= Cardinality(y.signed) /\ Others(h, y) \in Nat
    BY <1>1, <1>9, SignedFinite
  <2>2. h \in y.signed => Others(h, y) = Cardinality(y.signed) - 1
    BY <2>1, FS_RemoveElement DEF Others
  <2> QED
    BY <1>3, <1>8, <1>9, <2>1, <2>2
<1> PICK k : k = Known(h, y, Queued(h))
  OBVIOUS
<1>11. /\ k = y.signed \cup {h} \cup (Signers(y) \cap Committed(Queued(h)))
       /\ IsFiniteSet(k) /\ Cardinality(k) \in Nat /\ Cardinality(k) < RequiredSigner
  <2>1. k = y.signed \cup {h} \cup (Signers(y) \cap Committed(Queued(h)))
    BY DEF Known
  <2>2. k \subseteq Guard
    BY <1>1, <1>7, <1>9, <2>1, SignedFinite DEF Signs
  <2>3. Cardinality(k) < RequiredSigner
    BY <1>7, <1>8, <1>10 DEF ExchangeOut, Waiting
  <2> QED
    BY <2>1, <2>2, <2>3, FS_Subset, FS_CardinalityType
<1>12. CASE RequiredSigner = 2
  <2>1. IsFiniteSet(y.signed) /\ Cardinality(y.signed \cup {h}) = s + 1
    <3>1. IsFiniteSet(y.signed)
      BY <1>1, <1>9, SignedFinite
    <3>2. Cardinality(y.signed \cup {h}) = Cardinality(y.signed) + 1
      BY <1>10, <3>1, FS_AddElement, Zenon
    <3> QED
      BY <1>10, <3>1, <3>2
  <2>2. y.signed \cup {h} \subseteq k
    <3>1. k = y.signed \cup {h} \cup (Signers(y) \cap Committed(Queued(h)))
      BY <1>11
    <3> QED
      BY <3>1, Zenon
  <2>3. Cardinality(y.signed \cup {h}) <= Cardinality(k)
    BY <1>11, <2>2, FS_Subset
  <2> QED
    BY <1>3, <1>11, <1>12, <2>1, <2>3
<1>13. CASE RequiredSigner > 2
  <2>1. PICK w \in Signers(y) : w \notin k
    <3> SUFFICES ASSUME Signers(y) \subseteq k PROVE FALSE
      OBVIOUS
    <3>1. Cardinality(Signers(y)) <= Cardinality(k) /\ Cardinality(Signers(y)) = RequiredSigner
      BY <1>1, <1>9, <1>11, FS_Subset DEF Partly
    <3> QED
      BY <1>11, <3>1
  <2>2. w \in Guard /\ w # h /\ w \notin y.signed /\ Queued(h).commitments[w] = 0 /\ Asked(w)
    BY <1>1, <1>9, <1>11, <2>1 DEF Partly, Signers, Committed
  <2>3. w \in S
    BY <1>9, <1>10, <2>1, <2>2
  <2>4. MissesLater(rank, h)
    BY <1>9, <1>13 DEF AskedInOrder
  <2>5. rank[h] < rank[w]
    BY <2>2, <2>4 DEF MissesLater
  <2>6. rank[w] <= rank[h]
    BY <1>5, <2>3
  <2> QED
    BY <1>7, <2>2, <2>5, <2>6
<1> QED
  BY <1>12, <1>13

(***************************************************************************)
(* If at least two guards must sign and there are enough of them, and all  *)
(* know each other's peer ids, then an exchange in which all are asked,    *)
(* nothing is lost or too late and nobody gives up ends with a signed      *)
(* transaction, whatever first signatures are made at the same time, by    *)
(* whom and for whom, and however late a guard is asked.                   *)
(***************************************************************************)
THEOREM ExchangeEnds ==
  ASSUME AllRegistered, RequiredSigner >= 2, RequiredSigner <= Cardinality(Guard)
  PROVE  Spec => []ExchangeEndsSigned
<1>1. TypeOK /\ ExchangeInv => ExchangeEndsSigned
  <2> SUFFICES ASSUME TypeOK, ExchangeInv, disturbed = {}, msgs = {},
                      \A g \in Guard : outcome[g] # "none" /\ timers[g] = 0,
                      \A g \in Guard : outcome[g] # "signed"
               PROVE  FALSE
    BY DEF ExchangeEndsSigned
  <2>1. PICK rank \in [Guard -> Nat] : ExchangeOut /\ AskedInOrder(rank)
    BY DEF ExchangeInv, Undecided
  <2>2. \A g \in Guard : Asked(g) /\ timers[g] = 0
    BY <2>1 DEF ExchangeOut, AskedOnce, Asked
  <2> QED
    BY <2>1, <2>2, SomebodySigns, NobodyWaits
<1>2. TypeOK /\ BindInv /\ ExchangeInv /\ [Next]_vars => ExchangeInv'
  BY ExchangeStep
<1> QED
  BY <1>1, <1>2, ExchangeInit, BindInit, BindStep, TypeCorrect, PTL DEF Spec
=============================================================================

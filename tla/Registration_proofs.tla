------------------------- MODULE Registration_proofs -------------------------
(***************************************************************************)
(* Proofs about Registration, for every set of guards, every succession of *)
(* lists and every number of updates, crashes and lost messages.           *)
(***************************************************************************)
EXTENDS Registration, SequenceTheorems, TLAPS

-----------------------------------------------------------------------------
(* Types.                                                                  *)

LEMMA PositionInList == \A list \in Seq(Guard) : \A g \in Range(list) :
  Position(g, list) \in DOMAIN list /\ list[Position(g, list)] = g
BY DEF Position, Range

LEMMA ListsTyped == \A k \in DOMAIN Lists : Lists[k] \in Seq(Guard)
BY RegistrationAssumption

LEMMA NoIdsTyped == \A list \in Seq(Guard) :
  /\ NoIds(list) \in Seq(Guard \cup {NoGuard})
  /\ DOMAIN NoIds(list) = DOMAIN list
  /\ \A i \in DOMAIN list : NoIds(list)[i] = NoGuard
BY DEF NoIds

LEMMA MessageTyped == \A m \in Message :
  /\ m.type \in {"register", "approve"} /\ m.from \in Guard /\ m.to \in Guard
  /\ m.index \in Nat /\ m.nonce \in Int /\ m.nonceToSign \in Int
BY DEF Message

LEMMA ApproveTyped ==
  ASSUME TypeOK, NEW m \in msgs, NEW n \in Int
  PROVE  /\ Approve(m, n) \in Message
         /\ Approve(m, n).type = "approve"
         /\ Approve(m, n).from = m.to /\ Approve(m, n).to = m.from
         /\ Approve(m, n).index = index[m.to]
         /\ Approve(m, n).nonceToSign = n
         /\ Approve(m, n).nonce = IF m.type = "register" THEN m.nonce ELSE m.nonceToSign
<1>1. m \in Message
  BY DEF TypeOK
<1> QED
  BY <1>1, MessageTyped DEF Approve, Message, TypeOK

LEMMA UpdateTyped ==
  ASSUME TypeOK, NEW g \in Guard, Update(g)
  PROVE  TypeOK'
<1> DEFINE list == Lists[config]
           i == GetIndex(g, list)
<1>1. list \in Seq(Guard) /\ g \in Range(list)
  BY ListsTyped DEF TypeOK, Update, Registers
<1>2. i \in Nat
  BY <1>1, PositionInList DEF GetIndex, TypeOK
<1>3. updates[g] + 1 \in Nat
  BY DEF TypeOK
<1>4. msgs' \subseteq Message
  BY <1>2, <1>3 DEF Update, Registers, TypeOK, Message
<1>5. /\ peers' \in [Guard -> Seq(Guard)]
      /\ known' \in [Guard -> Seq(Guard \cup {NoGuard})]
      /\ \A h \in Guard : DOMAIN known'[h] = DOMAIN peers'[h]
  BY <1>1, NoIdsTyped DEF Update, Registers, TypeOK, ForgottenIds
<1>6. /\ unapproved' \in [Guard -> SUBSET Challenge]
      /\ index' \in [Guard -> Nat]
      /\ nonce' \in [Guard -> Nat]
      /\ updates' \in [Guard -> Nat]
  BY <1>2, <1>3 DEF Update, Registers, TypeOK
<1>7. cut' \subseteq SUBSET Guard /\ config' \in DOMAIN Lists /\ faults' \in Nat
  BY DEF Update, Registers, TypeOK
<1> QED
  BY <1>4, <1>5, <1>6, <1>7 DEF TypeOK

LEMMA RegisterTyped ==
  ASSUME TypeOK, NEW m \in msgs, HandleRegister(m)
  PROVE  TypeOK'
<1>1. m \in Message
  BY DEF TypeOK
<1>2. -m.nonce \in Int
  BY <1>1, MessageTyped
<1>3. Approve(m, -m.nonce) \in Message
  BY <1>2, ApproveTyped
<1>4. [id |-> m.from, index |-> m.index, challenge |-> -m.nonce] \in Challenge
  BY <1>1, <1>2, MessageTyped DEF Challenge
<1>5. unapproved' \in [Guard -> SUBSET Challenge]
  BY <1>1, <1>4, MessageTyped DEF HandleRegister, TypeOK
<1>6. msgs' \subseteq Message
  BY <1>3 DEF HandleRegister, TypeOK
<1> QED
  BY <1>5, <1>6 DEF HandleRegister, TypeOK

\* what an approval does to the table of who receives it
LEMMA ApproveKnown ==
  ASSUME TypeOK, NEW m \in msgs, HandleApprove(m)
  PROVE  /\ m \in Message /\ m.to \in Guard
         /\ m.index \in DOMAIN peers[m.to] /\ peers[m.to][m.index] = m.from
         /\ known' \in [Guard -> Seq(Guard \cup {NoGuard})]
         /\ \A h \in Guard : DOMAIN known'[h] = DOMAIN known[h]
         /\ \A h \in Guard : \A i \in DOMAIN known[h] :
              \/ known'[h][i] = known[h][i]
              \/ h = m.to /\ i = m.index /\ known'[h][i] = m.from
         /\ Answered(m) \in unapproved[m.to] \/ nonce[m.to] = m.nonce
              => known'[m.to][m.index] = m.from
<1>1. m \in Message /\ m.to \in Guard /\ m.from \in Guard
  BY MessageTyped DEF TypeOK
<1>2. m.index \in DOMAIN peers[m.to] /\ peers[m.to][m.index] = m.from
  BY DEF HandleApprove, Verified
<1>3. m.index \in DOMAIN known[m.to]
  BY <1>1, <1>2 DEF TypeOK
<1> DEFINE row == [known[m.to] EXCEPT ![m.index] = m.from]
<1>4. \/ known' = [known EXCEPT ![m.to] = row]
      \/ /\ known' = known
         /\ ~(Answered(m) \in unapproved[m.to] \/ nonce[m.to] = m.nonce)
  BY <1>1 DEF HandleApprove, TypeOK
<1>5. known[m.to] \in Seq(Guard \cup {NoGuard})
  BY <1>1 DEF TypeOK
<1>6. /\ row \in Seq(Guard \cup {NoGuard})
      /\ DOMAIN row = DOMAIN known[m.to]
      /\ row[m.index] = m.from
      /\ \A i \in DOMAIN known[m.to] : i # m.index => row[i] = known[m.to][i]
  BY <1>1, <1>3, <1>5, ExceptSeq
<1> HIDE DEF row
<1>7. /\ known' \in [Guard -> Seq(Guard \cup {NoGuard})]
      /\ \A h \in Guard : DOMAIN known'[h] = DOMAIN known[h]
  <2>1. known \in [Guard -> Seq(Guard \cup {NoGuard})]
    BY DEF TypeOK
  <2>2. row \in Seq(Guard \cup {NoGuard}) /\ DOMAIN row = DOMAIN known[m.to]
    BY <1>6
  <2>3. known' = [known EXCEPT ![m.to] = row] \/ known' = known
    BY <1>4
  <2>4. CASE known' = known
    BY <2>1, <2>4
  <2>5. CASE known' = [known EXCEPT ![m.to] = row]
    BY <1>1, <2>1, <2>2, <2>5
  <2> QED
    BY <2>3, <2>4, <2>5
<1>8. ASSUME NEW h \in Guard, NEW i \in DOMAIN known[h]
      PROVE  \/ known'[h][i] = known[h][i]
             \/ h = m.to /\ i = m.index /\ known'[h][i] = m.from
  BY <1>1, <1>4, <1>6 DEF TypeOK
<1>9. Answered(m) \in unapproved[m.to] \/ nonce[m.to] = m.nonce
        => known'[m.to][m.index] = m.from
  BY <1>1, <1>4, <1>6 DEF TypeOK
<1> QED
  BY <1>1, <1>2, <1>7, <1>8, <1>9

LEMMA ApproveKeepsType ==
  ASSUME TypeOK, NEW m \in msgs, HandleApprove(m)
  PROVE  TypeOK'
<1>1. Reply(m) \subseteq Message
  BY ApproveTyped DEF Reply
<1>2. msgs' \subseteq Message
  BY <1>1 DEF HandleApprove, TypeOK
<1>3. unapproved' \in [Guard -> SUBSET Challenge]
  BY DEF HandleApprove, TypeOK
<1> QED
  BY <1>2, <1>3, ApproveKnown DEF HandleApprove, TypeOK

LEMMA CrashTyped ==
  ASSUME TypeOK, NEW g \in Guard, Crash(g)
  PROVE  TypeOK'
<1>1. /\ peers' \in [Guard -> Seq(Guard)]
      /\ known' \in [Guard -> Seq(Guard \cup {NoGuard})]
      /\ \A h \in Guard : DOMAIN known'[h] = DOMAIN peers'[h]
  <2>1. <<>> \in Seq(Guard) /\ <<>> \in Seq(Guard \cup {NoGuard})
    OBVIOUS
  <2>2. ASSUME NEW h \in Guard
        PROVE  \/ known'[h] = <<>> /\ peers'[h] = <<>>
               \/ known'[h] = known[h] /\ peers'[h] = peers[h]
    BY DEF Crash, TypeOK
  <2>3. /\ peers' = [peers EXCEPT ![g] = <<>>] /\ known' = [known EXCEPT ![g] = <<>>]
        /\ peers \in [Guard -> Seq(Guard)]
        /\ known \in [Guard -> Seq(Guard \cup {NoGuard})]
        /\ \A h \in Guard : DOMAIN known[h] = DOMAIN peers[h]
    BY DEF Crash, TypeOK
  <2>4. peers' \in [Guard -> Seq(Guard)] /\ known' \in [Guard -> Seq(Guard \cup {NoGuard})]
    BY <2>1, <2>3, Zenon
  <2> QED
    BY <2>2, <2>3, <2>4
<1>2. /\ unapproved' \in [Guard -> SUBSET Challenge]
      /\ index' \in [Guard -> Nat] /\ nonce' \in [Guard -> Nat]
  BY DEF Crash, TypeOK
<1>3. faults' \in Nat /\ UNCHANGED <<config, updates, msgs, cut>>
  BY DEF Crash, TypeOK
<1> QED
  BY <1>1, <1>2, <1>3 DEF TypeOK

LEMMA LoseTyped ==
  ASSUME TypeOK, NEW m \in msgs, Lose(m)
  PROVE  TypeOK'
<1>1. m.from \in Guard /\ m.to \in Guard
  BY MessageTyped DEF TypeOK
<1>2. cut' \subseteq SUBSET Guard
  BY <1>1 DEF Lose, TypeOK
<1>3. msgs' \subseteq Message /\ faults' \in Nat
  BY DEF Lose, TypeOK
<1> QED
  BY <1>2, <1>3 DEF Lose, TypeOK

LEMMA TypePreserved == TypeOK /\ [Next]_vars => TypeOK'
<1> SUFFICES ASSUME TypeOK, [Next]_vars
             PROVE  TypeOK'
  OBVIOUS
<1>1. CASE \E g \in Guard : Update(g)
  BY <1>1, UpdateTyped
<1>2. CASE \E g \in Guard : Crash(g)
  BY <1>2, CrashTyped
<1>3. CASE \E m \in msgs : HandleRegister(m)
  BY <1>3, RegisterTyped
<1>4. CASE \E m \in msgs : HandleApprove(m)
  BY <1>4, ApproveKeepsType
<1>5. CASE \E m \in msgs : Ignore(m)
  BY <1>5 DEF Ignore, TypeOK
<1>6. CASE \E m \in msgs : Lose(m)
  BY <1>6, LoseTyped
<1>7. CASE ConfigChanges
  BY <1>7, RegistrationAssumption DEF ConfigChanges, TypeOK
<1>8. CASE UNCHANGED vars
  BY <1>8 DEF vars, TypeOK
<1> QED
  BY <1>1, <1>2, <1>3, <1>4, <1>5, <1>6, <1>7, <1>8 DEF Next

-----------------------------------------------------------------------------
(* Ids belong to the keys they stand beside.                               *)

\* steps that leave the tables alone
LEMMA OnlyTheseWriteKnown ==
  \/ UNCHANGED <<peers, known>>
  \/ \E g \in Guard : Update(g) \/ Crash(g)
  \/ \E m \in msgs : HandleApprove(m)
  \/ ~[Next]_vars
BY DEF Next, vars, HandleRegister, Ignore, Lose, ConfigChanges

LEMMA KnownByKeyPreserved ==
  TypeOK /\ KnownByKey /\ [Next]_vars => KnownByKey'
<1> SUFFICES ASSUME TypeOK, KnownByKey, [Next]_vars
             PROVE  KnownByKey'
  OBVIOUS
<1>1. CASE UNCHANGED <<peers, known>>
  BY <1>1 DEF KnownByKey
<1>2. ASSUME NEW g \in Guard, Update(g)
      PROVE  KnownByKey'
  <2>1. Lists[config] \in Seq(Guard)
    BY ListsTyped DEF TypeOK
  <2>2. ASSUME NEW h \in Guard, NEW i \in DOMAIN peers'[h]
        PROVE  known'[h][i] \in {NoGuard, peers'[h][i]}
    <3>1. CASE h = g
      BY <1>2, <2>1, <2>2, <3>1, NoIdsTyped DEF Update, Registers, ForgottenIds, TypeOK
    <3>2. CASE h # g
      BY <1>2, <2>2, <3>2 DEF Update, Registers, TypeOK, KnownByKey
    <3> QED
      BY <3>1, <3>2
  <2> QED
    BY <2>2 DEF KnownByKey
<1>3. ASSUME NEW g \in Guard, Crash(g)
      PROVE  KnownByKey'
  <2>1. ASSUME NEW h \in Guard
        PROVE  \/ peers'[h] = <<>>
               \/ peers'[h] = peers[h] /\ known'[h] = known[h]
    BY <1>3 DEF Crash, TypeOK
  <2>2. DOMAIN <<>> = {}
    OBVIOUS
  <2> QED
    BY <2>1, <2>2 DEF KnownByKey
<1>4. ASSUME NEW m \in msgs, HandleApprove(m)
      PROVE  KnownByKey'
  <2>1. peers' = peers
    BY <1>4 DEF HandleApprove
  <2>2. ASSUME NEW h \in Guard, NEW i \in DOMAIN peers[h]
        PROVE  known'[h][i] \in {NoGuard, peers[h][i]}
    <3>1. i \in DOMAIN known[h]
      BY <2>2 DEF TypeOK
    <3> QED
      BY <1>4, <2>2, <3>1, ApproveKnown DEF KnownByKey
  <2> QED
    BY <2>1, <2>2 DEF KnownByKey
<1> QED
  BY <1>1, <1>2, <1>3, <1>4, OnlyTheseWriteKnown

-----------------------------------------------------------------------------
(* Two guards together: what a step leaves of the way to knowing.          *)

Registered == \A g \in Guard : peers[g] # <<>> => nonce[g] # 0

LEMMA RegisteredPreserved == TypeOK /\ Registered /\ [Next]_vars => Registered'
<1> SUFFICES ASSUME TypeOK, Registered, [Next]_vars
             PROVE  Registered'
  OBVIOUS
<1>1. ASSUME NEW g \in Guard, Update(g)
      PROVE  Registered'
  <2>1. updates[g] + 1 # 0
    BY DEF TypeOK
  <2> QED
    BY <1>1, <2>1 DEF Update, Registers, TypeOK, Registered
<1>2. ASSUME NEW g \in Guard, Crash(g)
      PROVE  Registered'
  BY <1>2 DEF Crash, TypeOK, Registered
<1>3. CASE UNCHANGED <<peers, nonce>>
  BY <1>3 DEF Registered
<1> QED
  BY <1>1, <1>2, <1>3 DEF Next, vars, HandleRegister, HandleApprove, Ignore,
     Lose, ConfigChanges

Pairwise == \A g, h \in Guard : Together(g, h) => WillKnow(g, h)

\* what is between g and h is as it was
Same(g, h) == UNCHANGED <<peers[g], peers[h], index[g], index[h], nonce[g], nonce[h]>>

\* the messages that matter are accepted by who receives them
LEMMA TogetherVerified ==
  ASSUME NEW g \in Guard, NEW h \in Guard, Together(g, h), NEW m \in msgs,
         \/ m.from = g /\ m.to = h /\ m.index = index[g]
         \/ m.from = h /\ m.to = g /\ m.index = index[h]
  PROVE  Verified(m)
BY DEF Together, InPlace, Verified

LEMMA UpdateKeepsPairwise ==
  ASSUME TypeOK, Pairwise, NEW k \in Guard, Update(k),
         NEW g \in Guard, NEW h \in Guard, Together(g, h)'
  PROVE  WillKnow(g, h)'
<1> DEFINE i == GetIndex(k, Lists[config])
           reg(to) == [type |-> "register", from |-> k, to |-> to, index |-> i,
                       nonce |-> updates[k] + 1, nonceToSign |-> 0]
<1>1. ASSUME NEW to \in Guard \ {k}
      PROVE  reg(to) \in msgs'
  BY DEF Update, Registers
<1>2. index'[k] = i /\ nonce'[k] = updates[k] + 1
  BY DEF Update, Registers, TypeOK
<1>3. g # h
  BY DEF Together
<1>4. CASE k = g
  <2>1. reg(h) \in msgs'
    BY <1>1, <1>3, <1>4
  <2> QED
    BY <1>2, <1>4, <2>1 DEF WillKnow, OnItsWay
<1>5. CASE k = h
  <2>1. reg(g) \in msgs'
    BY <1>1, <1>3, <1>5
  <2> QED
    BY <1>2, <1>5, <2>1 DEF WillKnow, OnItsWay
<1>6. CASE k # g /\ k # h
  <2>1. /\ Same(g, h) /\ known'[g] = known[g]
        /\ unapproved'[g] = unapproved[g] /\ msgs \subseteq msgs'
    BY <1>6 DEF Update, Registers, TypeOK, Same
  <2>2. {g, h} \in cut => {g, h} \in cut'
    BY <1>6 DEF Update, Registers
  <2>3. Together(g, h)
    BY <2>1, <2>2 DEF Together, InPlace, Same
  <2>4. WillKnow(g, h)
    BY <2>3 DEF Pairwise
  <2> QED
    BY <2>1, <2>4 DEF WillKnow, OnItsWay, Challenged, ChallengeOnItsWay, Same
<1> QED
  BY <1>4, <1>5, <1>6

\* a step that takes m away
LEMMA RegisterKeepsPairwise ==
  ASSUME TypeOK, Pairwise, NEW m \in msgs, HandleRegister(m),
         NEW g \in Guard, NEW h \in Guard, Together(g, h)'
  PROVE  WillKnow(g, h)'
<1>1. m \in Message /\ -m.nonce \in Int
  BY MessageTyped DEF TypeOK
<1>2. Same(g, h) /\ known' = known /\ cut' = cut
  BY DEF HandleRegister, Same
<1>3. Together(g, h) /\ WillKnow(g, h)
  BY <1>2 DEF Together, InPlace, Same, Pairwise
<1> DEFINE a == Approve(m, -m.nonce)
<1>4. /\ a \in msgs' /\ a.type = "approve" /\ a.from = m.to /\ a.to = m.from
      /\ a.index = index[m.to] /\ a.nonceToSign = -m.nonce /\ a.nonce = m.nonce
  BY <1>1, ApproveTyped DEF HandleRegister
<1>5. /\ msgs \ {m} \subseteq msgs'
      /\ \A k \in Guard : unapproved[k] \subseteq unapproved'[k]
      /\ [id |-> m.from, index |-> m.index, challenge |-> -m.nonce] \in unapproved'[m.to]
  BY <1>1, MessageTyped DEF HandleRegister, TypeOK
<1>6. m.type = "register"
  BY DEF HandleRegister
<1> HIDE DEF a
<1>7. CASE known[g][index[h]] = h
  BY <1>2, <1>7 DEF WillKnow, Same
<1>8. CASE OnItsWay("register", g, h, nonce[g])
  <2>1. OnItsWay("register", g, h, nonce[g])' \/ OnItsWay("approve", h, g, nonce[g])'
    BY <1>2, <1>4, <1>5, <1>8 DEF OnItsWay, Same
  <2> QED
    BY <2>1 DEF WillKnow
<1>9. CASE OnItsWay("approve", h, g, nonce[g])
  <2>1. OnItsWay("approve", h, g, nonce[g])'
    BY <1>2, <1>5, <1>6, <1>9 DEF OnItsWay, Same
  <2> QED
    BY <2>1 DEF WillKnow
<1>10. CASE OnItsWay("register", h, g, nonce[h])
  <2>1. \/ OnItsWay("register", h, g, nonce[h])'
        \/ Challenged(g, h)' /\ ChallengeOnItsWay(g, h)'
    BY <1>2, <1>4, <1>5, <1>10 DEF OnItsWay, Challenged, ChallengeOnItsWay, Same
  <2> QED
    BY <2>1 DEF WillKnow
<1>11. CASE /\ Challenged(g, h)
            /\ ChallengeOnItsWay(g, h) \/ OnItsWay("approve", h, g, -nonce[h])
  <2>1. Challenged(g, h)'
    BY <1>2, <1>5, <1>11 DEF Challenged, Same
  <2>2. ChallengeOnItsWay(g, h)' \/ OnItsWay("approve", h, g, -nonce[h])'
    BY <1>2, <1>5, <1>6, <1>11 DEF OnItsWay, ChallengeOnItsWay, Same
  <2> QED
    BY <2>1, <2>2 DEF WillKnow
<1> QED
  BY <1>3, <1>7, <1>8, <1>9, <1>10, <1>11 DEF WillKnow

LEMMA ApproveKeepsPairwise ==
  ASSUME TypeOK, Registered, Pairwise, NEW m \in msgs, HandleApprove(m),
         NEW g \in Guard, NEW h \in Guard, Together(g, h)'
  PROVE  WillKnow(g, h)'
<1>1. /\ m \in Message /\ m.to \in Guard /\ m.from \in Guard
      /\ m.nonceToSign \in Int /\ 0 \in Int
  BY MessageTyped DEF TypeOK
<1>2. Same(g, h) /\ cut' = cut
  BY DEF HandleApprove, Same
<1>3. Together(g, h) /\ WillKnow(g, h)
  BY <1>2 DEF Together, InPlace, Same, Pairwise
<1>4. msgs \ {m} \subseteq msgs' /\ m.type = "approve"
  BY DEF HandleApprove
<1>5. index[h] \in DOMAIN known[g] /\ peers[g][index[h]] = h
  BY <1>3 DEF Together, InPlace, TypeOK
\* what g knows is not forgotten
<1>6. known[g][index[h]] = h => known'[g][index'[h]] = h
  BY <1>2, <1>5, ApproveKnown DEF Same
<1>7. CASE known[g][index[h]] = h
  BY <1>6, <1>7 DEF WillKnow
<1>8. CASE OnItsWay("register", g, h, nonce[g])
  <2>1. OnItsWay("register", g, h, nonce[g])'
    BY <1>2, <1>4, <1>8 DEF OnItsWay, Same
  <2> QED
    BY <2>1 DEF WillKnow
<1>9. CASE OnItsWay("approve", h, g, nonce[g])
  <2>1. PICK n \in msgs : /\ n.type = "approve" /\ n.from = h /\ n.to = g
                          /\ n.index = index[h] /\ n.nonce = nonce[g]
    BY <1>9 DEF OnItsWay
  <2>2. CASE n = m
    BY <1>2, <2>1, <2>2, ApproveKnown DEF WillKnow, Same
  <2>3. CASE n # m
    <3>1. OnItsWay("approve", h, g, nonce[g])'
      BY <1>2, <1>4, <2>1, <2>3 DEF OnItsWay, Same
    <3> QED
      BY <3>1 DEF WillKnow
  <2> QED
    BY <2>2, <2>3
<1>10. CASE OnItsWay("register", h, g, nonce[h])
  <2>1. OnItsWay("register", h, g, nonce[h])'
    BY <1>2, <1>4, <1>10 DEF OnItsWay, Same
  <2> QED
    BY <2>1 DEF WillKnow
<1>11. CASE /\ Challenged(g, h)
            /\ ChallengeOnItsWay(g, h) \/ OnItsWay("approve", h, g, -nonce[h])
  <2> DEFINE c == [id |-> h, index |-> index[h], challenge |-> -nonce[h]]
  \* the answer to the challenge, if it is m, is accepted
  <2>1. CASE m.to = g /\ Answered(m) = c
    <3>1. m.from = h /\ m.index = index[h]
      BY <2>1 DEF Answered
    <3> QED
      BY <1>2, <1>11, <2>1, <3>1, ApproveKnown DEF WillKnow, Challenged, Same
  <2>2. CASE ~(m.to = g /\ Answered(m) = c)
    <3>1. Challenged(g, h)'
      BY <1>1, <1>2, <1>11, <2>2 DEF HandleApprove, Challenged, Same, TypeOK
    <3>2. CASE OnItsWay("approve", h, g, -nonce[h])
      <4>1. OnItsWay("approve", h, g, -nonce[h])'
        BY <1>2, <1>4, <2>2, <3>2 DEF OnItsWay, Answered, Same
      <4> QED
        BY <3>1, <4>1 DEF WillKnow
    <3>3. CASE ChallengeOnItsWay(g, h)
      <4>1. PICK n \in msgs : /\ n.type = "approve" /\ n.from = g /\ n.to = h
                              /\ n.index = index[g] /\ n.nonceToSign = -nonce[h]
        BY <3>3 DEF ChallengeOnItsWay
      <4>2. CASE n = m
        <5>1. -nonce[h] # 0
          <6>1. peers[h] # <<>>
            <7>1. DOMAIN <<>> = {}
              OBVIOUS
            <7> QED
              BY <1>3, <7>1 DEF Together, InPlace
          <6>2. nonce[h] # 0 /\ nonce[h] \in Nat
            BY <6>1 DEF Registered, TypeOK
          <6> QED
            BY <6>2
        <5> DEFINE a == Approve(m, 0)
        <5>2. a \in msgs'
          BY <4>1, <4>2, <5>1 DEF HandleApprove, Reply
        <5>3. /\ a.type = "approve" /\ a.from = h /\ a.to = g
              /\ a.index = index[h] /\ a.nonce = -nonce[h]
          BY <1>1, <1>4, <4>1, <4>2, ApproveTyped
        <5> HIDE DEF a
        <5>4. OnItsWay("approve", h, g, -nonce[h])'
          BY <1>2, <5>2, <5>3 DEF OnItsWay, Same
        <5> QED
          BY <3>1, <5>4 DEF WillKnow
      <4>3. CASE n # m
        <5>1. ChallengeOnItsWay(g, h)'
          BY <1>2, <1>4, <4>1, <4>3 DEF ChallengeOnItsWay, Same
        <5> QED
          BY <3>1, <5>1 DEF WillKnow
      <4> QED
        BY <4>2, <4>3
    <3> QED
      BY <1>11, <3>2, <3>3
  <2> QED
    BY <2>1, <2>2
<1> QED
  BY <1>3, <1>7, <1>8, <1>9, <1>10, <1>11 DEF WillKnow

\* a message is dropped that is not one of those, or that cuts its pair
LEMMA DropKeepsPairwise ==
  ASSUME TypeOK, Pairwise, NEW m \in msgs, Ignore(m) \/ Lose(m),
         NEW g \in Guard, NEW h \in Guard, Together(g, h)'
  PROVE  WillKnow(g, h)'
<1>1. /\ Same(g, h) /\ known' = known /\ unapproved' = unapproved
      /\ msgs' = msgs \ {m} /\ cut \subseteq cut'
      /\ ~Verified(m) \/ {m.from, m.to} \in cut'
  BY DEF Ignore, Lose, Same
<1>2. Together(g, h) /\ WillKnow(g, h)
  BY <1>1 DEF Together, InPlace, Same, Pairwise
<1>3. /\ ~(m.from = g /\ m.to = h /\ m.index = index[g])
      /\ ~(m.from = h /\ m.to = g /\ m.index = index[h])
  <2>1. {g, h} \notin cut'
    BY DEF Together
  <2>2. ASSUME \/ m.from = g /\ m.to = h /\ m.index = index[g]
               \/ m.from = h /\ m.to = g /\ m.index = index[h]
        PROVE  FALSE
    <3>1. Verified(m)
      BY <1>2, <2>2, TogetherVerified
    <3>2. {m.from, m.to} = {g, h}
      BY <2>2
    <3> QED
      BY <1>1, <2>1, <3>1, <3>2
  <2> QED
    BY <2>2
<1> QED
  BY <1>1, <1>2, <1>3 DEF WillKnow, OnItsWay, Challenged, ChallengeOnItsWay, Same

LEMMA PairwisePreserved ==
  TypeOK /\ Registered /\ Pairwise /\ [Next]_vars => Pairwise'
<1> SUFFICES ASSUME TypeOK, Registered, Pairwise, [Next]_vars,
                    NEW g \in Guard, NEW h \in Guard, Together(g, h)'
             PROVE  WillKnow(g, h)'
  BY DEF Pairwise
<1>1. CASE \E k \in Guard : Update(k)
  BY <1>1, UpdateKeepsPairwise
<1>2. ASSUME NEW k \in Guard, Crash(k)
      PROVE  WillKnow(g, h)'
  <2>1. k # g /\ k # h
    <3>1. DOMAIN <<>> = {}
      OBVIOUS
    <3> QED
      BY <1>2, <3>1 DEF Crash, TypeOK, Together, InPlace
  <2>2. /\ Same(g, h) /\ known'[g] = known[g] /\ unapproved'[g] = unapproved[g]
        /\ msgs' = msgs /\ cut' = cut
    BY <1>2, <2>1 DEF Crash, TypeOK, Same
  <2>3. Together(g, h) /\ WillKnow(g, h)
    BY <2>2 DEF Together, InPlace, Same, Pairwise
  <2> QED
    BY <2>2, <2>3 DEF WillKnow, OnItsWay, Challenged, ChallengeOnItsWay, Same
<1>3. CASE \E m \in msgs : HandleRegister(m)
  BY <1>3, RegisterKeepsPairwise
<1>4. CASE \E m \in msgs : HandleApprove(m)
  BY <1>4, ApproveKeepsPairwise
<1>5. CASE \E m \in msgs : Ignore(m) \/ Lose(m)
  BY <1>5, DropKeepsPairwise
<1>6. CASE ConfigChanges \/ UNCHANGED vars
  <2>1. /\ Same(g, h) /\ known' = known /\ unapproved' = unapproved
        /\ msgs' = msgs /\ cut' = cut
    BY <1>6 DEF ConfigChanges, vars, Same
  <2>2. Together(g, h) /\ WillKnow(g, h)
    BY <2>1 DEF Together, InPlace, Same, Pairwise
  <2> QED
    BY <2>1, <2>2 DEF WillKnow, OnItsWay, Challenged, ChallengeOnItsWay, Same
<1> QED
  BY <1>1, <1>2, <1>3, <1>4, <1>5, <1>6 DEF Next

-----------------------------------------------------------------------------
LEMMA InitIInv == Init => IInv
<1> SUFFICES ASSUME Init
             PROVE  IInv
  OBVIOUS
<1>1. DOMAIN <<>> = {} /\ 1 \in DOMAIN Lists
  BY RegistrationAssumption
<1>2. TypeOK
  BY <1>1 DEF Init, TypeOK
<1>3. KnownByKey
  BY <1>1 DEF Init, KnownByKey
<1>4. \A g \in Guard : peers[g] = <<>>
  BY DEF Init
<1>5. \A g, h \in Guard : ~Together(g, h)
  BY <1>1, <1>4 DEF Together, InPlace
<1> QED
  BY <1>2, <1>3, <1>4, <1>5 DEF IInv

LEMMA IInvInductive == IInv /\ [Next]_vars => IInv'
<1>1. IInv = (TypeOK /\ KnownByKey /\ Registered /\ Pairwise)
  BY DEF IInv, Registered, Pairwise
<1>2. IInv' = (TypeOK' /\ KnownByKey' /\ Registered' /\ Pairwise')
  BY DEF IInv, Registered, Pairwise
<1> QED
  BY <1>1, <1>2, TypePreserved, KnownByKeyPreserved, RegisteredPreserved,
     PairwisePreserved

(***************************************************************************)
(* The id beside a key is that of the guard whose key it is, through every *)
(* change of the lists.                                                    *)
(***************************************************************************)
THEOREM IdsBelongToKeys == Spec => []KnownByKey
<1>1. IInv => KnownByKey
  BY DEF IInv
<1> QED
  BY <1>1, InitIInv, IInvInductive, PTL DEF Spec

LEMMA NothingLeft == IInv => InTouch
<1> SUFFICES ASSUME IInv, NEW g \in Guard, NEW h \in Guard, Together(g, h),
                    \A m \in msgs : {m.from, m.to} # {g, h}
             PROVE  known[g][index[h]] = h
  BY DEF InTouch
<1>1. WillKnow(g, h)
  BY DEF IInv
<1>2. \A m \in msgs : ~(m.from = g /\ m.to = h) /\ ~(m.from = h /\ m.to = g)
  OBVIOUS
<1> QED
  BY <1>1, <1>2 DEF WillKnow, OnItsWay, ChallengeOnItsWay

(***************************************************************************)
(* Two guards with one list, both in their place, know each other when no  *)
(* message between them is left, for any number of registrations, crashes  *)
(* and lost messages before the last registration of either.               *)
(***************************************************************************)
THEOREM RegistrationIntroduces == Spec => []InTouch
  BY NothingLeft, InitIInv, IInvInductive, PTL DEF Spec
=============================================================================

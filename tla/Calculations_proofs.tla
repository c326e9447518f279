------------------------ MODULE Calculations_proofs ------------------------
(***************************************************************************)
(* Proofs about what the code calculates.  That an event pays out exactly  *)
(* what it locked, that no watcher is rewarded twice, and that the guard   *)
(* who generates a transfer to cold storage and the guards who verify it   *)
(* mean the same thresholds; that what the guards earned is recorded once; *)
(* and that the timers of the jobs meet the turns, for every clock value   *)
(* and every number of guards.                                             *)
(***************************************************************************)
EXTENDS EventOrder, ColdStorage, Revenue, GuardTurn, TLAPS

(* The values these orders are computed from: what a trigger carries and a *)
(* minimum fee box and the configuration hold.                             *)
FeeInputs(event, fee, conf) ==
  /\ event.amount \in Nat /\ event.bridgeFee \in Nat /\ event.networkFee \in Nat
  /\ fee.bridgeFee \in Nat /\ fee.networkFee \in Nat
  /\ fee.feeRatio \in Nat /\ fee.feeRatioDivisor \in Nat \ {0}
  /\ fee.rsnRatio \in Nat /\ fee.rsnRatioDivisor \in Nat \ {0}
  /\ conf.watchersSharePercent \in 0 .. 100
  /\ conf.watchersEmissionSharePercent \in 0 .. 100
  /\ conf.minimumErg \in Nat

-----------------------------------------------------------------------------

LEMMA Share ==
  ASSUME NEW total \in Nat, NEW percent \in 0 .. 100, NEW n \in Nat \ {0}
  PROVE  LET share == WatcherShare(total, percent, n)
             part  == (total * percent) \div 100
         IN /\ share \in Nat
            /\ part \in 0 .. total
            /\ part - n * share \in 0 .. n - 1
            /\ GuardShare(total, percent, n) \in 0 .. total
            /\ n * share + GuardShare(total, percent, n) = total
<1> DEFINE part == (total * percent) \div 100
           share == part \div n
<1>1. part \in 0 .. total
  <2>1. total * percent \in Nat /\ total * percent <= total * 100
    OBVIOUS
  <2> QED
    BY <2>1
<1> HIDE DEF part
<1>2. share \in Nat /\ n * share \in Nat /\ n * share <= part /\ part < n * share + n
  BY <1>1
<1> HIDE DEF share
<1>3. WatcherShare(total, percent, n) = share
  BY DEF WatcherShare, share, part
<1>4. GuardShare(total, percent, n) = total - n * share
  BY <1>3 DEF GuardShare
<1>5. n * share <= total /\ total - n * share \in 0 .. total
  BY <1>1, <1>2
<1> QED
  BY <1>1, <1>2, <1>3, <1>4, <1>5 DEF part

LEMMA Fees ==
  ASSUME NEW event, NEW fee, NEW conf, FeeInputs(event, fee, conf)
  PROVE  /\ BridgeFee(event, fee) \in Nat
         /\ NetworkFee(event, fee) \in Nat
         /\ EmissionFee(event, fee) \in Nat
<1>1. event.amount * fee.feeRatio \in Nat
  BY DEF FeeInputs
<1>2. (event.amount * fee.feeRatio) \div fee.feeRatioDivisor \in Nat
  BY <1>1 DEF FeeInputs
<1>3. BridgeFee(event, fee) \in Nat
  BY <1>2 DEF FeeInputs, BridgeFee, Higher
<1>4. BridgeFee(event, fee) * fee.rsnRatio \in Nat
  BY <1>3 DEF FeeInputs
<1>5. EmissionFee(event, fee) \in Nat
  BY <1>4 DEF EmissionFee, FeeInputs
<1> QED
  BY <1>3, <1>5 DEF NetworkFee, Higher, FeeInputs

(* Nothing of an event's amount is lost or paid twice: what the user gets  *)
(* on the target chain, the n watchers' shares, the guards' part and the   *)
(* network fee add up to the amount that was locked, whatever is rounded,  *)
(* and the guards' part takes up no more than n - 1 units of what the      *)
(* watchers were entitled to.  The two orders are computed at different    *)
(* times by different functions (eventSinglePayment, eventRewardOrder).    *)
THEOREM AmountConserved ==
  ASSUME NEW event, NEW fee, NEW conf, FeeInputs(event, fee, conf),
         NEW n \in Nat \ {0}
  PROVE  LET total   == BridgeFee(event, fee)
             share   == WatcherShare(total, conf.watchersSharePercent, n)
             guards  == GuardShare(total, conf.watchersSharePercent, n)
             entitled == (total * conf.watchersSharePercent) \div 100
         IN /\ UserAmount(event, fee) + n * share + guards
                 + NetworkFee(event, fee) = event.amount
            /\ share \in Nat /\ guards \in Nat
            /\ entitled - n * share \in 0 .. n - 1
<1> DEFINE total == BridgeFee(event, fee)
           percent == conf.watchersSharePercent
           share == WatcherShare(total, percent, n)
           guards == GuardShare(total, percent, n)
<1>1. total \in Nat /\ NetworkFee(event, fee) \in Nat
      /\ event.amount \in Nat /\ percent \in 0 .. 100
  BY Fees DEF FeeInputs
<1>2. UserAmount(event, fee) = event.amount - total - NetworkFee(event, fee)
  BY DEF UserAmount
<1> HIDE DEF total, percent
<1>3. /\ share \in Nat /\ guards \in 0 .. total
      /\ n * share + guards = total
      /\ ((total * percent) \div 100) - n * share \in 0 .. n - 1
  BY <1>1, Share
<1>4. n * share \in Nat
  BY <1>3
<1> HIDE DEF share, guards
<1>5. /\ UserAmount(event, fee) + n * share + guards + NetworkFee(event, fee)
           = event.amount
      /\ guards \in Nat
  BY <1>1, <1>2, <1>3, <1>4
<1> QED
  BY <1>3, <1>5 DEF total, percent, share, guards

-----------------------------------------------------------------------------

(* The tokens a box of a transaction may hold.                             *)
RealToken == [id : STRING, value : Nat \ {0}]

LEMMA Tokens ==
  ASSUME NEW id \in STRING, NEW value \in Int
  PROVE  /\ value > 0 => Token(id, value) \in Seq(RealToken)
         /\ TokenIfAny(id, value) \in Seq(RealToken)
<1>1. ASSUME value > 0 PROVE Token(id, value) \in Seq(RealToken)
  <2>1. [id |-> id, value |-> value] \in RealToken
    BY <1>1 DEF RealToken
  <2> QED
    BY <2>1 DEF Token
<1>2. TokenIfAny(id, value) \in Seq(RealToken)
  <2>1. CASE value > 0
    BY <1>1, <2>1 DEF TokenIfAny
  <2>2. CASE ~(value > 0)
    <3>1. TokenIfAny(id, value) = <<>>
      BY <2>2 DEF TokenIfAny
    <3> QED
      BY <3>1
  <2> QED
    BY <2>1, <2>2
<1> QED
  BY <1>1, <1>2

(* The boxes of the guards' order.                                         *)
GuardBox == [to : {"bridgeFee", "emission", "networkFee"}, native : Int,
             tokens : Seq(RealToken)]

LEMMA GuardBoxes ==
  ASSUME NEW to \in {"bridgeFee", "emission", "networkFee"}, NEW native \in Int,
         NEW tokens \in Seq(RealToken)
  PROVE  Box(to, native, tokens) \in GuardBox
  BY DEF Box, GuardBox

LEMMA Joined ==
  ASSUME NEW S, NEW s \in Seq(S), NEW t \in Seq(S)
  PROVE  s \o t \in Seq(S)
  OBVIOUS

(* No box of a reward carries an empty token, which Ergo refuses: with     *)
(* shares rounded to nothing the token is left out of the watchers' boxes, *)
(* of the guards' box and the emission box disappears.  Only the network   *)
(* fee's token is written whatever it is, so it has to be positive.        *)
THEOREM NoEmptyToken ==
  ASSUME NEW event, NEW fee, NEW conf, FeeInputs(event, fee, conf),
         NEW rwt, rwt.id \in STRING, rwt.count \in Nat \ {0},
         event.tokenOnErgo \in STRING, conf.emissionTokenId \in STRING,
         NetworkFee(event, fee) > 0,
         NEW permits, Cardinality(permits) \in Nat \ {0}
  PROVE  /\ \A p \in permits :
              WatchersOrder(permits, event, fee, conf, rwt)[p].tokens \in Seq(RealToken)
         /\ \A i \in DOMAIN GuardsOrder(event, fee, conf, Cardinality(permits)) :
              GuardsOrder(event, fee, conf, Cardinality(permits))[i].tokens
                \in Seq(RealToken)
<1> DEFINE n == Cardinality(permits)
           share == WatcherShare(BridgeFee(event, fee), conf.watchersSharePercent, n)
           guards == GuardShare(BridgeFee(event, fee), conf.watchersSharePercent, n)
           emission == WatcherEmission(event, fee, conf, n)
           gEmission == GuardEmission(event, fee, conf, n)
<1> n \in Nat \ {0}
  OBVIOUS
<1> HIDE DEF n
<1>1. /\ BridgeFee(event, fee) \in Nat /\ EmissionFee(event, fee) \in Nat
      /\ NetworkFee(event, fee) \in Nat
      /\ conf.watchersSharePercent \in 0 .. 100
      /\ conf.watchersEmissionSharePercent \in 0 .. 100
  BY Fees DEF FeeInputs
<1>2. share \in Nat /\ guards \in Nat
  <2>1. guards \in 0 .. BridgeFee(event, fee) /\ share \in Nat
    BY <1>1, Share
  <2> QED
    BY <1>1, <2>1
<1>3. emission \in Nat /\ gEmission \in Nat
  <2>1. /\ emission \in Nat
        /\ gEmission \in 0 .. EmissionFee(event, fee)
    BY <1>1, Share DEF WatcherEmission, GuardEmission
  <2> QED
    BY <1>1, <2>1
<1> HIDE DEF share, guards, emission, gEmission
<1>4. /\ Token(rwt.id, rwt.count) \in Seq(RealToken)
      /\ TokenIfAny(event.tokenOnErgo, share) \in Seq(RealToken)
      /\ TokenIfAny(event.tokenOnErgo, guards) \in Seq(RealToken)
      /\ TokenIfAny(conf.emissionTokenId, emission) \in Seq(RealToken)
      /\ Token(event.tokenOnErgo, NetworkFee(event, fee)) \in Seq(RealToken)
      /\ gEmission > 0 =>
           Token(conf.emissionTokenId, gEmission) \in Seq(RealToken)
  <2>1. /\ rwt.count \in Int /\ rwt.count > 0 /\ NetworkFee(event, fee) \in Int
        /\ share \in Int /\ guards \in Int /\ emission \in Int /\ gEmission \in Int
    BY <1>1, <1>2, <1>3
  <2>2. Token(rwt.id, rwt.count) \in Seq(RealToken)
    BY <2>1, Tokens
  <2>3. Token(event.tokenOnErgo, NetworkFee(event, fee)) \in Seq(RealToken)
    BY <2>1, Tokens
  <2>4. /\ TokenIfAny(event.tokenOnErgo, share) \in Seq(RealToken)
        /\ TokenIfAny(event.tokenOnErgo, guards) \in Seq(RealToken)
        /\ TokenIfAny(conf.emissionTokenId, emission) \in Seq(RealToken)
    BY <2>1, Tokens
  <2>5. gEmission > 0 => Token(conf.emissionTokenId, gEmission) \in Seq(RealToken)
    BY <2>1, Tokens
  <2> QED
    BY <2>2, <2>3, <2>4, <2>5
<1>5. \A p \in permits :
        WatchersOrder(permits, event, fee, conf, rwt)[p].tokens \in Seq(RealToken)
  <2>1. /\ Token(rwt.id, rwt.count)
              \o TokenIfAny(event.tokenOnErgo, share) \in Seq(RealToken)
        /\ Token(rwt.id, rwt.count)
              \o TokenIfAny(conf.emissionTokenId, emission) \in Seq(RealToken)
    BY <1>4, Joined
  <2>2. Token(rwt.id, rwt.count) \o TokenIfAny(event.tokenOnErgo, share)
          \o TokenIfAny(conf.emissionTokenId, emission) \in Seq(RealToken)
    BY <1>4, <2>1, Joined
  <2>3. ASSUME NEW p \in permits
        PROVE  /\ ErgWatcherBox(p, event, fee, conf, rwt, n).tokens \in Seq(RealToken)
               /\ TokenWatcherBox(p, event, fee, conf, rwt, n).tokens \in Seq(RealToken)
    BY <2>1, <2>2 DEF ErgWatcherBox, TokenWatcherBox, Box, share, emission
  <2> QED
    BY <2>3 DEF WatchersOrder, n
<1>6. \A i \in DOMAIN GuardsOrder(event, fee, conf, n) :
        GuardsOrder(event, fee, conf, n)[i].tokens \in Seq(RealToken)
  <2>0. /\ conf.minimumErg \in Int
        /\ guards + conf.minimumErg \in Int
        /\ NetworkFee(event, fee) + conf.minimumErg \in Int
        /\ <<>> \in Seq(RealToken)
    BY <1>1, <1>2 DEF FeeInputs
  <2>1. EmissionBoxes(event, fee, conf, n) \in Seq(GuardBox)
    <3>1. CASE gEmission > 0
      <4>1. Box("emission", conf.minimumErg,
                Token(conf.emissionTokenId, gEmission)) \in GuardBox
        BY <1>4, <2>0, <3>1, GuardBoxes
      <4> QED
        BY <3>1, <4>1 DEF EmissionBoxes, gEmission
    <3>2. CASE ~(gEmission > 0)
      BY <3>2 DEF EmissionBoxes, gEmission
    <3> QED
      BY <3>1, <3>2
  <2>2. ErgGuardBoxes(event, fee, conf, n) \in Seq(GuardBox)
    <3>1. /\ Box("bridgeFee", guards + conf.minimumErg, <<>>) \in GuardBox
          /\ Box("networkFee", NetworkFee(event, fee) + conf.minimumErg, <<>>) \in GuardBox
      BY <2>0, GuardBoxes
    <3>2. /\ <<Box("bridgeFee", guards + conf.minimumErg, <<>>)>> \in Seq(GuardBox)
          /\ <<Box("networkFee", NetworkFee(event, fee) + conf.minimumErg, <<>>)>>
               \in Seq(GuardBox)
      BY <3>1
    <3>3. <<Box("bridgeFee", guards + conf.minimumErg, <<>>)>>
            \o EmissionBoxes(event, fee, conf, n) \in Seq(GuardBox)
      BY <2>1, <3>2, Joined
    <3>4. (<<Box("bridgeFee", guards + conf.minimumErg, <<>>)>>
             \o EmissionBoxes(event, fee, conf, n))
            \o <<Box("networkFee", NetworkFee(event, fee) + conf.minimumErg, <<>>)>>
             \in Seq(GuardBox)
      BY <3>2, <3>3, Joined
    <3> QED
      BY <3>4 DEF ErgGuardBoxes, guards
  <2>3. TokenGuardBoxes(event, fee, conf, n) \in Seq(GuardBox)
    <3> DEFINE first == Box("bridgeFee", conf.minimumErg,
                            TokenIfAny(event.tokenOnErgo, guards))
               last  == Box("networkFee", conf.minimumErg,
                            Token(event.tokenOnErgo, NetworkFee(event, fee)))
    <3>1. first \in GuardBox /\ last \in GuardBox
      BY <1>4, <2>0, GuardBoxes
    <3> HIDE DEF first, last
    <3>2. <<first>> \in Seq(GuardBox) /\ <<last>> \in Seq(GuardBox)
      BY <3>1
    <3>3. (<<first>> \o EmissionBoxes(event, fee, conf, n)) \o <<last>> \in Seq(GuardBox)
      <4>1. <<first>> \o EmissionBoxes(event, fee, conf, n) \in Seq(GuardBox)
        BY <2>1, <3>2, Joined
      <4> QED
        BY <3>2, <4>1, Joined
    <3> QED
      BY <3>3 DEF TokenGuardBoxes, guards, first, last
  <2>4. GuardsOrder(event, fee, conf, n) \in Seq(GuardBox)
    BY <2>2, <2>3 DEF GuardsOrder
  <2>5. \A i \in DOMAIN GuardsOrder(event, fee, conf, n) :
          GuardsOrder(event, fee, conf, n)[i] \in GuardBox
    BY <2>4
  <2> QED
    BY <2>5 DEF GuardBox
<1> QED
  BY <1>5, <1>6 DEF n

(* A watcher is rewarded once, whatever commitments are stored for it,     *)
(* duplicated or made too late to be merged: two permits in its name can   *)
(* only be two places in the list of those merged into the trigger, which  *)
(* nothing in the code keeps free of duplicates (only a guard that creates *)
(* the transaction compares the list with the trigger's hash).             *)
THEOREM OnePermitEach ==
  ASSUME NEW merged, NEW permitValue, NEW commitments, NEW rwtCount,
         merged \in Seq(STRING),
         commitments \in Seq([wid : STRING, boxValue : Nat, rwtCount : Nat,
                              genuine : BOOLEAN])
  PROVE  /\ \A p, q \in OutPermits(merged, permitValue, commitments, rwtCount) :
              p.wid = q.wid /\ p # q =>
                /\ p.at \in DOMAIN merged /\ q.at \in DOMAIN merged /\ p.at # q.at
                /\ merged[p.at] = merged[q.at]
         /\ (\A i, j \in DOMAIN merged : merged[i] = merged[j] => i = j) =>
              \A p, q \in OutPermits(merged, permitValue, commitments, rwtCount) :
                p.wid = q.wid => p = q
<1>1. \A c, d \in FirstOfEach(commitments) : c.wid = d.wid => c = d
  <2> SUFFICES ASSUME NEW i \in DOMAIN commitments, NEW k \in DOMAIN commitments,
                      \A j \in 1 .. i - 1 : commitments[j].wid # commitments[i].wid,
                      \A j \in 1 .. k - 1 : commitments[j].wid # commitments[k].wid,
                      commitments[i].wid = commitments[k].wid
               PROVE  i = k
    BY DEF FirstOfEach
  <2>1. i \in Nat \ {0} /\ k \in Nat \ {0}
    OBVIOUS
  <2>2. ~(i < k)
    <3>1. i < k => i \in 1 .. k - 1
      BY <2>1
    <3> QED
      BY <3>1
  <2>3. ~(k < i)
    <3>1. k < i => k \in 1 .. i - 1
      BY <2>1
    <3> QED
      BY <3>1
  <2> QED
    BY <2>1, <2>2, <2>3
<1> DEFINE permits == OutPermits(merged, permitValue, commitments, rwtCount)
           unmerged == Unmerged(commitments, merged, rwtCount)
<1>2. \A p, q \in unmerged : p.wid = q.wid => p = q
  <2> SUFFICES ASSUME NEW c \in FirstOfEach(commitments),
                      NEW d \in FirstOfEach(commitments), c.wid = d.wid
               PROVE  [at |-> 0, wid |-> c.wid, boxValue |-> c.boxValue]
                        = [at |-> 0, wid |-> d.wid, boxValue |-> d.boxValue]
    BY DEF Unmerged
  <2> QED
    BY <1>1
<1>3. \A p \in unmerged, i \in DOMAIN merged : p.wid # merged[i]
  BY DEF Unmerged
<1> HIDE DEF unmerged
<1>4. \A p \in permits :
        \/ p \in unmerged
        \/ p.at \in DOMAIN merged
           /\ p = [at |-> p.at, wid |-> merged[p.at], boxValue |-> permitValue]
  BY DEF OutPermits, unmerged
<1> HIDE DEF permits
<1>5. ASSUME NEW p \in permits, NEW q \in permits, p.wid = q.wid, p # q
      PROVE  /\ p.at \in DOMAIN merged /\ q.at \in DOMAIN merged /\ p.at # q.at
             /\ merged[p.at] = merged[q.at]
  <2>1. p \notin unmerged /\ q \notin unmerged
    BY <1>2, <1>3, <1>4, <1>5
  <2>2. /\ p.at \in DOMAIN merged /\ q.at \in DOMAIN merged
        /\ p = [at |-> p.at, wid |-> merged[p.at], boxValue |-> permitValue]
        /\ q = [at |-> q.at, wid |-> merged[q.at], boxValue |-> permitValue]
    BY <1>4, <2>1
  <2> QED
    BY <1>5, <2>2
<1> QED
  BY <1>5 DEF permits

-----------------------------------------------------------------------------

(* Thresholds as a configuration may set them, and balances as a chain     *)
(* reports them: a token with a balance of nothing is not reported.        *)
Thresholds(conf) ==
  /\ conf.native \notin conf.tokens
  /\ conf.minNative \in Nat /\ conf.maxNativeTransfer \in Nat
  /\ \A t \in conf.tokens \cup {conf.native} :
       conf.low[t] \in Nat /\ conf.high[t] \in Nat /\ conf.low[t] <= conf.high[t]

Balance(assets) ==
  /\ assets.native \in Nat
  /\ \A t \in DOMAIN assets.tokens : assets.tokens[t] \in Nat \ {0}

(* The guards agree to what a guard generates: an order generated from the *)
(* balances and the waiting events that a verifier sees too meets every    *)
(* condition of the verifier.  That takes three things of the              *)
(* configuration which nothing in the code checks: a token's low threshold *)
(* is not 0 (its balance would be moved as a whole, and a verifier wants   *)
(* to find some left), the native thresholds are at least the smallest     *)
(* transfer apart, and that smallest transfer, which every order carries,  *)
(* is within maxNativeTransfer.                                            *)
THEOREM GeneratedIsAccepted ==
  ASSUME NEW lock, Balance(lock), NEW conf, Thresholds(conf),
         NEW forbidden, NEW active,
         \A t \in conf.tokens : conf.low[t] > 0,
         conf.high[conf.native] - conf.low[conf.native] >= conf.minNative,
         conf.minNative <= conf.maxNativeTransfer,
         Generates(lock, conf, forbidden, active)
  PROVE  Accepts(lock, Generated(lock, conf, forbidden), conf, forbidden, active)
<1> DEFINE moved == TokensMoved(lock, conf, forbidden)
           order == Generated(lock, conf, forbidden)
           high == conf.high[conf.native]
           low == conf.low[conf.native]
<1>1. /\ DOMAIN order.tokens = moved
      /\ \A t \in moved : order.tokens[t] = lock.tokens[t] - conf.low[t]
      /\ order.native = Larger(NativeMoved(lock, conf, forbidden), conf.minNative)
  BY DEF Generated
<1>2. /\ active = {}
      /\ NativeMoved(lock, conf, forbidden) > 0 \/ moved # {}
  BY DEF Generates
<1>3. /\ lock.native \in Nat /\ high \in Nat /\ low \in Nat /\ low <= high
      /\ conf.minNative \in Nat /\ conf.maxNativeTransfer \in Nat
  BY DEF Balance, Thresholds
<1> HIDE DEF order
<1>4. ~MovesForbidden(order, forbidden)
  BY <1>1 DEF MovesForbidden, TokensMoved
<1>5. ASSUME NEW t \in moved
      PROVE  t \in DOMAIN lock.tokens /\ TokenTransferRight(lock, order, conf, t)
  <2>1. /\ t \in DOMAIN lock.tokens /\ t \in conf.tokens
        /\ lock.tokens[t] > conf.high[t]
    BY DEF TokensMoved
  <2>2. /\ lock.tokens[t] \in Nat /\ conf.low[t] \in Nat /\ conf.high[t] \in Nat
        /\ conf.low[t] <= conf.high[t] /\ conf.low[t] > 0
    BY <2>1 DEF Balance, Thresholds
  <2>3. Left(lock, order, t) = conf.low[t]
    <3>1. Left(lock, order, t) = lock.tokens[t] - (lock.tokens[t] - conf.low[t])
      BY <1>1 DEF Left
    <3> QED
      BY <3>1, <2>2
  <2> QED
    BY <2>1, <2>2, <2>3 DEF TokenTransferRight
<1>6. NativeTransferRight(lock, order, conf, forbidden)
  <2>1. CASE NativeRequired(lock, conf, forbidden)
    <3>1. NativeMoved(lock, conf, forbidden) = lock.native - low
          /\ lock.native > high
      BY <2>1 DEF NativeRequired, NativeMoved
    <3>2. order.native = lock.native - low
      BY <1>1, <1>3, <3>1 DEF Larger
    <3>3. lock.native - order.native \in low .. high
      BY <1>3, <3>2
    <3> QED
      BY <2>1, <3>3 DEF NativeTransferRight
  <2>2. CASE ~NativeRequired(lock, conf, forbidden)
    <3>1. NativeMoved(lock, conf, forbidden) = 0
      BY <2>2 DEF NativeRequired, NativeMoved
    <3>2. order.native = conf.minNative /\ moved # {}
      BY <1>1, <1>2, <1>3, <3>1 DEF Larger
    <3> QED
      BY <1>1, <2>2, <3>2 DEF NativeTransferRight
  <2> QED
    BY <2>1, <2>2
<1>7. \A other \in active : ~InTransferBy(order, other, conf)
  BY <1>2
<1> QED
  BY <1>1, <1>4, <1>5, <1>6, <1>7 DEF Accepts, order

(* Two transfers in flight at once, the second agreed to while the first   *)
(* is active and both verified over the balance of before: together they   *)
(* still leave every token they move at or above its low threshold.  A     *)
(* native balance that is over its high threshold (and not forbidden) they *)
(* leave at most maxNativeTransfer below the low one; one that is not may  *)
(* lose as much as twice maxNativeTransfer.                                *)
THEOREM TwoTransfersLeaveEnough ==
  ASSUME NEW lock, Balance(lock), NEW conf, Thresholds(conf),
         NEW forbidden, NEW first, Balance(first), NEW second, Balance(second),
         Accepts(lock, first, conf, forbidden, {}),
         Accepts(lock, second, conf, forbidden, {first})
  PROVE  /\ DOMAIN first.tokens \cap DOMAIN second.tokens = {}
         /\ \A t \in DOMAIN first.tokens : Left(lock, first, t) >= conf.low[t]
         /\ \A t \in DOMAIN second.tokens : Left(lock, second, t) >= conf.low[t]
         /\ NativeRequired(lock, conf, forbidden) =>
              lock.native - first.native - second.native
                >= conf.low[conf.native] - conf.maxNativeTransfer
         /\ ~NativeRequired(lock, conf, forbidden) =>
              first.native + second.native <= 2 * conf.maxNativeTransfer
<1>1. /\ DOMAIN first.tokens \cap DOMAIN second.tokens = {}
      /\ \/ ~(first.native > conf.maxNativeTransfer)
         \/ ~(second.native > conf.maxNativeTransfer)
  BY DEF Accepts, InTransferBy
<1>2. ASSUME NEW order, Balance(order), NEW active,
             Accepts(lock, order, conf, forbidden, active)
      PROVE  \A t \in DOMAIN order.tokens : Left(lock, order, t) >= conf.low[t]
  <2> SUFFICES ASSUME NEW t \in DOMAIN order.tokens
               PROVE  Left(lock, order, t) >= conf.low[t]
    OBVIOUS
  <2>1. Left(lock, order, t) \in conf.low[t] .. conf.high[t]
    BY <1>2 DEF Accepts, TokenTransferRight
  <2> QED
    BY <2>1
<1>3. ASSUME NativeRequired(lock, conf, forbidden)
      PROVE  lock.native - first.native - second.native
               >= conf.low[conf.native] - conf.maxNativeTransfer
  <2> DEFINE low == conf.low[conf.native]
             high == conf.high[conf.native]
  <2>1. /\ lock.native - first.native \in low .. high
        /\ lock.native - second.native \in low .. high
    BY <1>3 DEF Accepts, NativeTransferRight
  <2>2. /\ lock.native \in Nat /\ first.native \in Nat /\ second.native \in Nat
        /\ low \in Nat /\ high \in Nat /\ conf.maxNativeTransfer \in Nat
    BY DEF Balance, Thresholds
  <2> HIDE DEF low, high
  <2>3. lock.native - first.native - second.native
          >= low - conf.maxNativeTransfer
    BY <1>1, <2>1, <2>2
  <2> QED
    BY <2>3 DEF low
<1>4. ASSUME ~NativeRequired(lock, conf, forbidden)
      PROVE  first.native + second.native <= 2 * conf.maxNativeTransfer
  <2>1. /\ first.native <= conf.maxNativeTransfer
        /\ second.native <= conf.maxNativeTransfer
    BY <1>4 DEF Accepts, NativeTransferRight
  <2>2. /\ first.native \in Nat /\ second.native \in Nat
        /\ conf.maxNativeTransfer \in Nat
    BY DEF Balance, Thresholds
  <2> QED
    BY <2>1, <2>2
<1> QED
  BY <1>1, <1>2, <1>3, <1>4

-----------------------------------------------------------------------------
(* The record of the revenue (Revenue).                                    *)

LEMMA ElementIn ==
  ASSUME NEW S, NEW s \in Seq(S), NEW i \in 1 .. Len(s)
  PROVE  s[i] \in S
OBVIOUS

LEMMA RevenueTypeStep ==
  ASSUME BoxesTyped, TypeOK, Next
  PROVE  TypeOK'
<1>1. CASE ReadUnsaved
  BY <1>1 DEF ReadUnsaved, TypeOK
<1>2. ASSUME NEW e \in Event, NextEvent(e)
      PROVE  TypeOK'
  BY <1>2 DEF NextEvent, TypeOK, Place
<1>3. ASSUME NEW e \in Event, EndEvent(e)
      PROVE  TypeOK'
  BY <1>3 DEF EndEvent, TypeOK, Place, NoEvent
<1>4. ASSUME NEW e \in Event, NEW b \in Nat, SkipBox(e, b)
      PROVE  TypeOK'
  BY <1>4 DEF SkipBox, TypeOK, Place
<1>5. ASSUME NEW e \in Event, NEW b \in Nat, NEW a \in Nat, InsertRevenue(e, b, a)
      PROVE  TypeOK'
  <2>1. stored' \in [Event -> [Nat \X Nat -> Nat]]
    BY <1>5 DEF InsertRevenue, TypeOK
  <2>2. current' \in Place
    <3>1. current = [event |-> {e}, box |-> b, asset |-> a]
      BY <1>5 DEF InsertRevenue, At
    <3>2. current' \in {[event |-> {e}, box |-> b, asset |-> a + 1],
                        [event |-> {e}, box |-> b + 1, asset |-> 0]}
      BY <1>5, <3>1 DEF InsertRevenue
    <3> QED
      BY <3>2 DEF Place
  <2> QED
    BY <1>5, <2>1, <2>2 DEF InsertRevenue, TypeOK
<1>6. CASE Interrupt
  BY <1>6 DEF Interrupt, TypeOK, Place, NoEvent
<1>7. ASSUME NEW e \in Event, Confirm(e)
      PROVE  TypeOK'
  BY <1>7 DEF Confirm, TypeOK
<1> QED
  BY <1>1, <1>2, <1>3, <1>4, <1>5, <1>6, <1>7 DEF Next, RevenueJob

\* the last conjuncts of Revenue's IInv, under names of their own
InPlace == \A e \in current.event : \A x \in Nat \X Nat :
  IF Before(x, current) THEN x \in Due(e) => stored[e][x] = 1
  ELSE stored[e][x] = 0

Fresh == /\ \A e \in unsaved : ~Saved(e)
         /\ current.event \cap unsaved = {}

LEMMA RevenueStep ==
  ASSUME BoxesTyped, IInv, Next
  PROVE  IInv'
<1>0. TypeOK /\ CountedOnce /\ StoredWholly /\ Fresh /\ InPlace
  BY DEF IInv, Fresh, InPlace
<1>t. TypeOK'
  BY RevenueTypeStep DEF IInv
<1> SUFFICES (CountedOnce /\ StoredWholly /\ Fresh /\ InPlace)'
  BY <1>t DEF IInv, Fresh, InPlace
<1>1. CASE ReadUnsaved
  BY <1>0, <1>1 DEF ReadUnsaved, Idle, NoEvent, CountedOnce, StoredWholly, Fresh,
     InPlace, Saved, Due, Asset
<1>2. ASSUME NEW e \in Event, NextEvent(e)
      PROVE  (CountedOnce /\ StoredWholly /\ Fresh /\ InPlace)'
  <2>1. (CountedOnce /\ Fresh)'
    BY <1>0, <1>2 DEF NextEvent, NoEvent, CountedOnce, Fresh, Saved, Due, Asset, TypeOK
  <2>2. StoredWholly'
    BY <1>0, <1>2 DEF NextEvent, NoEvent, StoredWholly, Saved, Due, Asset, TypeOK
  <2>3. \A x \in Nat \X Nat : stored[e][x] = 0
    BY <1>0, <1>2 DEF NextEvent, Fresh, Saved, TypeOK
  <2>4. InPlace'
    <3>1. \A x \in Due(e) : x[1] >= 1
      BY DEF Due, Asset, BoxesTyped
    <3> QED
      BY <1>2, <2>3, <3>1 DEF NextEvent, InPlace, Before, Due, Asset
  <2> QED
    BY <2>1, <2>2, <2>4
<1>3. ASSUME NEW e \in Event, EndEvent(e)
      PROVE  (CountedOnce /\ StoredWholly /\ Fresh /\ InPlace)'
  <2>1. (CountedOnce /\ Fresh /\ InPlace)'
    BY <1>0, <1>3 DEF EndEvent, NoEvent, CountedOnce, Fresh, InPlace, Saved, Due, Asset
  <2>2. \A x \in Due(e) : stored[e][x] = 1
    <3> SUFFICES ASSUME NEW x \in Due(e)
                 PROVE  stored[e][x] = 1
      OBVIOUS
    <3>1. x \in Nat \X Nat /\ x[1] \in 1 .. Len(Boxes[e])
      BY DEF Due, Asset, BoxesTyped
    <3>2. Before(x, current)
      BY <1>3, <3>1 DEF EndEvent, At, Before, BoxesTyped
    <3> QED
      BY <1>0, <1>3, <3>1, <3>2 DEF EndEvent, At, InPlace
  <2>3. StoredWholly'
    BY <1>0, <1>3, <2>2 DEF EndEvent, At, NoEvent, StoredWholly, Saved, Due, Asset
  <2> QED
    BY <2>1, <2>3
<1>4. ASSUME NEW e \in Event, NEW b \in Nat, SkipBox(e, b)
      PROVE  (CountedOnce /\ StoredWholly /\ Fresh /\ InPlace)'
  <2>1. (CountedOnce /\ StoredWholly /\ Fresh)'
    BY <1>0, <1>4 DEF SkipBox, At, CountedOnce, StoredWholly, Fresh, Saved, Due, Asset
  <2>2. InPlace'
    <3> SUFFICES ASSUME NEW x \in Nat \X Nat
                 PROVE  IF Before(x, current)' THEN x \in Due(e) => stored[e][x] = 1
                        ELSE stored[e][x] = 0
      BY <1>4 DEF SkipBox, At, InPlace, Due, Asset
    <3>1. /\ current.box = b /\ current.asset = 0
          /\ current'.box = b + 1 /\ current'.asset = 0
      BY <1>4 DEF SkipBox, At
    <3>2. Before(x, current)' <=> Before(x, current) \/ x[1] = b
      BY <3>1 DEF Before
    <3>3. x[1] = b => x \notin Due(e)
      BY <1>4 DEF SkipBox, Due
    <3> QED
      BY <1>0, <1>4, <3>2, <3>3 DEF SkipBox, At, InPlace
  <2> QED
    BY <2>1, <2>2
<1>5. ASSUME NEW e \in Event, NEW b \in Nat, NEW a \in Nat, InsertRevenue(e, b, a)
      PROVE  (CountedOnce /\ StoredWholly /\ Fresh /\ InPlace)'
  <2>1. /\ current = [event |-> {e}, box |-> b, asset |-> a]
        /\ <<b, a>> \in Due(e)
        /\ current'.event = {e}
        /\ IF a < Boxes[e][b].tokens
           THEN current'.box = b /\ current'.asset = a + 1
           ELSE current'.box = b + 1 /\ current'.asset = 0
    BY <1>5 DEF InsertRevenue, At
  <2>2. stored[e][<<b, a>>] = 0
    BY <1>0, <2>1 DEF InPlace, Before
  <2>3. /\ \A x \in Nat \X Nat :
            stored'[e][x] = IF x = <<b, a>> THEN 1 ELSE stored[e][x]
        /\ \A d \in Event \ {e} : stored'[d] = stored[d]
    BY <1>0, <1>5, <2>2 DEF InsertRevenue, TypeOK
  <2>4. CountedOnce'
    BY <1>0, <2>1, <2>3 DEF CountedOnce, Due, Asset
  <2>5. StoredWholly'
    BY <1>0, <1>5, <2>1, <2>3 DEF InsertRevenue, StoredWholly, Saved, Due, Asset
  <2>6. Fresh'
    BY <1>0, <1>5, <2>1, <2>3 DEF InsertRevenue, Fresh, Saved, TypeOK
  <2>7. InPlace'
    <3> SUFFICES ASSUME NEW x \in Nat \X Nat
                 PROVE  IF Before(x, current)' THEN x \in Due(e) => stored'[e][x] = 1
                        ELSE stored'[e][x] = 0
      BY <2>1 DEF InPlace, Due, Asset
    <3>1. CASE x = <<b, a>>
      BY <2>1, <2>3, <3>1 DEF Before
    <3>2. CASE x # <<b, a>>
      <4>1. x \in Due(e) /\ x[1] = b => x[2] \in Nat /\ x[2] <= Boxes[e][b].tokens
        BY DEF Due, Asset
      <4>2. Boxes[e][b].tokens \in Nat
        <5>1. Boxes[e] \in Seq([guards : BOOLEAN, tokens : Nat])
          BY DEF BoxesTyped
        <5>2. b \in 1 .. Len(Boxes[e])
          BY <2>1, <5>1 DEF Due, Asset
        <5>3. Boxes[e][b] \in [guards : BOOLEAN, tokens : Nat]
          BY <5>1, <5>2, ElementIn
        <5> QED
          BY <5>3
      <4>3. x = <<x[1], x[2]>> /\ x[1] \in Nat /\ x[2] \in Nat
        OBVIOUS
      <4>4. Before(x, current) => Before(x, current)'
        BY <2>1, <4>3 DEF Before
      <4>5. Before(x, current)' /\ x \in Due(e) => Before(x, current)
        BY <2>1, <3>2, <4>1, <4>2, <4>3 DEF Before
      <4>6. stored'[e][x] = stored[e][x]
        BY <2>3, <3>2
      <4> QED
        BY <1>0, <2>1, <4>4, <4>5, <4>6 DEF InPlace
    <3> QED
      BY <3>1, <3>2
  <2> QED
    BY <2>4, <2>5, <2>6, <2>7
<1>6. CASE Interrupt
  BY <1>0, <1>6 DEF Interrupt, NoEvent, CountedOnce, StoredWholly, Fresh, InPlace,
     Saved, Due, Asset
<1>7. ASSUME NEW e \in Event, Confirm(e)
      PROVE  (CountedOnce /\ StoredWholly /\ Fresh /\ InPlace)'
  BY <1>0, <1>7 DEF Confirm, CountedOnce, StoredWholly, Fresh, InPlace, Saved, Due, Asset
<1> QED
  BY <1>1, <1>2, <1>3, <1>4, <1>5, <1>6, <1>7 DEF Next, RevenueJob

(***************************************************************************)
(* For any events and any boxes of their transactions: the job records no  *)
(* asset twice and nothing that was not paid to the guards, and an event   *)
(* it was not interrupted at is recorded wholly or not at all.             *)
(***************************************************************************)
THEOREM RevenueRecorded ==
  ASSUME BoxesTyped
  PROVE  Spec => [](CountedOnce /\ StoredWholly)
<1>1. Init => IInv
  BY DEF Init, IInv, TypeOK, Place, NoEvent, CountedOnce, StoredWholly, Saved
<1>2. IInv /\ [Next]_vars => IInv'
  <2>1. CASE UNCHANGED vars
    BY <2>1 DEF vars, IInv, TypeOK, CountedOnce, StoredWholly, Saved, Due, Asset, Before
  <2> QED
    BY <2>1, RevenueStep
<1>3. IInv => CountedOnce /\ StoredWholly
  BY DEF IInv
<1> QED
  BY <1>1, <1>2, <1>3, PTL DEF Spec

-----------------------------------------------------------------------------
(* The turns.  The round of a guard starts in its own turn and never twice *)
(* in one, the generated transactions and the agreements are cleared in    *)
(* the gap, and the agreement jobs never run in it.                        *)

LEMMA Division ==
  ASSUME NEW x \in Nat, NEW p \in Nat \ {0}
  PROVE  /\ x \div p \in Nat
         /\ x % p \in 0 .. p - 1
         /\ x = p * (x \div p) + (x % p)
  OBVIOUS

LEMMA Remainder ==
  ASSUME NEW p \in Nat \ {0}, NEW q \in Nat, NEW r \in 0 .. p - 1
  PROVE  /\ (p * q + r) % p = r
         /\ (p * q + r) \div p = q
  OBVIOUS

(* The turn at a clock value, from the quotient and the remainder of it.   *)
LEMMA TurnAt ==
  ASSUME NEW ms \in Nat, NEW guards \in Nat \ {0}, NEW q \in Nat,
         NEW id \in 0 .. guards - 1, NEW point \in 0 .. TurnLength - 1,
         Seconds(ms) = FullPeriod(guards) * q + (id * TurnLength + point)
  PROVE  TurnOf(ms, guards) = IF point > UpTimeLength THEN -1 ELSE id
<1> DEFINE r == id * TurnLength + point
<1>1. FullPeriod(guards) \in Nat \ {0} /\ r \in 0 .. FullPeriod(guards) - 1
  <2>1. id * 180 <= (guards - 1) * 180
    OBVIOUS
  <2> QED
    BY <2>1 DEF FullPeriod, TurnLength
<1>2. Seconds(ms) % FullPeriod(guards) = r
  BY <1>1, Remainder
<1>3. r % TurnLength = point /\ r \div TurnLength = id
  BY Remainder DEF TurnLength
<1>4. id % guards = id
  OBVIOUS
<1> QED
  BY <1>2, <1>3, <1>4 DEF TurnOf

(* Where the turn of a guard begins, seen from any moment: delay seconds   *)
(* ahead, at most a full period.                                           *)
LEMMA NextTurnAhead ==
  ASSUME NEW now \in Nat, NEW guards \in Nat \ {0},
         NEW id \in 0 .. guards - 1
  PROVE  \E q \in Nat, delay \in 0 .. FullPeriod(guards) - 1 :
           /\ SecondsToNextTurn(now, id, guards) = delay + 1
           /\ Seconds(now) + delay = FullPeriod(guards) * q + id * TurnLength
<1> DEFINE P == FullPeriod(guards)
           S == Seconds(now)
           c == S % P
           g == id * TurnLength
           d == (g - c + P) % P
<1>1. P \in Nat \ {0} /\ g \in 0 .. P - 1
  <2>1. id * 180 <= (guards - 1) * 180
    OBVIOUS
  <2> QED
    BY <2>1 DEF FullPeriod, TurnLength
<1>2. S \in Nat
  BY DEF Seconds
<1> HIDE DEF P, S, g
<1>3. c \in 0 .. P - 1 /\ S \div P \in Nat /\ S = P * (S \div P) + c
  BY <1>1, <1>2, Division
<1> HIDE DEF c
<1>4. CASE c <= g
  <2>1. d = g - c
    <3>1. g - c + P = P * 1 + (g - c) /\ g - c \in 0 .. P - 1
      BY <1>1, <1>3, <1>4
    <3>2. (P * 1 + (g - c)) % P = g - c
      BY <3>1, <1>1, Remainder
    <3> QED
      BY <3>1, <3>2
  <2>2. d \in 0 .. P - 1 /\ S + d = P * (S \div P) + g
    BY <2>1, <1>1, <1>3, <1>4
  <2>3. SecondsToNextTurn(now, id, guards) = d + 1
    BY DEF SecondsToNextTurn, d, c, P, S, g
  <2> QED
    BY <1>3, <2>2, <2>3 DEF P, S, g
<1>5. CASE c > g
  <2>1. d = g - c + P
    <3>1. g - c + P = P * 0 + (g - c + P) /\ g - c + P \in 0 .. P - 1
      BY <1>1, <1>3, <1>5
    <3>2. (P * 0 + (g - c + P)) % P = g - c + P
      BY <3>1, <1>1, Remainder
    <3> QED
      BY <3>1, <3>2
  <2>2. P * ((S \div P) + 1) = P * (S \div P) + P /\ P * (S \div P) \in Nat
    BY <1>1, <1>3
  <2>4. d \in 0 .. P - 1 /\ S + d = P * ((S \div P) + 1) + g
    <3> HIDE DEF d
    <3> QED
      BY <2>1, <2>2, <1>1, <1>3, <1>5
  <2>3. SecondsToNextTurn(now, id, guards) = d + 1
    BY DEF SecondsToNextTurn, d, c, P, S, g
  <2> QED
    BY <1>3, <2>4, <2>3 DEF P, S, g
<1> QED
  BY <1>1, <1>3, <1>4, <1>5

(* A round job whose timer is late by less than 119 seconds starts in the  *)
(* turn of its own guard: roundJob never generates in another guard's turn *)
(* or in the gap, and it has the rest of the turn before it.               *)
THEOREM RoundStartsInOwnTurn ==
  ASSUME NEW now \in Nat, NEW guards \in Nat \ {0},
         NEW id \in 0 .. guards - 1, NEW late \in Nat, late < 119 * 1000
  PROVE  TurnOf(RoundAt(now, id, guards, late), guards) = id
<1>1. PICK q \in Nat, delay \in 0 .. FullPeriod(guards) - 1 :
        /\ SecondsToNextTurn(now, id, guards) = delay + 1
        /\ Seconds(now) + delay = FullPeriod(guards) * q + id * TurnLength
  BY NextTurnAhead
<1>2. delay \in Nat /\ FullPeriod(guards) * q \in Nat
      /\ FullPeriod(guards) \in Nat
  BY DEF FullPeriod, TurnLength
<1>3. /\ Seconds(now) \in Nat
      /\ Seconds(RoundAt(now, id, guards, late)) \in
           Seconds(now) + delay + 1 .. Seconds(now) + delay + 1 + 119
  <2>1. /\ Seconds(now) \in Nat
        /\ Seconds(now + (delay + 1) * 1000 + late) \in
             Seconds(now) + (delay + 1) .. Seconds(now) + (delay + 1) + 119
    <3> DEFINE k == delay + 1
               u == Seconds(now + k * 1000 + late)
    <3>1. k \in Nat
      BY <1>2
    <3>2. /\ Seconds(now) \in Nat /\ u \in Nat
          /\ u >= Seconds(now) + k /\ u <= Seconds(now) + k + 119
      <4> HIDE DEF k
      <4> QED
        BY <3>1 DEF u, Seconds
    <3> HIDE DEF u
    <3>3. u \in Seconds(now) + k .. Seconds(now) + k + 119
      BY <3>1, <3>2
    <3> QED
      BY <3>2, <3>3 DEF u
  <2>2. RoundAt(now, id, guards, late) = now + (delay + 1) * 1000 + late
    BY <1>1 DEF RoundAt
  <2> QED
    BY <2>1, <2>2, <1>2
<1>4. PICK point \in 1 .. 120 :
        Seconds(RoundAt(now, id, guards, late))
          = FullPeriod(guards) * q + (id * TurnLength + point)
  <2> DEFINE T == Seconds(RoundAt(now, id, guards, late))
             A == FullPeriod(guards) * q
             g == id * TurnLength
  <2>1. A \in Nat /\ g \in Nat
    BY <1>2 DEF TurnLength
  <2>2. T \in A + g + 1 .. A + g + 120
    BY <1>1, <1>3, <2>1, <1>2
  <2> HIDE DEF T, A, g
  <2>3. T - A - g \in 1 .. 120 /\ T = A + (g + (T - A - g))
    BY <2>1, <2>2
  <2> QED
    BY <2>3 DEF T, A, g
<1>5. RoundAt(now, id, guards, late) \in Nat
  BY <1>1, <1>2 DEF RoundAt
<1>6. point \in 0 .. TurnLength - 1 /\ ~(point > UpTimeLength)
  BY DEF TurnLength, UpTimeLength
<1>7. TurnOf(RoundAt(now, id, guards, late), guards)
        = IF point > UpTimeLength THEN -1 ELSE id
  <2> HIDE <1>1
  <2> QED
    BY <1>4, <1>5, <1>6, TurnAt
<1> QED
  BY <1>6, <1>7

(* A round that ends before its guard's next turn begins is followed by    *)
(* one in the next turn, never by a second one in the same turn: from any  *)
(* moment of a turn but its very first second, the next round is set for   *)
(* after the gap that ends the turn.                                       *)
THEOREM OneRoundATurn ==
  ASSUME NEW now \in Nat, NEW guards \in Nat \ {0}, NEW q \in Nat,
         NEW id \in 0 .. guards - 1, NEW point \in 1 .. UpTimeLength,
         Seconds(now) = FullPeriod(guards) * q + (id * TurnLength + point)
  PROVE  SecondsToNextTurn(now, id, guards) > TurnLength - point
<1> DEFINE P == FullPeriod(guards)
           g == id * TurnLength
<1>1. P \in Nat \ {0} /\ g \in 0 .. P - 180 /\ point \in 1 .. 120
      /\ P \in Nat /\ P >= 180
  <2>1. id * 180 <= (guards - 1) * 180
    OBVIOUS
  <2> QED
    BY <2>1 DEF FullPeriod, TurnLength, UpTimeLength
<1> HIDE DEF P, g
<1>2. Seconds(now) % P = g + point
  <2>1. g + point \in 0 .. P - 1
    BY <1>1
  <2>2. Seconds(now) = P * q + (g + point)
    BY DEF P, g
  <2> QED
    BY <1>1, <2>1, <2>2, Remainder
<1>3. (g - (g + point) + P) % P = P - point
  <2>1. g - (g + point) + P = P * 0 + (P - point) /\ P - point \in 0 .. P - 1
    BY <1>1
  <2>2. (P * 0 + (P - point)) % P = P - point
    BY <1>1, <2>1, Remainder
  <2> QED
    BY <2>1, <2>2
<1>4. SecondsToNextTurn(now, id, guards) = P - point + 1
  BY <1>2, <1>3 DEF SecondsToNextTurn, P, g
<1> QED
  BY <1>1, <1>4 DEF TurnLength

(* The seconds of the current interval, up to the reset of the agreements, *)
(* and the point at which a timer set for it goes off.                     *)
LEMMA ResetPoint ==
  ASSUME NEW ms \in Nat
  PROVE  LET point == Seconds(ms) % TurnLength
         IN /\ Seconds(ms) \in Nat /\ point \in 0 .. 179
            /\ SecondsToReset(ms) =
                 IF point <= UpTimeLength THEN 121 - point ELSE 301 - point
  BY DEF Seconds, SecondsToReset, TurnLength, UpTimeLength

(* Whoever's turn the interval at a clock value belongs to, nobody's is it *)
(* past the up time: the gap does not depend on the number of guards.      *)
LEMMA NobodysTurn ==
  ASSUME NEW ms \in Nat, NEW guards \in Nat \ {0}, NEW q \in Nat,
         NEW point \in UpTimeLength + 1 .. TurnLength - 1,
         Seconds(ms) = TurnLength * q + point
  PROVE  TurnOf(ms, guards) = -1
<1> DEFINE k == q % guards
           m == q \div guards
<1>1. /\ k \in 0 .. guards - 1 /\ m \in Nat
      /\ q = guards * m + k
  BY Division
<1> HIDE DEF k, m
<1>2. TurnLength * q = FullPeriod(guards) * m + k * TurnLength
  <2>1. guards * m \in Nat /\ (guards * 180) * m = 180 * (guards * m)
    BY <1>1
  <2> QED
    BY <1>1, <2>1 DEF FullPeriod, TurnLength
<1>3. Seconds(ms) = FullPeriod(guards) * m + (k * TurnLength + point)
  BY <1>1, <1>2 DEF FullPeriod, TurnLength, UpTimeLength
<1>4. point \in 0 .. TurnLength - 1 /\ point > UpTimeLength
  BY DEF TurnLength, UpTimeLength
<1> QED
  BY <1>1, <1>3, <1>4, TurnAt

(* The reset of the agreements (resetJob), late by less than 58 seconds,   *)
(* falls into the gap: it never drops agreements in the turn of a guard    *)
(* that may be collecting approvals.                                       *)
THEOREM ResetInGap ==
  ASSUME NEW now \in Nat, NEW guards \in Nat \ {0},
         NEW late \in Nat, late < 58 * 1000
  PROVE  TurnOf(ResetAt(now, late), guards) = -1
<1> DEFINE p == Seconds(now) % TurnLength
           q == Seconds(now) \div TurnLength
           s == SecondsToReset(now)
           t == Seconds(ResetAt(now, late))
<1>1. /\ Seconds(now) \in Nat /\ p \in 0 .. 179 /\ q \in Nat
      /\ Seconds(now) = 180 * q + p
      /\ s = IF p <= 120 THEN 121 - p ELSE 301 - p
  <2>1. /\ Seconds(now) \in Nat /\ p \in 0 .. 179
        /\ s = IF p <= 120 THEN 121 - p ELSE 301 - p
    BY ResetPoint DEF UpTimeLength
  <2>2. q \in Nat /\ Seconds(now) = 180 * q + p
    <3>1. Seconds(now) \in Nat
      BY <2>1
    <3> QED
      BY <3>1 DEF TurnLength
  <2> QED
    BY <2>1, <2>2
<1>2. s \in Nat
  BY <1>1
<1>3. t \in Seconds(now) + s .. Seconds(now) + s + 58
  <2>1. t = Seconds(now + s * 1000 + late)
    BY DEF ResetAt
  <2> HIDE DEF s, t
  <2>2. t \in Nat /\ t >= Seconds(now) + s /\ t <= Seconds(now) + s + 58
    BY <1>2, <2>1 DEF Seconds
  <2> QED
    BY <1>1, <1>2, <2>2
<1>4. ResetAt(now, late) \in Nat
  BY <1>2 DEF ResetAt
<1> HIDE DEF p, q, s, t
<1>5. PICK r \in Nat, point \in 121 .. 179 : t = 180 * r + point
  <2>1. CASE p <= 120
    <3>1. t - 180 * q \in 121 .. 179 /\ t = 180 * q + (t - 180 * q)
      BY <1>1, <1>3, <2>1
    <3> QED
      BY <1>1, <3>1
  <2>2. CASE p > 120
    <3>1. /\ t - 180 * (q + 1) \in 121 .. 179 /\ q + 1 \in Nat
          /\ t = 180 * (q + 1) + (t - 180 * (q + 1))
      BY <1>1, <1>3, <2>2
    <3> QED
      BY <3>1
  <2> QED
    BY <1>1, <2>1, <2>2
<1>6. point \in UpTimeLength + 1 .. TurnLength - 1
      /\ Seconds(ResetAt(now, late)) = TurnLength * r + point
  BY <1>5 DEF t, TurnLength, UpTimeLength
<1> QED
  BY <1>4, <1>6, NobodysTurn

(* The agreement jobs run only from the third second of a turn to the end  *)
(* of its up time, hence never in the gap; and since a job that does not   *)
(* run does not set its timer either, one that comes up in the gap stays   *)
(* silent until the next round of this guard.                              *)
THEOREM QueueJobInUpTime ==
  ASSUME NEW ms \in Nat
  PROVE  QueueJobRuns(ms) <=> Seconds(ms) % TurnLength \in 2 .. UpTimeLength
<1> DEFINE p == Seconds(ms) % TurnLength
<1>1. /\ p \in 0 .. 179
      /\ SecondsToReset(ms) = IF p <= 120 THEN 121 - p ELSE 301 - p
  BY ResetPoint DEF UpTimeLength
<1> HIDE DEF p
<1>2. SecondsToReset(ms) < 120 <=> p \in 2 .. 120
  BY <1>1
<1> QED
  BY <1>2 DEF QueueJobRuns, UpTimeLength, p

(* The transactions a round has generated are cleared in the gap of its    *)
(* turn and not before the turn's up time is over.                         *)
THEOREM ClearedInGap ==
  ASSUME NEW now \in Nat, NEW guards \in Nat \ {0},
         NEW id \in 0 .. guards - 1, NEW late \in Nat, late < 58 * 1000
  PROVE  TurnOf(ClearAt(RoundAt(now, id, guards, 0), late), guards) = -1
<1>1. PICK q \in Nat, delay \in 0 .. FullPeriod(guards) - 1 :
        /\ SecondsToNextTurn(now, id, guards) = delay + 1
        /\ Seconds(now) + delay = FullPeriod(guards) * q + id * TurnLength
  BY NextTurnAhead
<1> DEFINE c == ClearAt(RoundAt(now, id, guards, 0), late)
           A == FullPeriod(guards) * q
           g == id * TurnLength
<1>2. delay \in Nat /\ A \in Nat /\ FullPeriod(guards) \in Nat /\ g \in Nat
  BY DEF FullPeriod, TurnLength
<1>3. c = now + (delay + 121) * 1000 + late /\ c \in Nat
  BY <1>1, <1>2 DEF RoundAt, ClearAt, UpTimeLength
<1>4. /\ Seconds(now) \in Nat
      /\ Seconds(c) \in Seconds(now) + (delay + 121)
                          .. Seconds(now) + (delay + 121) + 58
  <2> DEFINE k == delay + 121
             u == Seconds(now + k * 1000 + late)
  <2>1. k \in Nat
    BY <1>2
  <2>2. /\ Seconds(now) \in Nat /\ u \in Nat
        /\ u >= Seconds(now) + k /\ u <= Seconds(now) + k + 58
    <3> HIDE DEF k
    <3> QED
      BY <2>1 DEF u, Seconds
  <2> HIDE DEF u
  <2>3. u \in Seconds(now) + k .. Seconds(now) + k + 58
    BY <2>1, <2>2
  <2>4. Seconds(c) = u
    BY <1>3 DEF u
  <2> HIDE DEF c
  <2> QED
    BY <2>2, <2>3, <2>4
<1> HIDE DEF c
<1>5. PICK point \in 121 .. 179 : Seconds(c) = A + (g + point)
  <2> HIDE DEF A, g
  <2>1. Seconds(now) + delay = A + g
    BY <1>1 DEF A, g
  <2>2. Seconds(c) - A - g \in 121 .. 179
        /\ Seconds(c) = A + (g + (Seconds(c) - A - g))
    BY <1>2, <1>4, <2>1
  <2> QED
    BY <2>2
<1>6. point \in 0 .. TurnLength - 1 /\ point > UpTimeLength
  BY DEF TurnLength, UpTimeLength
<1>7. TurnOf(c, guards) = IF point > UpTimeLength THEN -1 ELSE id
  <2> HIDE <1>1
  <2> QED
    BY <1>3, <1>5, <1>6, TurnAt DEF A, g
<1> QED
  BY <1>6, <1>7 DEF c
=============================================================================

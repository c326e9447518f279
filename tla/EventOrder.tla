----------------------------- MODULE EventOrder -----------------------------
(***************************************************************************)
(* What an event pays, to the unit: the order of its payment transaction   *)
(* and the order that rewards the watchers and the guards                  *)
(* (src/src/event/EventOrder.ts and EventBoxes.ts).  Every guard computes  *)
(* these orders on its own and agrees to a transaction only when its order *)
(* is equal, so they are functions here too.  Amounts are the bigints of   *)
(* the code, and `/' on positive bigints is \div.                          *)
(*                                                                         *)
(*   event  the trigger's amount, bridgeFee and networkFee                 *)
(*   fee    the ChainMinimumFee of the event: bridgeFee, networkFee,       *)
(*          feeRatio, feeRatioDivisor, rsnRatio, rsnRatioDivisor           *)
(*   conf   the GuardsErgoConfigs: watchersSharePercent,                   *)
(*          watchersEmissionSharePercent, additionalErgOnPayment,          *)
(*          minimumErg and emissionTokenId                                 *)
(*   rwt    the id and the count of the tokens a watcher gets back         *)
(*                                                                         *)
(* An order is a sequence of boxes [to, native, tokens].  The addresses    *)
(* and the wids are abstract, the payment's transaction id that two of the *)
(* boxes carry is left out.                                                *)
(***************************************************************************)
EXTENDS Integers, Sequences, FiniteSets

Higher(a, b) == IF a > b THEN a ELSE b

(***************************************************************************)
(* The fees.                                                               *)
(***************************************************************************)
BridgeFee(event, fee) ==
  Higher(Higher(event.bridgeFee, fee.bridgeFee),
         (event.amount * fee.feeRatio) \div fee.feeRatioDivisor)

NetworkFee(event, fee) == Higher(event.networkFee, fee.networkFee)

EmissionFee(event, fee) ==
  (BridgeFee(event, fee) * fee.rsnRatio) \div fee.rsnRatioDivisor

(* What the user on the target chain receives of the transferred token.    *)
UserAmount(event, fee) ==
  event.amount - BridgeFee(event, fee) - NetworkFee(event, fee)

(* What each of n watchers gets of a total, and what is left for the       *)
(* guards.                                                                 *)
WatcherShare(total, percent, n) == ((total * percent) \div 100) \div n

GuardShare(total, percent, n) == total - n * WatcherShare(total, percent, n)

(***************************************************************************)
(* Boxes and tokens.                                                       *)
(***************************************************************************)
Token(id, value) == <<[id |-> id, value |-> value]>>

TokenIfAny(id, value) == IF value > 0 THEN Token(id, value) ELSE <<>>

Box(to, native, tokens) == [to |-> to, native |-> native, tokens |-> tokens]

(* The permits an event's rewards go to: one for each commitment merged    *)
(* into the trigger, at an equal part of the trigger box, and one for each *)
(* that came in time and was not merged.  Of the latter uniqBy leaves only *)
(* the first of a watcher.  The merged ones are a list as they come from   *)
(* the database, and a watcher that is in it twice has two permits: "at"   *)
(* is the place in the list, 0 for a commitment that was not merged.       *)
FirstOfEach(commitments) ==
  {commitments[i] : i \in {k \in DOMAIN commitments :
      \A j \in 1 .. k - 1 : commitments[j].wid # commitments[k].wid}}

Unmerged(commitments, merged, rwtCount) ==
  {[at |-> 0, wid |-> c.wid, boxValue |-> c.boxValue] :
     c \in {d \in FirstOfEach(commitments) :
              /\ \A i \in DOMAIN merged : merged[i] # d.wid
              /\ d.rwtCount = rwtCount /\ d.genuine}}

OutPermits(merged, permitValue, commitments, rwtCount) ==
  {[at |-> i, wid |-> merged[i], boxValue |-> permitValue] : i \in DOMAIN merged}
    \cup Unmerged(commitments, merged, rwtCount)

(***************************************************************************)
(* The payment (createEventPaymentOrder, eventSinglePayment): the amount,  *)
(* less the fees, in the native token or in a token of the target chain.   *)
(***************************************************************************)
SinglePayment(event, fee, conf, minTransfer) ==
  LET amount == UserAmount(event, fee)
      onErgo == IF event.toErgo THEN conf.additionalErgOnPayment ELSE 0
  IN IF event.native
     THEN Box(event.toAddress, minTransfer + amount + onErgo, <<>>)
     ELSE Box(event.toAddress, minTransfer + onErgo,
              Token(event.targetToken, amount))

(***************************************************************************)
(* The rewards when the transferred token is ERG on Ergo                   *)
(* (eventErgRewardOrder) and when it is a token (eventTokenRewardOrder).   *)
(* n is the number of permits, of which each has a box of its own; in      *)
(* which order the watchers' boxes stand is left out.                      *)
(***************************************************************************)
WatcherEmission(event, fee, conf, n) ==
  WatcherShare(EmissionFee(event, fee), conf.watchersEmissionSharePercent, n)

GuardEmission(event, fee, conf, n) ==
  GuardShare(EmissionFee(event, fee), conf.watchersEmissionSharePercent, n)

ErgWatcherBox(permit, event, fee, conf, rwt, n) ==
  Box(permit.wid,
      WatcherShare(BridgeFee(event, fee), conf.watchersSharePercent, n)
        + permit.boxValue,
      Token(rwt.id, rwt.count)
        \o TokenIfAny(conf.emissionTokenId, WatcherEmission(event, fee, conf, n)))

TokenWatcherBox(permit, event, fee, conf, rwt, n) ==
  Box(permit.wid, permit.boxValue,
      Token(rwt.id, rwt.count)
        \o TokenIfAny(event.tokenOnErgo,
             WatcherShare(BridgeFee(event, fee), conf.watchersSharePercent, n))
        \o TokenIfAny(conf.emissionTokenId, WatcherEmission(event, fee, conf, n)))

WatchersOrder(permits, event, fee, conf, rwt) ==
  LET n == Cardinality(permits)
  IN IF event.ergOnErgo
     THEN [p \in permits |-> ErgWatcherBox(p, event, fee, conf, rwt, n)]
     ELSE [p \in permits |-> TokenWatcherBox(p, event, fee, conf, rwt, n)]

EmissionBoxes(event, fee, conf, n) ==
  IF GuardEmission(event, fee, conf, n) > 0
  THEN <<Box("emission", conf.minimumErg,
             Token(conf.emissionTokenId, GuardEmission(event, fee, conf, n)))>>
  ELSE <<>>

ErgGuardBoxes(event, fee, conf, n) ==
  <<Box("bridgeFee",
        GuardShare(BridgeFee(event, fee), conf.watchersSharePercent, n)
          + conf.minimumErg, <<>>)>>
    \o EmissionBoxes(event, fee, conf, n)
    \o <<Box("networkFee", NetworkFee(event, fee) + conf.minimumErg, <<>>)>>

TokenGuardBoxes(event, fee, conf, n) ==
  <<Box("bridgeFee", conf.minimumErg,
        TokenIfAny(event.tokenOnErgo,
          GuardShare(BridgeFee(event, fee), conf.watchersSharePercent, n)))>>
    \o EmissionBoxes(event, fee, conf, n)
    \o <<Box("networkFee", conf.minimumErg,
             Token(event.tokenOnErgo, NetworkFee(event, fee)))>>

GuardsOrder(event, fee, conf, n) ==
  IF event.ergOnErgo THEN ErgGuardBoxes(event, fee, conf, n)
  ELSE TokenGuardBoxes(event, fee, conf, n)

(***************************************************************************)
(* The orders of the two transactions.  On Ergo there is one transaction   *)
(* and the rewards stand around the payment (createEventPaymentOrder);     *)
(* elsewhere they are a transaction of their own, on Ergo, made when the   *)
(* payment is confirmed (createEventRewardOrder).                          *)
(***************************************************************************)
EventRewardOrder(permits, event, fee, conf, rwt) ==
  [watchers |-> WatchersOrder(permits, event, fee, conf, rwt),
   guards   |-> GuardsOrder(event, fee, conf, Cardinality(permits))]

EventPaymentOrder(permits, event, fee, conf, rwt, minTransfer) ==
  [payment |-> SinglePayment(event, fee, conf, minTransfer),
   rewards |-> IF event.toErgo
               THEN EventRewardOrder(permits, event, fee, conf, rwt)
               ELSE [watchers |-> <<>>, guards |-> <<>>]]

(***************************************************************************)
(* What a guard agrees to (verifyEventTransaction): the very order that it *)
(* would pay itself, for a reward only behind exactly one valid payment,   *)
(* without which it throws.                                                *)
(***************************************************************************)
VerifyEventTransaction(type, order, payments, permits, event, fee, conf, rwt, minTransfer) ==
  /\ type = "payment" \/ Cardinality(payments) = 1
  /\ order = IF type = "payment"
             THEN EventPaymentOrder(permits, event, fee, conf, rwt, minTransfer)
             ELSE EventRewardOrder(permits, event, fee, conf, rwt)

=============================================================================

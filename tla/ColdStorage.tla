---------------------------- MODULE ColdStorage ----------------------------
(***************************************************************************)
(* The transfer of a lock address's surplus to cold storage: the order a   *)
(* guard generates in its turn (src/src/coldStorage/ColdStorage.ts) and    *)
(* the conditions under which another guard agrees to a transaction with   *)
(* such an order (verifyColdStorageTransaction of                          *)
(* src/src/verification/TransactionVerifier.ts).  Both read the chain and  *)
(* their own database; what they read is a parameter here.                 *)
(*                                                                         *)
(*   lock       [native, tokens]: the balance of the lock address, tokens  *)
(*              a function from the ids of the tokens it holds             *)
(*   order      [native, tokens], alike: what the transaction moves        *)
(*   conf       [native, tokens, low, high, maxNativeTransfer,             *)
(*              minNative]: the ids that have thresholds (native the       *)
(*              chain's native token, tokens all others), the thresholds   *)
(*   forbidden  the tokens that waiting events require                     *)
(*   active     the orders of the other cold storage transactions of the   *)
(*              chain that are neither invalid nor completed               *)
(***************************************************************************)
EXTENDS Integers, FiniteSets

Larger(a, b) == IF a > b THEN a ELSE b

(* getWaitingEventsRequiredTokens: an event that waits for its payment     *)
(* needs the token it is paid in, and the emission token when that is on   *)
(* Ergo; one that waits for its reward needs its token on Ergo and the     *)
(* emission token.                                                         *)
RequiredTokens(waiting, emission) ==
  UNION {IF e.status = "payment-waiting"
         THEN {e.targetToken} \cup (IF e.toErgo THEN {emission} ELSE {})
         ELSE {emission, e.tokenOnErgo} : e \in waiting}

(***************************************************************************)
(* The generator (chainColdStorageProcess).                                *)
(***************************************************************************)
NativeMoved(lock, conf, forbidden) ==
  IF conf.native \notin forbidden /\ lock.native > conf.high[conf.native]
  THEN lock.native - conf.low[conf.native] ELSE 0

TokensMoved(lock, conf, forbidden) ==
  {t \in (conf.tokens \ forbidden) \cap DOMAIN lock.tokens :
     lock.tokens[t] > conf.high[t]}

Generates(lock, conf, forbidden, active) ==
  /\ active = {}
  /\ \/ NativeMoved(lock, conf, forbidden) > 0
     \/ TokensMoved(lock, conf, forbidden) # {}

Generated(lock, conf, forbidden) ==
  [native |-> Larger(NativeMoved(lock, conf, forbidden), conf.minNative),
   tokens |-> [t \in TokensMoved(lock, conf, forbidden) |->
                 lock.tokens[t] - conf.low[t]]]

(***************************************************************************)
(* The verifier (verifyColdStorageTransaction), condition by condition.    *)
(* subtractAssetBalance of the chain library leaves out a token of which   *)
(* nothing remains.                                                        *)
(***************************************************************************)
MovesForbidden(order, forbidden) == DOMAIN order.tokens \cap forbidden # {}

InTransferBy(order, other, conf) ==
  \/ DOMAIN order.tokens \cap DOMAIN other.tokens # {}
  \/ /\ order.native > conf.maxNativeTransfer
     /\ other.native > conf.maxNativeTransfer

Left(lock, order, t) == lock.tokens[t] - order.tokens[t]

TokenTransferRight(lock, order, conf, t) ==
  /\ lock.tokens[t] > conf.high[t]
  /\ Left(lock, order, t) > 0
  /\ Left(lock, order, t) \in conf.low[t] .. conf.high[t]

NativeRequired(lock, conf, forbidden) ==
  conf.native \notin forbidden /\ lock.native > conf.high[conf.native]

NativeTransferRight(lock, order, conf, forbidden) ==
  IF NativeRequired(lock, conf, forbidden)
  THEN lock.native - order.native
         \in conf.low[conf.native] .. conf.high[conf.native]
  ELSE /\ DOMAIN order.tokens # {}
       /\ order.native <= conf.maxNativeTransfer

Accepts(lock, order, conf, forbidden, active) ==
  /\ ~MovesForbidden(order, forbidden)
  /\ \A other \in active : ~InTransferBy(order, other, conf)
  /\ \A t \in DOMAIN order.tokens :
       t \in DOMAIN lock.tokens /\ TokenTransferRight(lock, order, conf, t)
  /\ NativeTransferRight(lock, order, conf, forbidden)

=============================================================================

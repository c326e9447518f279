----------------------------- MODULE MCDialer -----------------------------
(***************************************************************************)
(* A small instance of Dialer: two guards, a message to one of them and a  *)
(* broadcast, and a relay.  Relays and messages share nothing but the      *)
(* node, so that the instance lets either the relay's connection change or *)
(* messages be sent, not both in one behaviour.  p2, which shows how one    *)
(* guard's connection holds up another's messages, dials us, and has a     *)
(* connection that lasts and nothing subscribed.                           *)
(***************************************************************************)
EXTENDS Dialer

CONSTANTS p1, p2, r1

\* a message to p1 and a broadcast
OneAndAll == <<p1, Everyone>>

\* the handler of the service's own channels
OneSub == {[name |-> "messageHandler", url |-> NoUrl]}

NothingSent == \A m \in Msg, p \in Listener : ~Sent(m, p)

RelaysUntouched ==
  /\ Relay \subseteq book /\ Relay \cap (connected \cup removing) = {}
  /\ \A r \in Relay : watch[r] = 0 /\ deaf[r] = 0

P2Lasts ==
  /\ p2 \in connected => p2 \in connected' /\ open'[p2] >= open[p2]
  /\ subs'[p2] = <<>> /\ p2 \notin book'

MCNext == Next /\ (NothingSent' \/ RelaysUntouched') /\ P2Lasts

MCSpec == Init /\ [][MCNext]_vars /\ Fairness
=============================================================================

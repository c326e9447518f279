-------------------------- MODULE MessageChannel --------------------------
(***************************************************************************)
(* What a guard may rely on when it hands a message to the Dialer: every   *)
(* addressee gets it at most once, in no particular order, or never, and   *)
(* whether it gets it is decided some day.  The agreement, the signing and *)
(* the synchronisation of this project are modelled over such a channel.   *)
(***************************************************************************)
EXTENDS FiniteSets

CONSTANTS
  Msg,       \* messages, each sent by one call of sendMessage
  Listener   \* the guards that may be addressed

VARIABLE fate   \* what has become of a message for an addressee

Fate == {"unsent", "underway", "received", "lost"}

ChannelTypeOK == fate \in [Msg \X Listener -> Fate]

Init == fate = [c \in Msg \X Listener |-> "unsent"]

\* m is sent to the guards P; those it is not sent to may be told later
Send(m, P) ==
  /\ \A p \in P : fate[<<m, p>>] = "unsent"
  /\ fate' = [c \in Msg \X Listener |->
       IF c[1] = m /\ c[2] \in P THEN "underway" ELSE fate[c]]

Receive(m, p) ==
  /\ fate[<<m, p>>] = "underway"
  /\ fate' = [fate EXCEPT ![<<m, p>>] = "received"]

\* a broken connection takes everything along that was on it
Lose(C) ==
  /\ C # {}
  /\ \A c \in C : fate[c] = "underway"
  /\ fate' = [c \in Msg \X Listener |-> IF c \in C THEN "lost" ELSE fate[c]]

Next ==
  \/ \E m \in Msg, P \in SUBSET Listener : Send(m, P)
  \/ \E m \in Msg, p \in Listener : Receive(m, p)
  \/ \E C \in SUBSET (Msg \X Listener) : Lose(C)

Spec == Init /\ [][Next]_fate

\* the fate of a message that is under way is decided
Decided == \A c \in Msg \X Listener :
             fate[c] = "underway" ~> fate[c] # "underway"
=============================================================================

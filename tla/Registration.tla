---------------------------- MODULE Registration ----------------------------
(***************************************************************************)
(* How the guards' signing modules learn each other's peer ids             *)
(* (MultiSigHandler, GuardPkHandler).  The config box on Ergo lists the    *)
(* public keys of the guards.  Every guard reads it when it starts and     *)
(* again and again afterwards, and each time forgets the peer ids it knew  *)
(* and registers anew: the others answer its nonce with an approval and a  *)
(* challenge of their own, which it approves.                              *)
(*                                                                         *)
(* A guard stands for its secret and for its peer id.  A signature is      *)
(* valid if the key at the index that the message claims is the sender's.  *)
(***************************************************************************)
EXTENDS Integers, Sequences, Functions

CONSTANTS
  Guard,
  Lists,       \* the lists of public keys the config box has, one after another
  NoGuard,
  MaxUpdates,  \* bound on the updates of each guard
  MaxFaults    \* bound on the crashes and lost messages

ASSUME RegistrationAssumption ==
  /\ NoGuard \notin Guard
  /\ Lists \in Seq(Seq(Guard)) /\ Lists # <<>>
  /\ \A k \in DOMAIN Lists : IsInjective(Lists[k])
  /\ MaxUpdates \in [Guard -> Nat]
  /\ MaxFaults \in Nat

VARIABLES
  config,      \* which list is in the box
  peers,       \* the pub of each guard's peers; none before the first update
  known,       \* their id
  unapproved,  \* their unapproved, with the index they belong to
  index,       \* MultiSigHandler.index, 0 while undefined
  nonce,       \* the nonce of the last registration, 0 before the first
  updates,     \* how many nonces of registrations were drawn
  msgs,        \* messages in flight
  faults,      \* the crashes and lost messages so far
  cut          \* history: pairs that lost a message since one of them registered

vars == <<config, peers, known, unapproved, index, nonce, updates, msgs, faults, cut>>

(***************************************************************************)
(* The n-th registration of a guard has the nonce n, and the challenge     *)
(* that another guard draws when it receives it is -n: nobody receives it  *)
(* twice, so a guard challenges nobody twice with the same number.         *)
(***************************************************************************)
Challenge == [id : Guard, index : Nat, challenge : Int]

Message == [type : {"register", "approve"}, from : Guard, to : Guard,
            index : Nat, nonce : Int, nonceToSign : Int]

TypeOK ==
  /\ config \in DOMAIN Lists
  /\ peers \in [Guard -> Seq(Guard)]
  /\ known \in [Guard -> Seq(Guard \cup {NoGuard})]
  /\ \A g \in Guard : DOMAIN known[g] = DOMAIN peers[g]
  /\ unapproved \in [Guard -> SUBSET Challenge]
  /\ index \in [Guard -> Nat]
  /\ nonce \in [Guard -> Nat]
  /\ updates \in [Guard -> Nat]
  /\ msgs \subseteq Message
  /\ faults \in Nat
  /\ cut \subseteq SUBSET Guard

Init ==
  /\ config = 1
  /\ peers = [g \in Guard |-> <<>>]
  /\ known = [g \in Guard |-> <<>>]
  /\ unapproved = [g \in Guard |-> {}]
  /\ index = [g \in Guard |-> 0]
  /\ nonce = [g \in Guard |-> 0]
  /\ updates = [g \in Guard |-> 0]
  /\ msgs = {}
  /\ faults = 0
  /\ cut = {}

-----------------------------------------------------------------------------
\* the position of a key in a list
Position(g, list) == CHOOSE i \in DOMAIN list : list[i] = g

\* getIndex, which looks the position up once and for all
GetIndex(g, list) == IF index[g] # 0 THEN index[g] ELSE Position(g, list)

NoIds(list) == [i \in DOMAIN list |-> NoGuard]

\* mutant: the ids of the peers are kept when their keys are replaced
KeptIds(g, list) ==
  [i \in DOMAIN list |-> IF i \in DOMAIN known[g] THEN known[g][i] ELSE NoGuard]

ForgottenIds(g, list) == NoIds(list)

\* sendRegister, to everybody
Registers(g, n, i) ==
  [type : {"register"}, from : {g}, to : Guard \ {g},
   index : {i}, nonce : {n}, nonceToSign : {0}]

\* GuardPkHandler.update, which fails for who is not in the list, and
\* handlePublicKeysChange with sendRegister; at start and by configUpdateJob
Update(g) ==
  LET list == Lists[config] IN
  /\ g \in Range(list)
  /\ updates[g] < MaxUpdates[g]
  /\ updates' = [updates EXCEPT ![g] = @ + 1]
  /\ nonce' = [nonce EXCEPT ![g] = updates[g] + 1]
  /\ peers' = [peers EXCEPT ![g] = list]
  /\ known' = [known EXCEPT ![g] = ForgottenIds(g, list)]
  /\ unapproved' = [unapproved EXCEPT ![g] = {}]
  /\ index' = [index EXCEPT ![g] = GetIndex(g, list)]
  /\ msgs' = msgs \cup Registers(g, updates[g] + 1, GetIndex(g, list))
  /\ cut' = {p \in cut : g \notin p}
  /\ UNCHANGED <<config, faults>>

\* verifyIndex, and verifySign with the key at that index
Verified(m) ==
  LET list == peers[m.to] IN m.index \in DOMAIN list /\ list[m.index] = m.from

\* sendMessage of an approval back to where m came from
Approve(m, toSign) ==
  [type |-> "approve", from |-> m.to, to |-> m.from, index |-> index[m.to],
   nonce |-> IF m.type = "register" THEN m.nonce ELSE m.nonceToSign,
   nonceToSign |-> toSign]

HandleRegister(m) ==
  LET challenge == -m.nonce IN
  /\ m \in msgs /\ m.type = "register" /\ Verified(m)
  /\ unapproved' = [unapproved EXCEPT ![m.to] =
       @ \cup {[id |-> m.from, index |-> m.index, challenge |-> challenge]}]
  /\ msgs' = (msgs \ {m}) \cup {Approve(m, challenge)}
  /\ UNCHANGED <<config, peers, known, index, nonce, updates, faults, cut>>

\* the challenge that m answers
Answered(m) == [id |-> m.from, index |-> m.index, challenge |-> m.nonce]

\* mutant: the challenge is only answered by who does not know the other yet
ReplyToStranger(m) ==
  IF m.nonceToSign # 0 /\ known[m.to][m.index] # m.from THEN {Approve(m, 0)} ELSE {}

Reply(m) == IF m.nonceToSign # 0 THEN {Approve(m, 0)} ELSE {}

HandleApprove(m) ==
  /\ m \in msgs /\ m.type = "approve" /\ Verified(m)
  /\ IF Answered(m) \in unapproved[m.to] \/ nonce[m.to] = m.nonce
     THEN known' = [known EXCEPT ![m.to][m.index] = m.from]
     ELSE UNCHANGED known
  /\ unapproved' = [unapproved EXCEPT ![m.to] = @ \ {Answered(m)}]
  /\ msgs' = (msgs \ {m}) \cup Reply(m)
  /\ UNCHANGED <<config, peers, index, nonce, updates, faults, cut>>

\* a message that does not verify, or that comes before the first update
Ignore(m) ==
  /\ m \in msgs /\ ~Verified(m)
  /\ msgs' = msgs \ {m}
  /\ UNCHANGED <<config, peers, known, unapproved, index, nonce, updates, faults, cut>>

-----------------------------------------------------------------------------
\* The config box is spent and made again with the next list
ConfigChanges ==
  /\ config < Len(Lists)
  /\ config' = config + 1
  /\ UNCHANGED <<peers, known, unapproved, index, nonce, updates, msgs, faults, cut>>

Lose(m) ==
  /\ m \in msgs
  /\ faults < MaxFaults
  /\ faults' = faults + 1
  /\ msgs' = msgs \ {m}
  /\ cut' = cut \cup {{m.from, m.to}}
  /\ UNCHANGED <<config, peers, known, unapproved, index, nonce, updates>>

Crash(g) ==
  /\ peers[g] # <<>>
  /\ faults < MaxFaults
  /\ faults' = faults + 1
  /\ peers' = [peers EXCEPT ![g] = <<>>]
  /\ known' = [known EXCEPT ![g] = <<>>]
  /\ unapproved' = [unapproved EXCEPT ![g] = {}]
  /\ index' = [index EXCEPT ![g] = 0]
  /\ nonce' = [nonce EXCEPT ![g] = 0]
  /\ UNCHANGED <<config, updates, msgs, cut>>

Next ==
  \/ \E g \in Guard : Update(g) \/ Crash(g)
  \/ \E m \in msgs : HandleRegister(m) \/ HandleApprove(m) \/ Ignore(m) \/ Lose(m)
  \/ ConfigChanges

Spec == Init /\ [][Next]_vars

-----------------------------------------------------------------------------
(* Properties.                                                             *)

(***************************************************************************)
(* Messages for the guard at an index go to who has the key at that index  *)
(* in the list the sender goes by, although approvals of earlier lists and *)
(* earlier lives are still about when the list is replaced.                *)
(***************************************************************************)
KnownByKey == \A g \in Guard : \A i \in DOMAIN peers[g] :
  known[g][i] \in {NoGuard, peers[g][i]}

\* g goes by a list in which its key is where it says
InPlace(g) == index[g] \in DOMAIN peers[g] /\ peers[g][index[g]] = g

\* g and h go by one list, and nothing since has come between them
Together(g, h) == /\ g # h /\ peers[g] = peers[h]
                  /\ InPlace(g) /\ InPlace(h)
                  /\ {g, h} \notin cut

(***************************************************************************)
(* Two guards that go by one list know each other as soon as no message    *)
(* between them is left, whoever of them registered first, again, or in    *)
(* the middle of the other's registration: the later registration makes up *)
(* for what the earlier one, a crash or a lost message has undone.  It     *)
(* does so only for a guard whose index is the one it started with: see    *)
(* GetIndex.                                                               *)
(***************************************************************************)
InTouch == \A g, h \in Guard :
  Together(g, h) /\ (\A m \in msgs : {m.from, m.to} # {g, h})
    => known[g][index[h]] = h

(***************************************************************************)
(* Why InTouch holds: until g knows h, a message is on its way that leads  *)
(* to it, of the last registration of g or of that of h.                   *)
(***************************************************************************)
OnItsWay(type, g, h, n) == \E m \in msgs :
  /\ m.type = type /\ m.from = g /\ m.to = h
  /\ m.index = index[g] /\ m.nonce = n

\* g waits for h to answer the challenge to its last registration
Challenged(g, h) ==
  [id |-> h, index |-> index[h], challenge |-> -nonce[h]] \in unapproved[g]

ChallengeOnItsWay(g, h) == \E m \in msgs :
  /\ m.type = "approve" /\ m.from = g /\ m.to = h
  /\ m.index = index[g] /\ m.nonceToSign = -nonce[h]

WillKnow(g, h) ==
  \/ known[g][index[h]] = h
  \/ OnItsWay("register", g, h, nonce[g])
  \/ OnItsWay("approve", h, g, nonce[g])
  \/ OnItsWay("register", h, g, nonce[h])
  \/ Challenged(g, h) /\ \/ ChallengeOnItsWay(g, h)
                         \/ OnItsWay("approve", h, g, -nonce[h])

\* the inductive invariant behind KnownByKey and InTouch
IInv ==
  /\ TypeOK
  /\ KnownByKey
  /\ \A g \in Guard : peers[g] # <<>> => nonce[g] # 0
  /\ \A g, h \in Guard : Together(g, h) => WillKnow(g, h)
=============================================================================

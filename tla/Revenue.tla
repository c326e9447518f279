------------------------------ MODULE Revenue ------------------------------
(***************************************************************************)
(* The record of what the guards earned (src/src/jobs/revenue.ts).  The    *)
(* job reads the events that are spent deep enough and have no revenue in  *)
(* the table, and stores the assets of the boxes that their transactions   *)
(* pay to the guards, one insert after another.  That an event has revenue *)
(* in the table is all that tells the next job that it is done with.       *)
(***************************************************************************)
EXTENDS Naturals, Sequences

CONSTANTS
  Event,
  Boxes   \* [Event -> Seq([guards, tokens])]: the boxes of the transaction that
          \* spends the event, whether they are paid to one of the four addresses
          \* of the guards, and how many tokens they hold beside the ERG

BoxesTyped == Boxes \in [Event -> Seq([guards : BOOLEAN, tokens : Nat])]

VARIABLES
  confirmed,  \* the events spent by a transaction that is confirmed enough
  stored,     \* RevenueEntity: how often asset a of box b of event e is stored
  unsaved,    \* what the running job has read and not come to
  current,    \* the event, box and asset it is at
  cut         \* history: events that a job was interrupted at half way

vars == <<confirmed, stored, unsaved, current, cut>>

\* the assets of a box: 0 is its ERG
Asset(e) == {x \in (DOMAIN Boxes[e]) \X Nat : x[2] <= Boxes[e][x[1]].tokens}

\* insertRevenue is called for these
Due(e) == {x \in Asset(e) : Boxes[e][x[1]].guards}

NoEvent == [event |-> {}, box |-> 0, asset |-> 0]

Place == [event : {{e} : e \in Event} \cup {{}}, box : Nat, asset : Nat]

TypeOK ==
  /\ confirmed \in SUBSET Event
  /\ stored \in [Event -> [Nat \X Nat -> Nat]]
  /\ unsaved \in SUBSET Event
  /\ current \in Place
  /\ cut \in SUBSET Event

Init ==
  /\ confirmed = {}
  /\ stored = [e \in Event |-> [x \in Nat \X Nat |-> 0]]
  /\ unsaved = {}
  /\ current = NoEvent
  /\ cut = {}

Idle == unsaved = {} /\ current = NoEvent

Saved(e) == \E x \in Nat \X Nat : stored[e][x] > 0

\* getConfirmedUnsavedRevenueEvents
ReadUnsaved ==
  /\ Idle
  /\ unsaved' = {e \in confirmed : ~Saved(e)}
  /\ UNCHANGED <<confirmed, stored, current, cut>>

\* the transaction is read from the chain
NextEvent(e) ==
  /\ current = NoEvent
  /\ e \in unsaved
  /\ unsaved' = unsaved \ {e}
  /\ current' = [event |-> {e}, box |-> 1, asset |-> 0]
  /\ UNCHANGED <<confirmed, stored, cut>>

At(e, b, a) == current = [event |-> {e}, box |-> b, asset |-> a]

\* a box that is not for the guards
SkipBox(e, b) ==
  /\ At(e, b, 0)
  /\ b \in DOMAIN Boxes[e] /\ ~Boxes[e][b].guards
  /\ current' = [current EXCEPT !.box = b + 1]
  /\ UNCHANGED <<confirmed, stored, unsaved, cut>>

InsertRevenue(e, b, a) ==
  /\ At(e, b, a)
  /\ <<b, a>> \in Due(e)
  /\ stored' = [stored EXCEPT ![e][<<b, a>>] = @ + 1]
  /\ current' = IF a < Boxes[e][b].tokens
                THEN [current EXCEPT !.asset = a + 1]
                ELSE [current EXCEPT !.box = b + 1, !.asset = 0]
  /\ UNCHANGED <<confirmed, unsaved, cut>>

EndEvent(e) ==
  /\ At(e, Len(Boxes[e]) + 1, 0)
  /\ current' = NoEvent
  /\ UNCHANGED <<confirmed, stored, unsaved, cut>>

\* a call on the chain or the database throws, or the guard dies
Interrupt ==
  /\ ~Idle
  /\ unsaved' = {}
  /\ current' = NoEvent
  /\ cut' = cut \cup {e \in current.event : Saved(e)}
  /\ UNCHANGED <<confirmed, stored>>

Confirm(e) ==
  /\ e \notin confirmed
  /\ confirmed' = confirmed \cup {e}
  /\ UNCHANGED <<stored, unsaved, current, cut>>

RevenueJob ==
  \/ ReadUnsaved
  \/ \E e \in Event : NextEvent(e) \/ EndEvent(e)
  \/ \E e \in Event : \E b, a \in Nat : SkipBox(e, b) \/ InsertRevenue(e, b, a)

Next == RevenueJob \/ Interrupt \/ \E e \in Event : Confirm(e)

Spec == Init /\ [][Next]_vars

-----------------------------------------------------------------------------
(* Properties.                                                             *)

(***************************************************************************)
(* No asset is counted twice, and nothing but what the guards were paid,   *)
(* whatever interrupts the jobs and however often they run.                *)
(***************************************************************************)
CountedOnce == \A e \in Event : \A x \in Nat \X Nat :
  stored[e][x] <= (IF x \in Due(e) THEN 1 ELSE 0)

(***************************************************************************)
(* An event of which anything is stored is stored wholly when the job has  *)
(* gone on, unless a job was interrupted at it: the rest of such an event  *)
(* is never stored.                                                        *)
(***************************************************************************)
StoredWholly == \A e \in Event \ cut :
  Saved(e) /\ e \notin current.event => \A x \in Due(e) : stored[e][x] = 1

\* where the job is, what lies before is stored and what lies behind is not
Before(x, place) == \/ x[1] < place.box
                    \/ x[1] = place.box /\ x[2] < place.asset

IInv ==
  /\ TypeOK
  /\ CountedOnce
  /\ StoredWholly
  /\ \A e \in unsaved : ~Saved(e)
  /\ current.event \cap unsaved = {}
  /\ \A e \in current.event : \A x \in Nat \X Nat :
       IF Before(x, current) THEN x \in Due(e) => stored[e][x] = 1
       ELSE stored[e][x] = 0
=============================================================================

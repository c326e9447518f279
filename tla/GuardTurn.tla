----------------------------- MODULE GuardTurn -----------------------------
(***************************************************************************)
(* Whose turn it is to generate transactions, and the timers of the jobs   *)
(* that rest on it (src/src/utils/GuardTurn.ts and                         *)
(* src/src/jobs/runProcessors.ts).  The clock counts milliseconds; the     *)
(* code rounds it to seconds before it does anything else, and an interval *)
(* of TurnLength seconds belongs to one guard, of which the last part is a *)
(* gap that belongs to nobody.                                             *)
(***************************************************************************)
EXTENDS Integers

TurnLength == 180
UpTimeLength == 120

FullPeriod(guards) == guards * TurnLength

(* Math.round(Date.now() / 1000).                                          *)
Seconds(ms) == (ms + 500) \div 1000

(* guardTurn: -1 in the gap.                                               *)
TurnOf(ms, guards) ==
  LET point == Seconds(ms) % FullPeriod(guards)
  IN IF point % TurnLength > UpTimeLength THEN -1
     ELSE (point \div TurnLength) % guards

SecondsToNextTurn(ms, id, guards) ==
  ((id * TurnLength - (Seconds(ms) % FullPeriod(guards)) + FullPeriod(guards))
     % FullPeriod(guards)) + 1

SecondsToReset(ms) ==
  ((UpTimeLength - (Seconds(ms) % TurnLength) + TurnLength) % TurnLength) + 1

(***************************************************************************)
(* The jobs.  A timer set at `now' goes off no earlier than it was told    *)
(* to, and `late' milliseconds later than that.                            *)
(***************************************************************************)
RoundAt(now, id, guards, late) ==
  now + SecondsToNextTurn(now, id, guards) * 1000 + late

ResetAt(now, late) == now + SecondsToReset(now) * 1000 + late

(* agreementQueueJob and agreementResendJob do their work, and set their   *)
(* timer again, only under this condition.                                 *)
QueueJobRuns(ms) == SecondsToReset(ms) < UpTimeLength

(* The timer roundJob sets to clear the transactions it generates.         *)
ClearAt(round, late) == round + UpTimeLength * 1000 + late

(* ColdStorageConfig.isWithinTime, in the seconds of a day.                *)
WithinTime(ms, start, end) ==
  LET ofDay == Seconds(ms) % (24 * 60 * 60)
  IN start * 60 * 60 <= ofDay /\ ofDay <= end * 60 * 60

=============================================================================

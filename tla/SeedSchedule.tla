----------------------------- MODULE SeedSchedule -----------------------------
(* TrainingSeedSchedule: which case of the suite a worker's episode plays.     *)
EXTENDS Integers

CONSTANTS WorkerCount, CaseCount

\* __post_init__.
ASSUME ScheduleAssumption == WorkerCount \in Nat \ {0} /\ CaseCount \in Nat \ {0}

Position(worker, episode) == worker + episode * WorkerCount

CaseIndex(worker, episode) == Position(worker, episode) % CaseCount
===============================================================================

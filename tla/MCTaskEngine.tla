---------------------------- MODULE MCTaskEngine ----------------------------
(* Small instances of TaskEngine for TLC.                                   *)
EXTENDS TaskEngine

CONSTANTS t1, t2, t3

NoDeps == [t \in Task |-> {}]

\* t2 runs after t1.
Chained == [t \in Task |-> IF t = t2 THEN {t1} ELSE {}]

\* Retries always find a free id: the roots and all the attempts after them.
ASSUME EnoughRuns == MaxRuns >= MaxRoots * (MaxRetries + 1)
=============================================================================

---------------------------- MODULE MCCloudSync ----------------------------
EXTENDS CloudSync, TLC

CONSTANTS d1, d2

\* by json: three edits of the JSON file and two faults; two additions of the
\* book and one deletion or fault
MCMaxEdit == [b \in BOOLEAN |-> IF b THEN 3 ELSE 2]
MCMaxTrouble == [b \in BOOLEAN |-> IF b THEN 2 ELSE 1]

\* What Converges excepts is excepted for good, so nothing is looked for after it;
\* of the safety properties, those of the JSON file are still checked there.
Followed == json \/ {"hollow", "masked"} \cap mishap = {}
=============================================================================

---------------------------- MODULE MCServeLoop -----------------------------
EXTENDS ServeLoop, TLC

CONSTANT c1

\* A budget that a chatty or slow task breaches, and one nothing breaches.
MCBudgets == {[max_wall |-> 1, max_output |-> 2],
              [max_wall |-> 9, max_output |-> 9]}

Ample == {[max_wall |-> 9, max_output |-> 9]}

=============================================================================

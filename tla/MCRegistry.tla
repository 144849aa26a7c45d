----------------------------- MODULE MCRegistry -----------------------------
EXTENDS Admin

CONSTANTS c1, c2

\* A budget that the clock and the second line of output breach.
MCBudgets == {[max_wall |-> 2, max_output |-> 1]}

\* The operator's connections and a stranger's, and those that fail on the way.
MCConnections ==
  LET Line(verb, id) == [verb |-> verb, id |-> id]
      From(operator, nonce, line) == [operator |-> operator, nonce |-> nonce, line |-> line]
  IN  {From(c1, "right", Line(v, 1)) : v \in {"cancel", "kill"}}
      \cup {From(c1, "right", Line(v, 0)) : v \in {"status", "huge"}}
      \cup {From(c2, "right", Line("kill", 1)), From(c1, "rig", Line("kill", 1))}

=============================================================================

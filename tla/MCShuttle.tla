----------------------------- MODULE MCShuttle -----------------------------
EXTENDS Shuttle, TLC

CONSTANTS ship, berth, home, away, transition, console

\* One controller on the shuttle, one berth at home, none where it goes.
MCdocking_controller == [l \in {home, away} |-> IF l = home THEN ship ELSE NoTag]
MCdock_target == [l \in {home, away, transition} |-> IF l = home THEN berth ELSE NoTag]
============================================================================

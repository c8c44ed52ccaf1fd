---------------------------- MODULE MCPlannerClock ----------------------------
EXTENDS PlannerClock

\* Late on Mondays, at midnight on Mondays, and neither time nor day in range.
ThreeSettings == {[hhmm |-> 2, day |-> 1], [hhmm |-> 0, day |-> 1], [hhmm |-> 7, day |-> 9]}
=============================================================================

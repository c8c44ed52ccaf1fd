---------------------------- MODULE MCNoticesSync ----------------------------
EXTENDS NoticesSync, TLC

CONSTANTS n1, u1

\* A notice and an update.
TwoBoards == (n1 :> "NOTICE") @@ (u1 :> "UPDATE")
=============================================================================

----------------------------- MODULE MCWindows -----------------------------
(* Module Windows on two characters and one task. *)
EXTENDS Windows

CONSTANTS a, b, t1
MCCharacters == {a, b}
MCTasks == {t1}
=============================================================================

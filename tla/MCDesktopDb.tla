----------------------------- MODULE MCDesktopDb -----------------------------
(* The desktop persistence layer for TLC: few calls, a sync among them. *)
EXTENDS DesktopDb
=============================================================================

---------------------------- MODULE DurableStore ----------------------------
(***************************************************************************)
(* What the desktop database promises the rest of the hub, without saying  *)
(* how: operations are applied to a volatile copy in some order, the       *)
(* stable copy is at every moment a prefix of that order, it is never      *)
(* rolled back, and an operation is acknowledged to its caller only once   *)
(* the stable copy holds it.  A process exit loses exactly the suffix that *)
(* is not stable yet.                                                      *)
(***************************************************************************)
EXTENDS Naturals, SequencesExt

CONSTANT Ops       \* the operations callers may ask for, each one at most once

VARIABLES
    volatile,      \* the operations the in-memory image holds, in order
    stable,        \* the operations the database file holds, in order
    acked          \* the operations whose caller was told they succeeded

absVars == <<volatile, stable, acked>>

Init ==
    /\ volatile = << >>
    /\ stable = << >>
    /\ acked = {}

Apply(op) ==
    /\ volatile' = Append(volatile, op)
    /\ UNCHANGED <<stable, acked>>

\* The stable copy catches up with some state the volatile copy went through.
Save ==
    /\ stable' \in Seq(Ops)
    /\ IsPrefix(stable, stable')
    /\ IsPrefix(stable', volatile)
    /\ UNCHANGED <<volatile, acked>>

Acknowledge(op) ==
    /\ Contains(stable, op)
    /\ acked' = acked \cup {op}
    /\ UNCHANGED <<volatile, stable>>

\* The process ends: the next one starts from the stable copy.
LoseVolatile ==
    /\ volatile' = stable
    /\ UNCHANGED <<stable, acked>>

Next ==
    \/ \E op \in Ops : Apply(op) \/ Acknowledge(op)
    \/ Save
    \/ LoseVolatile

Spec == Init /\ [][Next]_absVars
=============================================================================

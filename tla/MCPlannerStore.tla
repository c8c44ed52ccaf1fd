--------------------------- MODULE MCPlannerStore ---------------------------
EXTENDS PlannerStore, TLC

\* Characters, templates and keys are interchangeable.
Symmetry ==
    Permutations(CharIds) \cup Permutations(TmplIds) \cup Permutations(Keys)
=============================================================================

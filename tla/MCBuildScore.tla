----------------------------- MODULE MCBuildScore -----------------------------
EXTENDS BuildScore, TLC

\* Characters and presets are interchangeable.
Symmetry == Permutations(Chars) \cup Permutations(PresetIds)
=============================================================================

---------------------------- MODULE MCConfigStore ----------------------------
(* Two windows with two saves under way between them, two contents.        *)
EXTENDS ConfigStore, TLC

CONSTANTS w1, w2, s1, s2, a, b

MCWindows == {w1, w2}
MCSaves == {s1, s2}
MCValues == {a, b}
Symmetry == Permutations(MCWindows) \cup Permutations(MCSaves) \cup Permutations(MCValues)
=============================================================================

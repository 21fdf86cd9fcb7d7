---------------------------- MODULE MCOnboarding ----------------------------
(* Values of the constants of Onboarding for model checking. *)
EXTENDS Onboarding, TLC

CONSTANTS w1, w2, h1, h2, p1, p2, nothing

TwoWorkers == {w1, w2}
TwoHosts == {h1, h2}
TwoTexts == {p1, p2}

Symmetry ==
  Permutations(TwoWorkers) \cup Permutations(TwoHosts) \cup Permutations(TwoTexts)
=============================================================================

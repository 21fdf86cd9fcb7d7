----------------------------- MODULE MCCuration -----------------------------
(* Values of the constants of Curation for model checking.                  *)
EXTENDS Curation, TLC

CONSTANTS s1, s2, ann, bob, e1, n1, hello, hallo, nothing

OneServer == {s1}
TwoServers == {s1, s2}
OneMember == {ann}
TwoMembers == {ann, bob}
OneEvent == {e1}
OneNote == {n1}
TwoTexts == {hello, hallo}
AllFaults == FaultKinds
NoFaults == {}

(* Servers are interchangeable, and so are texts.                           *)
Symmetry == Permutations(TwoServers) \cup Permutations(TwoTexts)
=============================================================================

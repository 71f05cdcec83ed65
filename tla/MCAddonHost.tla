----------------------------- MODULE MCAddonHost -----------------------------
(* Values of the constants of AddonHost for TLC. *)
EXTENDS AddonHost, TLC

\* Two commands; "Go" and "go" are two spellings of one of them.
MCLower == [n \in Names |-> IF n = "Go" THEN "go" ELSE n]

KeySymmetry == Permutations(Keys)
=============================================================================

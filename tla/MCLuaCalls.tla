----------------------------- MODULE MCLuaCalls -----------------------------
(* Values of the constants of LuaCalls for TLC. *)
EXTENDS LuaCalls, TLC
CONSTANTS a, b

CoroutineSymmetry == Permutations({a, b})
=============================================================================

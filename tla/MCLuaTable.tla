---------------------------- MODULE MCLuaTable ----------------------------
(* Values of the constants of LuaTable for TLC. *)
EXTENDS LuaTable, TLC
CONSTANT s

\* What luai_hashnum gives 1..6, modulo 21: node vectors of 4 and of 8 nodes
\* take it modulo 3 and modulo 7.
NumHash == <<1, 3, 19, 6, 7, 8>>
MCHashes == {[k \in Keys |-> IF k = s THEN x ELSE NumHash[k]] : x \in {0, 3}}
MCCreates == {<<0, 0>>, <<3, 2>>}
MCConstructors == {<<2, {1, 2}>>, <<4, {1, 4}>>}
=============================================================================

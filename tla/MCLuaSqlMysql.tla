---------------------------- MODULE MCLuaSqlMysql ----------------------------
(* Values of the constants of LuaSqlMysql for TLC. *)
EXTENDS LuaSqlMysql, TLC
CONSTANTS names1, types1, q1

MCNameTable == [q \in Curs |-> names1]
MCTypeTable == [q \in Curs |-> types1]
MCHolders == Wrappers \cup {EnvOf(c) : c \in Conns} \cup UNION {CursorFields(q) : q \in Curs}
MCCareless == UNION {{NamesOf(q), TypesOf(q)} : q \in Curs}
MCValues == {Main, Globals, Env, Function, names1, types1} \cup Conns \cup Curs
=============================================================================

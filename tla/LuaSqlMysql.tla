----------------------------- MODULE LuaSqlMysql -----------------------------
(***************************************************************************)
(* LuaSQL's driver for MySQL (ls_mysql.h) and the Lua values that .NET     *)
(* holds (LuaBase, ObjectTranslator): the users of the registry of one Lua *)
(* state, with the finalizers of Lua and of .NET and with lua_close, in    *)
(* which the finalizers of scripts may call every method.                  *)
(*                                                                         *)
(* A method sets the fields of its userdata and then makes the calls in    *)
(* todo, each of which takes the steps of LuaRegistry.  The client library *)
(* of MySQL is external: a stored result needs no connection, so cursors   *)
(* outlive the closing of theirs.  commit, rollback and setautocommit      *)
(* forward to it and change nothing here.                                  *)
(***************************************************************************)
EXTENDS LuaRegistry, FiniteSets

CONSTANTS Conns, Curs,  \* connection and cursor userdata, and
          Wrappers,     \* LuaBase objects, each made at most once
          Env,          \* the environment
          Function,     \* a value of Lua that only .NET refers to
          NameTable, TypeTable   \* the column tables of each cursor

EnvOf(c) == <<"env", c>>
ConnOf(q) == <<"conn", q>>
NamesOf(q) == <<"names", q>>
TypesOf(q) == <<"types", q>>
CursorFields(q) == {ConnOf(q), NamesOf(q), TypesOf(q)}
Fields(x) == IF x \in Conns THEN {EnvOf(x)} ELSE CursorFields(x)

ASSUME MysqlAssumption ==
    /\ Holders = Wrappers \cup {EnvOf(c) : c \in Conns} \cup UNION {CursorFields(q) : q \in Curs}
    /\ Conns \cap Curs = {}
    /\ Forgetful = Wrappers
    /\ Careless = UNION {{NamesOf(q), TypesOf(q)} : q \in Curs}
    /\ \A w \in Wrappers : /\ \A c \in Conns : w # EnvOf(c)
                           /\ \A q \in Curs : w \notin CursorFields(q)
    /\ Values = {Main, Globals, Env, Function} \cup Conns \cup Curs
                  \cup {NameTable[q] : q \in Curs} \cup {TypeTable[q] : q \in Curs}

VARIABLES
    env,        \* TRUE: the environment is open
    conn,       \* conn[c]: "open" or "closed"
    cur,        \* cur[q]: the same, or "stale": closed while its columns were described
    parent,     \* parent[q]: the connection that q was created for (history)
    result,     \* the cursors whose MYSQL_RES is not freed
    life,       \* life[x]: "none" before x is made and "freed" in the end; meanwhile
                \* its finalizer is "due" ("late": x was made while lua_close ran),
                \* "separated" to be called next, or was "called"
    describing, \* the cursor whose create_colinfo a collection has interrupted, or Nil
    wrap,       \* wrap[w]: "none" before w is made, "live" or "disposed"
    reachable,  \* the userdata that a script can reach
    phase,      \* "running", "closing" while lua_close runs finalizers, or "swept"
    todo        \* the registry calls the method still makes

sqlVars == <<env, conn, cur, parent, result, life, describing, wrap, reachable, phase>>
vars == <<regVars, sqlVars, todo>>

\* The thread that has the Lua state is between two methods, or a collection has
\* interrupted one.  Finalizers of scripts run in lua_close, too.
Ready == todo = <<>> /\ Quiet
Script == Ready /\ phase # "swept"

\* Bound: n more references fit into the registry, besides those being described.
Room(n) == Cardinality(held) + Cardinality(leaked) + n
             + (IF describing = Nil THEN 0 ELSE 2) <= MaxSlot - 2

Take(h, v) == [op |-> "ref", h |-> h, v |-> v]
Release(h) == [op |-> "unref", h |-> h]

-----------------------------------------------------------------------------
(* Methods of LuaSQL *)

EnvClose ==
    /\ Script /\ env
    /\ env' = FALSE
    /\ UNCHANGED <<regVars, conn, cur, parent, result, life, describing, wrap, reachable, phase, todo>>

\* A userdata with a finalizer is made.
Made(x) ==
    /\ life[x] = "none"
    /\ life' = [life EXCEPT ![x] = IF phase = "closing" THEN "late" ELSE "due"]
    /\ reachable' = reachable \cup {x}

\* env_connect and create_connection
Connect(c) ==
    /\ Script /\ env /\ Room(1)
    /\ conn' = [conn EXCEPT ![c] = "open"]
    /\ Made(c)
    /\ todo' = <<Take(EnvOf(c), Env)>>
    /\ UNCHANGED <<regVars, env, cur, parent, result, describing, wrap, phase>>

UsableConn(c) == Script /\ c \in reachable /\ conn[c] = "open"
UsableCur(q) == Script /\ q \in reachable /\ cur[q] = "open"

\* As it would be, had the cursor no reference to its connection.
ExecuteAlone(c, q) ==
    /\ UsableConn(c) /\ Room(1)
    /\ cur' = [cur EXCEPT ![q] = "open"]
    /\ parent' = [parent EXCEPT ![q] = c]
    /\ result' = result \cup {q}
    /\ Made(q)
    /\ UNCHANGED <<regVars, env, conn, describing, wrap, phase, todo>>

\* conn_execute with a query, and create_cursor
Execute(c, q) ==
    /\ UsableConn(c) /\ Room(1)
    /\ cur' = [cur EXCEPT ![q] = "open"]
    /\ parent' = [parent EXCEPT ![q] = c]
    /\ result' = result \cup {q}
    /\ Made(q)
    /\ todo' = <<Take(ConnOf(q), c)>>
    /\ UNCHANGED <<regVars, env, conn, describing, wrap, phase>>

KeepColumns(q) == <<Take(TypesOf(q), TypeTable[q]), Take(NamesOf(q), NameTable[q])>>

\* cur_fetch with "a", cur_getcolnames, cur_getcoltypes: create_colinfo, once.
ColumnInfo(q) ==
    /\ UsableCur(q) /\ Room(2)
    /\ ref[NamesOf(q)] = NoRef
    /\ todo' = KeepColumns(q)
    /\ UNCHANGED <<regVars, sqlVars>>

\* The same, where making the tables starts a collection, whose finalizers run first.
\* None of them starts another one; lua_close, which runs in no script, neither.
ColumnInfoBegins(q) ==
    /\ UsableCur(q) /\ Room(2)
    /\ phase = "running" /\ describing = Nil
    /\ ref[NamesOf(q)] = NoRef
    /\ describing' = q
    /\ UNCHANGED <<regVars, env, conn, cur, parent, result, life, wrap, reachable, phase, todo>>

ColumnInfoEnds ==
    /\ Ready /\ describing # Nil
    /\ todo' = KeepColumns(describing)
    /\ describing' = Nil
    /\ UNCHANGED <<regVars, env, conn, cur, parent, result, life, wrap, reachable, phase>>

\* As it would be, without mysql_free_result.
NullifyKeepingResult(q) ==
    /\ cur' = [cur EXCEPT ![q] = IF describing = q THEN "stale" ELSE "closed"]
    /\ UNCHANGED result
    /\ todo' = <<Release(ConnOf(q)), Release(NamesOf(q)), Release(TypesOf(q))>>

\* cur_nullify
Nullify(q) ==
    /\ cur' = [cur EXCEPT ![q] = IF describing = q THEN "stale" ELSE "closed"]
    /\ result' = result \ {q}
    /\ todo' = <<Release(ConnOf(q)), Release(NamesOf(q)), Release(TypesOf(q))>>

\* cur_fetch at the end of the rows, and cur_close
CursorEnds(q) ==
    /\ UsableCur(q)
    /\ Nullify(q)
    /\ UNCHANGED <<regVars, env, conn, parent, life, describing, wrap, reachable, phase>>

\* As it would be, had conn_gc kept the reference to the environment.
ShutDownKeepingEnv(c) ==
    /\ conn' = [conn EXCEPT ![c] = "closed"]
    /\ UNCHANGED todo

ShutDown(c) ==
    /\ conn' = [conn EXCEPT ![c] = "closed"]
    /\ todo' = <<Release(EnvOf(c))>>

\* conn_close
ConnClose(c) ==
    /\ UsableConn(c)
    /\ ShutDown(c)
    /\ UNCHANGED <<regVars, env, cur, parent, result, life, describing, wrap, reachable, phase>>

-----------------------------------------------------------------------------
(* The garbage collector of Lua *)

Drop(x) ==
    /\ Script
    /\ x \in reachable
    /\ reachable' = reachable \ {x}
    /\ UNCHANGED <<regVars, env, conn, cur, parent, result, life, describing, wrap, phase, todo>>

\* No script, no slot of the registry and no method under way refers to x.
Garbage(x) == x \notin reachable /\ x # describing /\ \A s \in Slots : reg[s] # x

\* A collection finds x; in lua_close, one that a finalizer asks for.
Separate(x) ==
    /\ Ready /\ phase # "swept"
    /\ life[x] \in {"due", "late"} /\ Garbage(x)
    /\ life' = [life EXCEPT ![x] = "separated"]
    /\ UNCHANGED <<regVars, env, conn, cur, parent, result, describing, wrap, reachable, phase, todo>>

\* A finalizer of a script takes x back from a weak-key table, or from another
\* object found with x.
Regain(x) ==
    /\ Script
    /\ life[x] \in {"separated", "called"} /\ x \notin reachable
    /\ reachable' = reachable \cup {x}
    /\ UNCHANGED <<regVars, env, conn, cur, parent, result, life, describing, wrap, phase, todo>>

Called(x) == life[x] = "separated" /\ life' = [life EXCEPT ![x] = "called"]

\* As it would be, had cur_gc not asked whether the cursor is closed.
CollectAnyCursor(q) ==
    /\ Ready /\ Called(q)
    /\ Nullify(q)
    /\ UNCHANGED <<regVars, env, conn, parent, describing, wrap, reachable, phase>>

\* cur_gc
CollectCursor(q) ==
    /\ Ready /\ Called(q)
    /\ \/ cur[q] = "open" /\ Nullify(q)
       \/ cur[q] # "open" /\ UNCHANGED <<cur, result, todo>>
    /\ UNCHANGED <<regVars, env, conn, parent, describing, wrap, reachable, phase>>

\* conn_gc
CollectConn(c) ==
    /\ Ready /\ Called(c)
    /\ \/ conn[c] = "open" /\ ShutDown(c)
       \/ conn[c] # "open" /\ UNCHANGED <<conn, todo>>
    /\ UNCHANGED <<regVars, env, cur, parent, result, describing, wrap, reachable, phase>>

\* The end of a userdata, in a later collection
Freed(x) ==
    /\ Ready /\ phase # "swept"
    /\ life[x] = "called" /\ Garbage(x)
    /\ life' = [life EXCEPT ![x] = "freed"]
    /\ Reset(Fields(x))
    /\ UNCHANGED <<env, conn, cur, parent, result, describing, wrap, reachable, phase, todo>>

\* As it would be, had lua_close separated only what it finds unreachable.
CloseStateAsUsual ==
    /\ Script /\ phase = "running" /\ describing = Nil
    /\ phase' = "closing"
    /\ UNCHANGED <<regVars, env, conn, cur, parent, result, life, describing, wrap, reachable, todo>>

\* Lua.Close, from Addon.Release: lua_close separates all that have a finalizer.
CloseState ==
    /\ Script /\ phase = "running" /\ describing = Nil
    /\ phase' = "closing"
    /\ life' = [x \in Conns \cup Curs |-> IF life[x] = "due" THEN "separated" ELSE life[x]]
    /\ UNCHANGED <<regVars, env, conn, cur, parent, result, describing, wrap, reachable, todo>>

\* All finalizers have been called; lua_close frees the memory of what is left.
Sweep ==
    /\ Ready /\ phase = "closing"
    /\ \A x \in Conns \cup Curs : life[x] # "separated"
    /\ phase' = "swept"
    /\ UNCHANGED <<regVars, env, conn, cur, parent, result, life, describing, wrap, reachable, todo>>

-----------------------------------------------------------------------------
(* Values held by .NET *)

\* GetTable, GetUserData, GetFunction of the translator
Wrap(w, v) ==
    /\ Script /\ Room(1)
    /\ wrap[w] = "none"
    /\ wrap' = [wrap EXCEPT ![w] = "live"]
    /\ todo' = <<Take(w, v)>>
    /\ UNCHANGED <<regVars, env, conn, cur, parent, result, life, describing, reachable, phase>>

\* LuaBase.Dispose, which releases the reference the first time only
Dispose(w) ==
    /\ Script
    /\ wrap[w] = "live"
    /\ wrap' = [wrap EXCEPT ![w] = "disposed"]
    /\ todo' = <<Release(w)>>
    /\ UNCHANGED <<regVars, env, conn, cur, parent, result, life, describing, reachable, phase>>

\* LuaBase.push: .NET hands the value back to a script.
Push(w) ==
    /\ Script
    /\ wrap[w] = "live"
    /\ reachable' = reachable \cup ({reg[ref[w]]} \cap (Conns \cup Curs))
    /\ UNCHANGED <<regVars, env, conn, cur, parent, result, life, describing, wrap, phase, todo>>

\* ~LuaBase, on the finalizer thread, between any two steps of the others; Dispose
\* has suppressed it.
Finalize(w) ==
    /\ wrap[w] = "live"
    /\ wrap' = [wrap EXCEPT ![w] = "disposed"]
    /\ Forget(w)
    /\ UNCHANGED <<env, conn, cur, parent, result, life, describing, reachable, phase, todo>>

-----------------------------------------------------------------------------
(* The calls of luaL_ref and luaL_unref *)

CallBegins ==
    /\ todo # <<>> /\ Quiet
    /\ LET next == Head(todo)
       IN  \/ next.op = "ref" /\ RefBegin(next.h, next.v)
           \/ next.op = "unref" /\ (UnrefBegin(next.h) \/ UnrefNothing(next.h))
    /\ todo' = Tail(todo)
    /\ UNCHANGED sqlVars

CallGoesOn ==
    /\ RefPop \/ RefStore \/ UnrefEnd
    /\ UNCHANGED <<sqlVars, todo>>

-----------------------------------------------------------------------------
Init ==
    /\ RegInit
    /\ env = TRUE
    /\ conn = [c \in Conns |-> "closed"]
    /\ cur = [q \in Curs |-> "closed"]
    /\ parent \in [Curs -> Conns]
    /\ result = {}
    /\ life = [x \in Conns \cup Curs |-> "none"]
    /\ describing = Nil
    /\ wrap = [w \in Wrappers |-> "none"]
    /\ reachable = {}
    /\ phase = "running"
    /\ todo = <<>>

Next ==
    \/ \E c \in Conns : Connect(c) \/ ConnClose(c) \/ CollectConn(c)
    \/ \E c \in Conns, q \in Curs : Execute(c, q)
    \/ \E q \in Curs : \/ ColumnInfo(q) \/ ColumnInfoBegins(q)
                       \/ CursorEnds(q) \/ CollectCursor(q)
    \/ \E w \in Wrappers : \/ \E v \in reachable \cup {Function} : Wrap(w, v)
                           \/ Dispose(w) \/ Push(w) \/ Finalize(w)
    \/ \E x \in Conns \cup Curs : Drop(x) \/ Separate(x) \/ Regain(x) \/ Freed(x)
    \/ EnvClose \/ ColumnInfoEnds \/ CloseState \/ Sweep \/ CallBegins \/ CallGoesOn

Spec == Init /\ [][Next]_vars

\* lua_close calls the finalizers one after the other, each to its end, although those
\* of scripts take steps between and within them; then it frees the rest.
FairSpec ==
    /\ Spec
    /\ WF_vars(CallBegins) /\ WF_vars(CallGoesOn)
    /\ SF_vars(phase = "closing" /\ (\/ \E c \in Conns : CollectConn(c)
                                     \/ \E q \in Curs : CollectCursor(q)))
    /\ SF_vars(Sweep)

-----------------------------------------------------------------------------
(* Properties *)

TypeOK ==
    /\ env \in BOOLEAN /\ phase \in {"running", "closing", "swept"}
    /\ conn \in [Conns -> {"open", "closed"}]
    /\ cur \in [Curs -> {"open", "closed", "stale"}]
    /\ parent \in [Curs -> Conns]
    /\ result = {q \in Curs : cur[q] = "open"}
    /\ life \in [Conns \cup Curs -> {"none", "due", "late", "separated", "called", "freed"}]
    /\ describing \in Curs \cup {Nil}
    /\ wrap \in [Wrappers -> {"none", "live", "disposed"}]
    /\ reachable \subseteq Conns \cup Curs
    /\ Len(todo) <= 3

\* An open cursor keeps its connection alive through the registry, although the
\* script may have dropped and closed it (ls_mysql.h:438).
CursorKeepsConnection ==
    \A q \in Curs : cur[q] = "open" => life[parent[q]] \notin {"none", "freed"}

\* Between two methods a reference is in force exactly for the objects that are in
\* use: nothing of a closed cursor or connection stays in the registry, but for the
\* column tables of a cursor that was closed while they were being made.
Overtaken == {q \in Curs \ {describing} : cur[q] = "stale" /\ life[q] # "freed"}
ReferencesMatchUse ==
    Ready =>
      held = {EnvOf(c) : c \in {d \in Conns : conn[d] = "open"}}
             \cup {ConnOf(q) : q \in result}
             \cup {h \in UNION {{NamesOf(q), TypesOf(q)} : q \in result} : ref[h] # NoRef}
             \cup (UNION {{NamesOf(q), TypesOf(q)} : q \in Overtaken})
             \cup {w \in Wrappers : wrap[w] = "live"}

\* lua_close closes every connection to the server and frees every result, but for
\* those that finalizers of scripts make meanwhile.
CloseReleasesServer ==
    [](phase = "closing" =>
         <>(/\ phase = "swept"
            /\ \A q \in result : life[q] = "late"
            /\ \A c \in Conns : conn[c] = "open" => life[c] = "late"))
=============================================================================

---------------------------- MODULE LuaSqlSqlite ----------------------------
(***************************************************************************)
(* LuaSQL's driver for SQLite (ls_sqlite3.h): one environment, its         *)
(* connections and their cursors, as the scripts of one Lua state use      *)
(* them, with the finalizers the garbage collector runs and with the       *)
(* closing of the Lua state.                                               *)
(*                                                                         *)
(* SQLite itself is external and modelled from how the driver uses it: a   *)
(* connection has at most one transaction, a statement is active from its  *)
(* first row to its last, ROLLBACK is refused while a statement of the     *)
(* connection is active (SQLite 3.7.9, the version under src/Lua/SQLite),  *)
(* COMMIT and writes may be refused at any time (SQLITE_BUSY), and on the  *)
(* connections in fragile a failing statement may end the transaction      *)
(* (full disk, I/O error).                                                 *)
(*                                                                         *)
(* The collector separates an unreachable userdata for its finalizer, or   *)
(* lua_close separates all; until the finalizer has run, and in those of   *)
(* lua_close to the end, the finalizers of the scripts' own objects are    *)
(* Lua code that may use the userdata, drop it or keep it.                 *)
(*                                                                         *)
(* A write is a member of Writes, issued once.  Rows, column names and     *)
(* types, escape, getlastautoid and error texts are left out.              *)
(***************************************************************************)
EXTENDS Naturals, Sequences, FiniteSets

CONSTANTS
    Conns, Curs,     \* connection and cursor userdata, each created once
    Writes           \* statements that change the database

ASSUME SqliteAssumption == /\ Conns \cap Curs = {}
                           /\ IsFiniteSet(Curs)

VARIABLES
    env,         \* TRUE: the environment is open
    fragile,     \* where a failing statement may roll its transaction back
    conn,        \* conn[c]: "none", "open", "closed", or "torn": closed for the
                 \* scripts and open in SQLite
    auto,        \* conn[c]'s auto_commit
    counter,     \* its cur_counter
    cur,         \* cur[q]: "none", "open" or "closed"
    parent,      \* parent[q]: the connection q refers to
    active,      \* the cursors whose statement is between two rows
    held,        \* the userdata that a script can reach
    born,        \* all userdata in the order of their creation
    tobefnz,     \* the userdata whose finalizer is still to be called, in order
    spent,       \* the userdata whose finalizer was called
    late,        \* made in lua_close, or on a connection already given up (history)
    phase,       \* "running", "closing" (lua_close runs the finalizers) or "swept"
    tx,          \* the connections with an open transaction in SQLite
    pending,     \* pending[c]: writes of that transaction
    durable      \* durable[c]: writes of c that are in the database

dbVars == <<tx, pending, durable>>
luaVars == <<held, born, tobefnz, spent, late, phase>>
curVars == <<cur, parent, active>>
driverVars == <<env, fragile, conn, auto, counter, curVars, dbVars>>
vars == <<driverVars, luaVars>>

ConnStates == {"none", "open", "torn", "closed"}
CurStates  == {"none", "open", "closed"}
Userdata   == Conns \cup Curs

Exists(x) == IF x \in Conns THEN conn[x] # "none" ELSE cur[x] # "none"
Separated == {tobefnz[i] : i \in 1..Len(tobefnz)}
GivenUp(x) == x \in Separated \cup spent

\* Lua code runs until lua_close has called the last finalizer.
Script == phase # "swept"

\* lua_newuserdata and luasql_setmeta
Create(x, isLate) ==
    /\ held' = held \cup {x}
    /\ born' = Append(born, x)
    /\ late' = IF isLate THEN late \cup {x} ELSE late
    /\ UNCHANGED <<tobefnz, spent, phase>>

\* getconnection_sqlite, getcursor_sqlite: what every method checks first.
UsableConn(c) == Script /\ c \in held /\ conn[c] = "open"
UsableCur(q)  == Script /\ q \in held /\ cur[q] = "open"

Busy(c) == \E q \in active : parent[q] = c
-----------------------------------------------------------------------------
(* Environment *)

\* env_connect_sqlite and create_connection; a failing sqlite3_open creates
\* nothing.
Connect(c) ==
    /\ Script /\ env
    /\ conn[c] = "none"
    /\ conn' = [conn EXCEPT ![c] = "open"]
    /\ auto' = [auto EXCEPT ![c] = TRUE]
    /\ counter' = [counter EXCEPT ![c] = 0]
    /\ Create(c, phase = "closing")
    /\ UNCHANGED <<env, fragile, curVars, dbVars>>

\* env_close_sqlite, env_gc_sqlite: open connections do not matter.
EnvClose ==
    /\ Script /\ env
    /\ env' = FALSE
    /\ UNCHANGED <<fragile, conn, auto, counter, curVars, luaVars, dbVars>>
-----------------------------------------------------------------------------
(* conn_execute_sqlite *)

\* A query: the statement is reset and becomes a cursor (create_cursor).
\* (mutant: the counter is not incremented)
ExecuteUncounted(c, q) ==
    /\ UsableConn(c)
    /\ cur[q] = "none"
    /\ cur' = [cur EXCEPT ![q] = "open"]
    /\ parent' = [parent EXCEPT ![q] = c]
    /\ Create(q, phase = "closing" \/ GivenUp(c))
    /\ UNCHANGED <<env, fragile, conn, auto, counter, active, dbVars>>

ExecuteQuery(c, q) ==
    /\ UsableConn(c)
    /\ cur[q] = "none"
    /\ cur' = [cur EXCEPT ![q] = "open"]
    /\ parent' = [parent EXCEPT ![q] = c]
    /\ counter' = [counter EXCEPT ![c] = @ + 1]
    /\ Create(q, phase = "closing" \/ GivenUp(c))
    /\ UNCHANGED <<env, fragile, conn, auto, active, dbVars>>

\* The same, when lua_newuserdata steps the collector and the finalizer of an object
\* of the script closes this connection: the counter is still zero, sqlite3_close
\* refuses because of the statement, and the cursor is created all the same.  (In a
\* finalizer the collector does not step.)
ExecuteClosed(c, q) ==
    /\ UsableConn(c)
    /\ phase = "running" /\ counter[c] = 0
    /\ cur[q] = "none"
    /\ conn' = [conn EXCEPT ![c] = "torn"]
    /\ cur' = [cur EXCEPT ![q] = "open"]
    /\ parent' = [parent EXCEPT ![q] = c]
    /\ counter' = [counter EXCEPT ![c] = @ + 1]
    /\ Create(q, GivenUp(c))
    /\ UNCHANGED <<env, fragile, auto, active, dbVars>>

\* A statement that changes the database runs to its end at once.
ExecuteWrite(c, w) ==
    /\ UsableConn(c)
    /\ \A d \in Conns : w \notin pending[d] \cup durable[d]
    /\ IF c \in tx THEN /\ pending' = [pending EXCEPT ![c] = @ \cup {w}]
                        /\ UNCHANGED durable
                   ELSE /\ durable' = [durable EXCEPT ![c] = @ \cup {w}]
                        /\ UNCHANGED pending
    /\ UNCHANGED <<env, fragile, conn, auto, counter, curVars, luaVars, tx>>

\* A statement fails and takes its transaction with it.
ExecuteFails(c) ==
    /\ UsableConn(c)
    /\ c \in fragile \cap tx
    /\ tx' = tx \ {c}
    /\ pending' = [pending EXCEPT ![c] = {}]
    /\ UNCHANGED <<env, fragile, conn, auto, counter, curVars, luaVars, durable>>
-----------------------------------------------------------------------------
(* Transactions *)

\* conn_commit_sqlite: "COMMIT", or "COMMIT;BEGIN".  Without a transaction
\* COMMIT is an error and BEGIN is not run.  (mutant: only COMMIT)
CommitOnly(c) ==
    /\ UsableConn(c)
    /\ c \in tx
    /\ durable' = [durable EXCEPT ![c] = @ \cup pending[c]]
    /\ pending' = [pending EXCEPT ![c] = {}]
    /\ tx' = tx \ {c}
    /\ UNCHANGED <<env, fragile, conn, auto, counter, curVars, luaVars>>

Commit(c) ==
    /\ UsableConn(c)
    /\ c \in tx
    /\ durable' = [durable EXCEPT ![c] = @ \cup pending[c]]
    /\ pending' = [pending EXCEPT ![c] = {}]
    /\ tx' = IF auto[c] THEN tx \ {c} ELSE tx
    /\ UNCHANGED <<env, fragile, conn, auto, counter, curVars, luaVars>>

\* conn_rollback_sqlite: "ROLLBACK", or "ROLLBACK;BEGIN".
Rollback(c) ==
    /\ UsableConn(c)
    /\ c \in tx /\ ~Busy(c)
    /\ pending' = [pending EXCEPT ![c] = {}]
    /\ tx' = IF auto[c] THEN tx \ {c} ELSE tx
    /\ UNCHANGED <<env, fragile, conn, auto, counter, curVars, luaVars, durable>>

\* conn_setautocommit_sqlite(true): errors of ROLLBACK are ignored.
AutoCommitOn(c) ==
    /\ UsableConn(c)
    /\ auto' = [auto EXCEPT ![c] = TRUE]
    /\ IF c \in tx /\ ~Busy(c)
       THEN /\ tx' = tx \ {c}
            /\ pending' = [pending EXCEPT ![c] = {}]
       ELSE UNCHANGED <<tx, pending>>
    /\ UNCHANGED <<env, fragile, conn, counter, curVars, luaVars, durable>>

\* conn_setautocommit_sqlite(false): the flag first, then BEGIN, which is an
\* error when a transaction is open.
AutoCommitOff(c) ==
    /\ UsableConn(c)
    /\ auto' = [auto EXCEPT ![c] = FALSE]
    /\ tx' = tx \cup {c}
    /\ UNCHANGED <<env, fragile, conn, counter, curVars, luaVars, pending, durable>>
-----------------------------------------------------------------------------
(* Cursors *)

\* sqlite3_finalize and cur_nullify.  (mutant: the counter is left alone)
NullifyOnly(q) ==
    /\ cur' = [cur EXCEPT ![q] = "closed"]
    /\ active' = active \ {q}
    /\ UNCHANGED <<parent, counter>>

Nullify(q) ==
    /\ cur' = [cur EXCEPT ![q] = "closed"]
    /\ active' = active \ {q}
    /\ counter' = [counter EXCEPT ![parent[q]] = @ - 1]
    /\ UNCHANGED parent

\* cur_fetch_sqlite: a row...
FetchRow(q) ==
    /\ UsableCur(q)
    /\ active' = active \cup {q}
    /\ UNCHANGED <<env, fragile, conn, auto, counter, cur, parent, luaVars, dbVars>>

\* ...or no more rows, or an error; and cur_close_sqlite.
CursorEnds(q) ==
    /\ UsableCur(q)
    /\ Nullify(q)
    /\ UNCHANGED <<env, fragile, conn, auto, luaVars, dbVars>>
-----------------------------------------------------------------------------
(* Closing connections *)

\* What sqlite3_close does to the transaction, and the end of conn_gc_sqlite.
ShutDown(c) ==
    /\ conn' = [conn EXCEPT ![c] = "closed"]
    /\ tx' = tx \ {c}
    /\ pending' = [pending EXCEPT ![c] = {}]

\* conn_close_sqlite, refused while there are open cursors.  (mutant: not
\* refused)
CloseAnyway(c) ==
    /\ UsableConn(c)
    /\ ShutDown(c)
    /\ UNCHANGED <<env, fragile, auto, counter, curVars, luaVars, durable>>

ConnClose(c) ==
    /\ UsableConn(c)
    /\ counter[c] = 0
    /\ ShutDown(c)
    /\ UNCHANGED <<env, fragile, auto, counter, curVars, luaVars, durable>>
-----------------------------------------------------------------------------
(* The garbage collector of Lua *)

\* A script forgets a userdata...
Drop(x) ==
    /\ Script
    /\ x \in held
    /\ held' = held \ {x}
    /\ UNCHANGED <<driverVars, born, tobefnz, spent, late, phase>>

\* ...or has it again through an object whose finalizer runs before (markbeingfnz).
Regain(x) ==
    /\ Script
    /\ x \in Separated \ held
    /\ held' = held \cup {x}
    /\ UNCHANGED <<driverVars, born, tobefnz, spent, late, phase>>

\* A connection is referenced from the registry as long as a cursor on it is
\* open.  (mutant: cursors do not keep their connection)
UnrootedCursors(c) == FALSE
Rooted(c) == \E q \in Curs : cur[q] = "open" /\ parent[q] = c

\* separatetobefnz of a collection: x is unreachable.
Separate(x) ==
    /\ Script
    /\ Exists(x) /\ ~GivenUp(x)
    /\ x \notin held /\ (x \in Conns => ~Rooted(x))
    /\ tobefnz' = Append(tobefnz, x)
    /\ UNCHANGED <<driverVars, held, born, spent, late, phase>>

\* GCTM: the next finalizer, also of a userdata that a script has again.
RunFinalizer(x) ==
    /\ tobefnz # <<>> /\ x = Head(tobefnz)
    /\ tobefnz' = Tail(tobefnz)
    /\ spent' = spent \cup {x}
    /\ UNCHANGED <<held, born, late, phase>>

\* cur_gc_sqlite
CollectCursor(q) ==
    /\ RunFinalizer(q)
    /\ IF cur[q] = "open" THEN Nullify(q) ELSE UNCHANGED <<curVars, counter>>
    /\ UNCHANGED <<env, fragile, conn, auto, dbVars>>

\* conn_gc_sqlite.  With open cursors it raises an error, and no finalizer will
\* close the database.
CollectConn(c) ==
    /\ RunFinalizer(c)
    /\ IF conn[c] = "open" /\ counter[c] = 0 THEN ShutDown(c)
                                             ELSE UNCHANGED <<conn, tx, pending>>
    /\ UNCHANGED <<env, fragile, auto, counter, curVars, durable>>

Younger(x, y) == \E i, j \in 1..Len(born) : i < j /\ born[i] = y /\ born[j] = x

\* The userdata of S, the youngest first: the order of the list finobj.
YoungestFirst(S) ==
    {s \in [1..Cardinality(S) -> S] :
        /\ \A x \in S : \E i \in DOMAIN s : s[i] = x
        /\ \A i, j \in DOMAIN s : Younger(s[i], s[j]) => i < j}

\* lua_close (NLua's Lua.Close, from Addon.Release): all others are separated too.
CloseState ==
    /\ phase = "running"
    /\ phase' = "closing"
    /\ \E s \in YoungestFirst({x \in Userdata : Exists(x) /\ ~GivenUp(x)}) :
          tobefnz' = tobefnz \o s
    /\ UNCHANGED <<driverVars, held, born, spent, late>>

\* The rest of luaC_freeallobjects: what was made meanwhile goes without a finalizer.
Sweep ==
    /\ phase = "closing" /\ tobefnz = <<>>
    /\ phase' = "swept"
    /\ held' = {}
    /\ UNCHANGED <<driverVars, born, tobefnz, spent, late>>
-----------------------------------------------------------------------------
Init ==
    /\ env = TRUE
    /\ fragile \in SUBSET Conns
    /\ conn = [c \in Conns |-> "none"]
    /\ auto = [c \in Conns |-> TRUE]
    /\ counter = [c \in Conns |-> 0]
    /\ cur = [q \in Curs |-> "none"]
    /\ parent \in {[q \in Curs |-> c] : c \in Conns}
    /\ active = {}
    /\ held = {}
    /\ born = <<>>
    /\ tobefnz = <<>>
    /\ spent = {}
    /\ late = {}
    /\ phase = "running"
    /\ tx = {}
    /\ pending = [c \in Conns |-> {}]
    /\ durable = [c \in Conns |-> {}]

ConnStep(c) ==
    \/ Connect(c) \/ ConnClose(c) \/ CollectConn(c)
    \/ \E q \in Curs : ExecuteQuery(c, q) \/ ExecuteClosed(c, q)
    \/ \E w \in Writes : ExecuteWrite(c, w)
    \/ ExecuteFails(c)
    \/ Commit(c) \/ Rollback(c) \/ AutoCommitOn(c) \/ AutoCommitOff(c)

CurStep(q) == FetchRow(q) \/ CursorEnds(q) \/ CollectCursor(q)

Next ==
    \/ \E c \in Conns : ConnStep(c)
    \/ \E q \in Curs : CurStep(q)
    \/ \E x \in Userdata : Drop(x) \/ Regain(x) \/ Separate(x)
    \/ EnvClose
    \/ CloseState \/ Sweep

Spec == Init /\ [][Next]_vars

\* lua_close calls one finalizer after the other, each of which ends.
FairSpec ==
    /\ Spec
    /\ WF_vars(phase = "closing" /\ (\/ \E c \in Conns : CollectConn(c)
                                     \/ \E q \in Curs : CollectCursor(q)))
    /\ WF_vars(Sweep)
-----------------------------------------------------------------------------
(* Properties *)

TypeOK ==
    /\ env \in BOOLEAN /\ fragile \subseteq Conns
    /\ conn \in [Conns -> ConnStates]
    /\ auto \in [Conns -> BOOLEAN]
    /\ counter \in [Conns -> Nat]
    /\ cur \in [Curs -> CurStates]
    /\ parent \in [Curs -> Conns]
    /\ active \subseteq Curs
    /\ held \subseteq Userdata /\ spent \subseteq Userdata /\ late \subseteq Userdata
    /\ born \in Seq(Userdata) /\ tobefnz \in Seq(Userdata)
    /\ phase \in {"running", "closing", "swept"}
    /\ tx \subseteq Conns
    /\ pending \in [Conns -> SUBSET Writes]
    /\ durable \in [Conns -> SUBSET Writes]

\* cur_counter is the number of open cursors of the connection, however they
\* end: exhausted, closed, failed or collected.
CounterExact ==
    \A c \in Conns : conn[c] # "none" =>
        counter[c] = Cardinality({q \in Curs : cur[q] = "open" /\ parent[q] = c})

\* The database of an open cursor is open in SQLite: its statement is valid and
\* finalize may ask the connection for the error text, also from a finalizer, and
\* also when another finalizer has closed the connection inside execute.
CursorsOnOpenConnections ==
    \A q \in Curs : cur[q] = "open" => conn[parent[q]] \in {"open", "torn"}

\* A script's finalizer is to blame for an open database: it was made in lua_close,
\* or a cursor on it was, or after the collector had given the connection up.
Blamed(c) == c \in late \/ \E q \in late : q \in Curs /\ parent[q] = c

\* The finalizer of a connection meets open cursors, neither in a collection nor when
\* the Lua state is closed, and so leaves the database open, only if a script's
\* finalizer executed a query on the connection that the collector had given up.
NothingLeaks == \A c \in Conns : conn[c] = "open" /\ c \in spent => Blamed(c)

\* In manual mode nothing reaches the database but by a commit of the
\* transaction it was written in, as long as SQLite does not end transactions.
ManualWritesWait ==
    [][\A c \in Conns \ fragile :
          ~auto[c] => durable'[c] \ durable[c] \subseteq pending[c]]_vars

\* Closing the Lua state closes every open connection: addons that forget to do it
\* leave nothing open when they are unloaded, but for what their own finalizers open
\* meanwhile, and a database that one of them closed inside execute ("torn").
CloseReleasesAll ==
    phase = "closing" ~> (phase = "swept" /\ \A c \in Conns : conn[c] = "open" => Blamed(c))
=============================================================================

-------------------------- MODULE LuaSqlSqliteProofs --------------------------
(***************************************************************************)
(* Proofs about LuaSqlSqlite, for any sets of connections, cursors and     *)
(* writes.                                                                 *)
(***************************************************************************)
EXTENDS LuaSqlSqlite, FiniteSetTheorems, TLAPS

\* What cur_counter of c ought to count.
Open(c) == {q \in Curs : cur[q] = "open" /\ parent[q] = c}

\* The strengthening.  A connection is created before its cursors and finalized
\* after them, unless they are late; what lua_close sweeps without a finalizer was
\* made meanwhile; and a connection in manual mode has a transaction.
ConnsBorn    == \A c \in Conns : conn[c] # "none" => \E i \in 1..Len(born) : born[i] = c
ParentsFirst == \A q \in Curs : cur[q] # "none" =>
                   \E i, j \in 1..Len(born) : i < j /\ born[i] = parent[q] /\ born[j] = q
BirthInv     == ConnsBorn /\ ParentsFirst

SpentInv     == /\ \A x \in spent \cup late : Exists(x)
                /\ \A i \in 1..Len(tobefnz) : Exists(tobefnz[i])
                /\ \A q \in Curs : q \in spent => cur[q] = "closed"
CursorsFirst == \A q \in Curs : cur[q] = "open" /\ q \notin late =>
                   /\ parent[q] \notin spent
                   /\ \A j \in 1..Len(tobefnz) : tobefnz[j] = parent[q] =>
                        \E i \in 1..Len(tobefnz) : i < j /\ tobefnz[i] = q
FinalInv     == SpentInv /\ CursorsFirst

ClosingInv   == /\ phase # "running" => \A x \in Userdata : Exists(x) => x \in late \/ GivenUp(x)
                /\ phase = "swept" => tobefnz = <<>>
ManualInTx   == \A c \in Conns \ fragile : conn[c] = "open" /\ ~auto[c] => c \in tx

IInv == /\ TypeOK /\ CounterExact /\ CursorsOnOpenConnections /\ NothingLeaks
        /\ BirthInv /\ FinalInv /\ ClosingInv /\ ManualInTx

LEMMA InvInit == ASSUME Init PROVE IInv
<1>1. TypeOK
  <2>1. PICK c \in Conns : parent = [q \in Curs |-> c]
    BY DEF Init
  <2>2. parent \in [Curs -> Conns] /\ cur \in [Curs -> CurStates] /\ conn \in [Conns -> ConnStates]
    BY <2>1 DEF Init, ConnStates, CurStates
  <2>3. pending \in [Conns -> SUBSET Writes] /\ durable \in [Conns -> SUBSET Writes]
    BY DEF Init
  <2>4. born \in Seq(Userdata) /\ tobefnz \in Seq(Userdata)
    BY DEF Init
  <2>5. QED
    BY <2>2, <2>3, <2>4 DEF Init, TypeOK
<1>2. CounterExact /\ CursorsOnOpenConnections /\ NothingLeaks
  BY DEF Init, CounterExact, CursorsOnOpenConnections, NothingLeaks
<1>3. BirthInv /\ ManualInTx
  BY DEF Init, BirthInv, ConnsBorn, ParentsFirst, ManualInTx
<1>4. FinalInv /\ ClosingInv
  BY DEF Init, FinalInv, SpentInv, CursorsFirst, ClosingInv
<1>5. QED
  BY <1>1, <1>2, <1>3, <1>4 DEF IInv
-----------------------------------------------------------------------------
(* The set of open cursors of a connection *)

LEMMA OpenFinite == ASSUME NEW c PROVE IsFiniteSet(Open(c)) /\ Cardinality(Open(c)) \in Nat
<1>1. IsFiniteSet(Curs) /\ Open(c) \subseteq Curs
  BY SqliteAssumption DEF Open
<1>2. QED
  BY <1>1, FS_Subset, FS_CardinalityType

\* As long as no cursor changes, each connection has the cursors it had.
LEMMA OpenFrame == ASSUME UNCHANGED <<cur, parent>>, NEW c PROVE Open(c)' = Open(c)
BY DEF Open

\* A new cursor is one more on its connection and none on the others.
LEMMA OpenExecute ==
    ASSUME IInv, NEW c \in Conns, NEW q \in Curs, ExecuteQuery(c, q) \/ ExecuteClosed(c, q),
           NEW d \in Conns
    PROVE  Cardinality(Open(d)') = Cardinality(Open(d)) + (IF d = c THEN 1 ELSE 0)
<1>1. q \notin Open(d)
  BY DEF ExecuteQuery, ExecuteClosed, Open
<1>2. CASE d = c
  <2>1. Open(d)' = Open(d) \cup {q}
    BY <1>2 DEF ExecuteQuery, ExecuteClosed, Open, IInv, TypeOK
  <2>2. QED
    BY <1>1, <1>2, <2>1, OpenFinite, FS_AddElement
<1>3. CASE d # c
  <2>1. Open(d)' = Open(d)
    BY <1>3 DEF ExecuteQuery, ExecuteClosed, Open, IInv, TypeOK
  <2>2. QED
    BY <1>3, <2>1, OpenFinite
<1>4. QED
  BY <1>2, <1>3

\* An open cursor that is nullified is one less on its connection.
LEMMA OpenNullify ==
    ASSUME IInv, NEW q \in Curs, cur[q] = "open", Nullify(q), NEW d \in Conns
    PROVE  Cardinality(Open(d)') = Cardinality(Open(d)) - (IF d = parent[q] THEN 1 ELSE 0)
<1>1. Open(d)' = Open(d) \ {q}
  BY DEF Nullify, Open, IInv, TypeOK
<1>2. q \in Open(d) <=> d = parent[q]
  BY DEF Open
<1>3. Cardinality(Open(d)) \in Nat /\ IsFiniteSet(Open(d))
  BY OpenFinite
<1>4. Cardinality(Open(d) \ {q}) = IF q \in Open(d) THEN Cardinality(Open(d)) - 1
                                                 ELSE Cardinality(Open(d))
  BY <1>3, FS_RemoveElement
<1>5. QED
  BY <1>1, <1>2, <1>3, <1>4

LEMMA CounterOfOpen ==
    ASSUME IInv, NEW q \in Curs, cur[q] = "open"
    PROVE  /\ parent[q] \in Conns /\ conn[parent[q]] \in {"open", "torn"}
           /\ counter[parent[q]] = Cardinality(Open(parent[q]))
           /\ counter[parent[q]] \in Nat \ {0}
<1>1. parent[q] \in Conns /\ conn[parent[q]] \in {"open", "torn"}
  BY DEF IInv, TypeOK, CursorsOnOpenConnections
<1>2. counter[parent[q]] = Cardinality(Open(parent[q]))
  BY <1>1 DEF IInv, CounterExact, Open
<1>3. q \in Open(parent[q])
  BY DEF Open
<1>4. Cardinality(Open(parent[q])) # 0
  BY <1>3, OpenFinite, FS_EmptySet
<1>5. QED
  BY <1>1, <1>2, <1>4, OpenFinite

\* ...and the other way round: a counter at zero means that no cursor is open.
LEMMA CounterZero ==
    ASSUME IInv, NEW c \in Conns, conn[c] # "none"
    PROVE  /\ counter[c] = 0 => ~Rooted(c)
           /\ counter[c] > 0 => Rooted(c)
<1>1. counter[c] = Cardinality(Open(c))
  BY DEF IInv, CounterExact, Open
<1>2. Cardinality(Open(c)) = 0 <=> Open(c) = {}
  BY OpenFinite, FS_EmptySet
<1>3. QED
  BY <1>1, <1>2, OpenFinite DEF Open, Rooted
-----------------------------------------------------------------------------
(* The invariant, part by part *)

\* Replacing the writes of one connection.
LEMMA WritesType ==
    ASSUME NEW f \in [Conns -> SUBSET Writes], NEW c \in Conns, NEW W \in SUBSET Writes
    PROVE  [f EXCEPT ![c] = W] \in [Conns -> SUBSET Writes]
OBVIOUS

\* What lua_close separates.
LEMMA LastSeq ==
    ASSUME IInv, NEW s \in YoungestFirst({x \in Userdata : Exists(x) /\ ~GivenUp(x)})
    PROVE  s \in Seq(Userdata) /\ Len(s) \in Nat /\ DOMAIN s = 1..Len(s)
<1> DEFINE S == {x \in Userdata : Exists(x) /\ ~GivenUp(x)}
<1>1. IsFiniteSet(S)
  <2>1. S \subseteq Curs \cup {c \in Conns : conn[c] # "none"}
    BY DEF Userdata, Exists
  <2>2. {c \in Conns : conn[c] # "none"} \subseteq {born[i] : i \in 1..Len(born)}
    BY DEF IInv, BirthInv, ConnsBorn
  <2>3. IsFiniteSet({born[i] : i \in 1..Len(born)})
    <3> DEFINE B == {born[i] : i \in 1..Len(born)}
    <3>1. Len(born) \in Nat /\ born \in [1..Len(born) -> B]
      BY DEF IInv, TypeOK
    <3>2. born \in Surjection(1..Len(born), B)
      BY <3>1 DEF Surjection
    <3>3. QED
      BY <3>1, <3>2, FS_NatSurjection DEF ExistsSurjection
  <2>4. QED
    BY <2>1, <2>2, <2>3, FS_Subset, FS_Union, SqliteAssumption
<1>2. Cardinality(S) \in Nat
  BY <1>1, FS_CardinalityType
<1> DEFINE n == Cardinality(S)
<1>3. n \in Nat /\ s \in [1..n -> Userdata]
  BY <1>2 DEF YoungestFirst
<1> HIDE DEF n
<1>4. QED
  BY <1>3

LEMMA CreateType ==
    ASSUME IInv, NEW x \in Userdata, NEW b, Create(x, b)
    PROVE  /\ held' \subseteq Userdata /\ born' \in Seq(Userdata) /\ late' \subseteq Userdata
           /\ UNCHANGED <<tobefnz, spent, phase>>
BY DEF Create, IInv, TypeOK

LEMMA RunType ==
    ASSUME IInv, NEW x \in Userdata, RunFinalizer(x)
    PROVE  /\ UNCHANGED <<held, born, late, phase>>
           /\ tobefnz' \in Seq(Userdata) /\ spent' \subseteq Userdata
BY DEF RunFinalizer, IInv, TypeOK

LEMMA TypeStep == ASSUME IInv, Next PROVE TypeOK'
<1> USE DEF IInv, TypeOK, ConnStates, CurStates, Userdata, driverVars, curVars, luaVars, dbVars
<1>1. ASSUME NEW c \in Conns, Connect(c) PROVE TypeOK'
  BY <1>1 DEF Connect, Create
<1>2. ASSUME NEW c \in Conns, ConnClose(c) PROVE TypeOK'
  BY <1>2 DEF ConnClose, ShutDown
<1>3. ASSUME NEW c \in Conns, CollectConn(c) PROVE TypeOK'
  <2>1. tobefnz' \in Seq(Userdata) /\ spent' \subseteq Userdata
    BY <1>3 DEF CollectConn, RunFinalizer
  <2>2. /\ conn' \in [Conns -> ConnStates] /\ tx' \subseteq Conns
        /\ pending' \in [Conns -> SUBSET Writes]
    BY <1>3 DEF CollectConn, ShutDown
  <2>3. UNCHANGED <<env, fragile, auto, counter, curVars, durable, held, born, late, phase>>
    BY <1>3 DEF CollectConn, RunFinalizer
  <2>4. QED
    BY <2>1, <2>2, <2>3
<1>4. ASSUME NEW c \in Conns, NEW q \in Curs, ExecuteQuery(c, q) \/ ExecuteClosed(c, q) PROVE TypeOK'
  <2>1. /\ conn' \in [Conns -> ConnStates] /\ cur' \in [Curs -> CurStates]
        /\ parent' \in [Curs -> Conns] /\ counter' \in [Conns -> Nat]
    <3>1. /\ conn' = conn \/ conn' = [conn EXCEPT ![c] = "torn"]
          /\ cur' = [cur EXCEPT ![q] = "open"] /\ parent' = [parent EXCEPT ![q] = c]
          /\ counter' = [counter EXCEPT ![c] = counter[c] + 1]
      BY <1>4 DEF ExecuteQuery, ExecuteClosed
    <3>2. QED
      BY <3>1
  <2>2. /\ held' \subseteq Userdata /\ born' \in Seq(Userdata) /\ late' \subseteq Userdata
        /\ UNCHANGED <<tobefnz, spent, phase>>
    <3>1. Create(q, phase = "closing" \/ GivenUp(c)) \/ Create(q, GivenUp(c))
      BY <1>4 DEF ExecuteQuery, ExecuteClosed
    <3>2. q \in Userdata
      OBVIOUS
    <3>3. QED
      BY <3>1, <3>2, CreateType
  <2>3. UNCHANGED <<env, fragile, auto, active, dbVars>>
    BY <1>4 DEF ExecuteQuery, ExecuteClosed
  <2>4. QED
    BY <2>1, <2>2, <2>3
<1>5. ASSUME NEW c \in Conns, NEW w \in Writes, ExecuteWrite(c, w) PROVE TypeOK'
  <2>1. pending[c] \cup {w} \in SUBSET Writes /\ durable[c] \cup {w} \in SUBSET Writes
    OBVIOUS
  <2>2. /\ pending' \in {pending, [pending EXCEPT ![c] = pending[c] \cup {w}]}
        /\ durable' \in {durable, [durable EXCEPT ![c] = durable[c] \cup {w}]}
    BY <1>5 DEF ExecuteWrite
  <2>3. pending' \in [Conns -> SUBSET Writes] /\ durable' \in [Conns -> SUBSET Writes]
    <3>1. [pending EXCEPT ![c] = pending[c] \cup {w}] \in [Conns -> SUBSET Writes]
      BY <2>1, WritesType
    <3>2. [durable EXCEPT ![c] = durable[c] \cup {w}] \in [Conns -> SUBSET Writes]
      BY <2>1, WritesType
    <3>3. QED
      BY <2>2, <3>1, <3>2
  <2>4. UNCHANGED <<env, fragile, conn, auto, counter, curVars, luaVars, tx>>
    BY <1>5 DEF ExecuteWrite
  <2>5. QED
    BY <2>3, <2>4
<1>6. ASSUME NEW c \in Conns,
             ExecuteFails(c) \/ Commit(c) \/ Rollback(c) \/ AutoCommitOn(c) \/ AutoCommitOff(c)
      PROVE  TypeOK'
  <2>1. pending' \in [Conns -> SUBSET Writes] /\ durable' \in [Conns -> SUBSET Writes]
    <3>1. durable[c] \cup pending[c] \in SUBSET Writes /\ {} \in SUBSET Writes
      OBVIOUS
    <3>2. /\ pending' \in {pending, [pending EXCEPT ![c] = {}]}
          /\ durable' \in {durable, [durable EXCEPT ![c] = durable[c] \cup pending[c]]}
      BY <1>6 DEF ExecuteFails, Commit, Rollback, AutoCommitOn, AutoCommitOff
    <3>3. [durable EXCEPT ![c] = durable[c] \cup pending[c]] \in [Conns -> SUBSET Writes]
      BY <3>1, WritesType
    <3>4. [pending EXCEPT ![c] = {}] \in [Conns -> SUBSET Writes]
      BY <3>1, WritesType
    <3>5. QED
      BY <3>2, <3>3, <3>4
  <2>2. tx' \subseteq Conns /\ auto' \in [Conns -> BOOLEAN]
    BY <1>6 DEF ExecuteFails, Commit, Rollback, AutoCommitOn, AutoCommitOff
  <2>3. UNCHANGED <<env, fragile, conn, counter, curVars, luaVars>>
    BY <1>6 DEF ExecuteFails, Commit, Rollback, AutoCommitOn, AutoCommitOff
  <2>4. QED
    BY <2>1, <2>2, <2>3
<1>7. ASSUME NEW q \in Curs, FetchRow(q) PROVE TypeOK'
  BY <1>7 DEF FetchRow
<1>8. ASSUME NEW q \in Curs, CursorEnds(q) \/ CollectCursor(q) PROVE TypeOK'
  <2>1. /\ counter' \in [Conns -> Nat]
        /\ cur' \in [Curs -> CurStates] /\ active' \subseteq Curs /\ parent' = parent
    <3>1. CASE Nullify(q) /\ cur[q] = "open"
      <4>1. counter[parent[q]] \in Nat \ {0}
        BY <3>1, CounterOfOpen
      <4>2. counter[parent[q]] - 1 \in Nat
        BY <4>1
      <4>3. QED
        BY <3>1, <4>2 DEF Nullify
    <3>2. CASE UNCHANGED <<curVars, counter>>
      BY <3>2
    <3>3. QED
      BY <1>8, <3>1, <3>2 DEF CursorEnds, UsableCur, CollectCursor
  <2>2. UNCHANGED <<env, fragile, conn, auto, dbVars>>
    BY <1>8 DEF CursorEnds, CollectCursor
  <2>3. /\ UNCHANGED <<held, born, late, phase>>
        /\ tobefnz' \in Seq(Userdata) /\ spent' \subseteq Userdata
    <3>1. CASE CursorEnds(q)
      BY <3>1 DEF CursorEnds
    <3>2. CASE CollectCursor(q)
      <4>1. q \in Userdata /\ RunFinalizer(q)
        BY <3>2 DEF CollectCursor
      <4>2. QED
        BY <4>1, RunType
    <3>3. QED
      BY <1>8, <3>1, <3>2
  <2>4. QED
    BY <2>1, <2>2, <2>3
<1>9. ASSUME NEW x \in Userdata, Drop(x) \/ Regain(x) \/ Separate(x) PROVE TypeOK'
  <2>1. held' \subseteq Userdata /\ tobefnz' \in Seq(Userdata)
    <3>1. CASE Drop(x) \/ Regain(x)
      BY <3>1 DEF Drop, Regain
    <3>2. CASE Separate(x)
      <4>1. Append(tobefnz, x) \in Seq(Userdata)
        OBVIOUS
      <4>2. QED
        BY <3>2, <4>1 DEF Separate
    <3>3. QED
      BY <1>9, <3>1, <3>2
  <2>2. UNCHANGED <<driverVars, born, spent, late, phase>>
    BY <1>9 DEF Drop, Regain, Separate
  <2>3. QED
    BY <2>1, <2>2
<1>10. CASE EnvClose
  BY <1>10 DEF EnvClose
<1>11. CASE CloseState \/ Sweep
  <2>1. tobefnz' \in Seq(Userdata)
    <3>1. CASE CloseState
      <4>1. PICK s \in YoungestFirst({x \in Userdata : Exists(x) /\ ~GivenUp(x)}) :
                   tobefnz' = tobefnz \o s
        BY <3>1 DEF CloseState
      <4>2. s \in Seq(Userdata)
        BY LastSeq
      <4>3. QED
        BY <4>1, <4>2
    <3>2. QED
      BY <1>11, <3>1 DEF Sweep
  <2>2. held' \subseteq Userdata /\ phase' \in {"running", "closing", "swept"}
    BY <1>11 DEF CloseState, Sweep
  <2>3. UNCHANGED <<driverVars, born, spent, late>>
    BY <1>11 DEF CloseState, Sweep
  <2>4. QED
    BY <2>1, <2>2, <2>3
<1>12. QED
  BY <1>1, <1>2, <1>3, <1>4, <1>5, <1>6, <1>7, <1>8, <1>9, <1>10, <1>11
     DEF Next, ConnStep, CurStep

\* Only these steps change a counter, an open cursor or the state of a connection.
LEMMA CounterStep == ASSUME IInv, Next PROVE CounterExact'
<1> SUFFICES ASSUME NEW d \in Conns, conn'[d] # "none"
             PROVE  counter'[d] = Cardinality(Open(d)')
  BY DEF CounterExact, Open
<1>0. conn[d] # "none" => counter[d] = Cardinality(Open(d))
  BY DEF IInv, CounterExact, Open
<1>1. ASSUME UNCHANGED <<conn, counter, cur, parent>> PROVE counter'[d] = Cardinality(Open(d)')
  BY <1>0, <1>1, OpenFrame
<1>2. ASSUME NEW c \in Conns, Connect(c) PROVE counter'[d] = Cardinality(Open(d)')
  <2>1. Open(d)' = Open(d)
    BY <1>2, OpenFrame DEF Connect, curVars
  <2>2. CASE d = c
    <3>1. Open(d) = {}
      BY <1>2, <2>2 DEF Connect, Open, IInv, CursorsOnOpenConnections
    <3>2. QED
      BY <1>2, <2>1, <2>2, <3>1, FS_EmptySet DEF Connect, IInv, TypeOK
  <2>3. CASE d # c
    BY <1>0, <1>2, <2>1, <2>3 DEF Connect, IInv, TypeOK
  <2>4. QED
    BY <2>2, <2>3
<1>3. ASSUME NEW c \in Conns, ConnClose(c) \/ CollectConn(c)
      PROVE  counter'[d] = Cardinality(Open(d)')
  <2>1. Open(d)' = Open(d) /\ counter' = counter
    BY <1>3, OpenFrame DEF ConnClose, CollectConn, curVars
  <2>2. conn' = conn \/ (conn[c] # "none" /\ conn' = [conn EXCEPT ![c] = "closed"])
    BY <1>3 DEF ConnClose, UsableConn, CollectConn, ShutDown
  <2>3. conn[d] # "none"
    BY <2>2 DEF IInv, TypeOK
  <2>4. QED
    BY <1>0, <2>1, <2>3
<1>4. ASSUME NEW c \in Conns, NEW q \in Curs, ExecuteQuery(c, q) \/ ExecuteClosed(c, q)
      PROVE  counter'[d] = Cardinality(Open(d)')
  <2>1. conn[d] # "none" /\ counter'[d] = counter[d] + (IF d = c THEN 1 ELSE 0)
    BY <1>4 DEF ExecuteQuery, ExecuteClosed, UsableConn, IInv, TypeOK
  <2>2. QED
    BY <1>0, <1>4, <2>1, OpenExecute
<1>5. ASSUME NEW q \in Curs, CursorEnds(q) \/ CollectCursor(q)
      PROVE  counter'[d] = Cardinality(Open(d)')
  <2>1. conn' = conn
    BY <1>5 DEF CursorEnds, CollectCursor
  <2>2. CASE cur[q] = "open" /\ Nullify(q)
    <3>1. counter'[d] = counter[d] - (IF d = parent[q] THEN 1 ELSE 0)
      BY <2>2 DEF Nullify, IInv, TypeOK
    <3>2. QED
      BY <1>0, <2>1, <2>2, <3>1, OpenNullify
  <2>3. CASE UNCHANGED <<curVars, counter>>
    BY <1>1, <2>1, <2>3 DEF curVars
  <2>4. QED
    BY <1>5, <2>2, <2>3 DEF CursorEnds, UsableCur, CollectCursor
<1>6. QED
  BY <1>1, <1>2, <1>3, <1>4, <1>5
     DEF Next, ConnStep, CurStep, curVars, driverVars, ExecuteWrite, ExecuteFails, Commit,
         Rollback, AutoCommitOn, AutoCommitOff, FetchRow, Drop, Regain, Separate, EnvClose,
         CloseState, Sweep

\* A connection is closed only when no cursor on it is open.
LEMMA NoCursorLeft ==
    ASSUME IInv, NEW c \in Conns, conn[c] # "none", counter[c] = 0
    PROVE  \A q \in Curs : cur[q] = "open" => parent[q] # c
BY CounterZero DEF Rooted

LEMMA OpenStep == ASSUME IInv, Next PROVE CursorsOnOpenConnections'
<1> DEFINE Goal == CursorsOnOpenConnections'
<1> USE DEF CursorsOnOpenConnections
<1>1. ASSUME UNCHANGED <<conn, cur, parent>> PROVE Goal
  BY <1>1 DEF IInv
<1>2. ASSUME NEW c \in Conns, Connect(c) PROVE Goal
  BY <1>2 DEF Connect, curVars, IInv, TypeOK
<1>3. ASSUME NEW c \in Conns, ConnClose(c) \/ CollectConn(c) PROVE Goal
  <2>1. UNCHANGED <<cur, parent>>
    BY <1>3 DEF ConnClose, CollectConn, curVars
  <2>2. CASE conn' = conn
    BY <1>1, <2>1, <2>2
  <2>3. CASE conn[c] = "open" /\ counter[c] = 0 /\ conn' = [conn EXCEPT ![c] = "closed"]
    <3>1. \A q \in Curs : cur[q] = "open" => parent[q] # c
      BY <2>3, NoCursorLeft
    <3>2. QED
      BY <2>1, <2>3, <3>1 DEF IInv, TypeOK
  <2>4. QED
    BY <1>3, <2>2, <2>3 DEF ConnClose, UsableConn, CollectConn, ShutDown
<1>4. ASSUME NEW c \in Conns, NEW q \in Curs, ExecuteQuery(c, q) \/ ExecuteClosed(c, q) PROVE Goal
  <2>1. /\ conn[c] = "open" /\ cur' = [cur EXCEPT ![q] = "open"]
        /\ parent' = [parent EXCEPT ![q] = c]
        /\ conn' = conn \/ conn' = [conn EXCEPT ![c] = "torn"]
    BY <1>4 DEF ExecuteQuery, ExecuteClosed, UsableConn
  <2>2. QED
    BY <2>1 DEF IInv, TypeOK
<1>5. ASSUME NEW q \in Curs, CursorEnds(q) \/ CollectCursor(q) PROVE Goal
  <2>1. UNCHANGED <<conn, parent>> /\ (cur' = cur \/ cur' = [cur EXCEPT ![q] = "closed"])
    BY <1>5 DEF CursorEnds, CollectCursor, Nullify, curVars
  <2>2. QED
    BY <2>1 DEF IInv, TypeOK
<1>6. QED
  BY <1>1, <1>2, <1>3, <1>4, <1>5
     DEF Next, ConnStep, CurStep, curVars, driverVars, ExecuteWrite, ExecuteFails, Commit,
         Rollback, AutoCommitOn, AutoCommitOff, FetchRow, Drop, Regain, Separate, EnvClose,
         CloseState, Sweep

LEMMA BornStep == ASSUME IInv, Next PROVE BirthInv'
<1> DEFINE Goal == BirthInv'
<1> USE DEF BirthInv
<1>0. born \in Seq(Userdata) /\ Len(born) \in Nat
  BY DEF IInv, TypeOK
<1>1. ASSUME UNCHANGED <<parent, born>>,
             \A c \in Conns : conn'[c] # "none" => conn[c] # "none",
             \A q \in Curs : cur'[q] # "none" => cur[q] # "none"
      PROVE  Goal
  BY <1>1 DEF IInv, ConnsBorn, ParentsFirst
<1>2. ASSUME NEW x \in Userdata, born' = Append(born, x)
      PROVE  /\ Len(born') = Len(born) + 1 /\ born'[Len(born) + 1] = x
             /\ 1..Len(born) \subseteq 1..Len(born') /\ Len(born) + 1 \in 1..Len(born')
             /\ \A i \in 1..Len(born) : born'[i] = born[i] /\ i < Len(born) + 1
  BY <1>0, <1>2
<1>3. ASSUME NEW c \in Conns, Connect(c) PROVE Goal
  <2>1. born' = Append(born, c) /\ UNCHANGED <<cur, parent>> /\ conn' = [conn EXCEPT ![c] = "open"]
    BY <1>3 DEF Connect, Create, curVars
  <2>0. c \in Userdata
    BY DEF Userdata
  <2>2. ConnsBorn'
    BY <1>2, <2>0, <2>1 DEF ConnsBorn, IInv, TypeOK
  <2>3. ParentsFirst'
    BY <1>2, <2>0, <2>1 DEF ParentsFirst, IInv
  <2>4. QED
    BY <2>2, <2>3
<1>4. ASSUME NEW c \in Conns, NEW q \in Curs, ExecuteQuery(c, q) \/ ExecuteClosed(c, q) PROVE Goal
  <2>0. q \in Userdata
    BY DEF Userdata
  <2>1. /\ born' = Append(born, q) /\ conn[c] = "open"
        /\ conn' = conn \/ conn' = [conn EXCEPT ![c] = "torn"]
        /\ cur' = [cur EXCEPT ![q] = "open"] /\ parent' = [parent EXCEPT ![q] = c]
    BY <1>4 DEF ExecuteQuery, ExecuteClosed, Create, UsableConn
  <2>2. ConnsBorn'
    BY <1>2, <2>0, <2>1 DEF ConnsBorn, IInv, TypeOK
  <2>3. ParentsFirst'
    <3> SUFFICES ASSUME NEW r \in Curs, cur'[r] # "none"
                 PROVE  \E i, j \in 1..Len(born') : i < j /\ born'[i] = parent'[r] /\ born'[j] = r
      BY DEF ParentsFirst
    <3>1. CASE r = q
      <4>1. PICK i \in 1..Len(born) : born[i] = c
        BY <2>1 DEF IInv, ConnsBorn
      <4>2. parent'[r] = c
        BY <2>1, <3>1 DEF IInv, TypeOK
      <4>3. /\ i \in 1..Len(born') /\ Len(born) + 1 \in 1..Len(born') /\ i < Len(born) + 1
            /\ born'[i] = c /\ born'[Len(born) + 1] = r
        BY <1>2, <2>0, <2>1, <3>1, <4>1
      <4>4. QED
        BY <4>2, <4>3
    <3>2. CASE r # q
      <4>1. cur[r] # "none" /\ parent'[r] = parent[r]
        BY <2>1, <3>2 DEF IInv, TypeOK
      <4>2. QED
        BY <1>2, <2>0, <2>1, <4>1 DEF IInv, ParentsFirst
    <3>3. QED
      BY <3>1, <3>2
  <2>4. QED
    BY <2>2, <2>3
<1>5. ASSUME NEW c \in Conns, ConnClose(c) \/ CollectConn(c) PROVE Goal
  <2>1. UNCHANGED <<cur, parent, born>>
    BY <1>5 DEF ConnClose, CollectConn, RunFinalizer, curVars, luaVars
  <2>2. conn' = conn \/ (conn[c] # "none" /\ conn' = [conn EXCEPT ![c] = "closed"])
    BY <1>5 DEF ConnClose, UsableConn, CollectConn, ShutDown
  <2>3. QED
    BY <1>1, <2>1, <2>2 DEF IInv, TypeOK
<1>6. ASSUME NEW q \in Curs, CursorEnds(q) \/ CollectCursor(q) PROVE Goal
  <2>1. /\ cur' = cur \/ (cur[q] # "none" /\ cur' = [cur EXCEPT ![q] = "closed"])
        /\ UNCHANGED <<parent, born, conn>>
    BY <1>6 DEF CursorEnds, UsableCur, CollectCursor, RunFinalizer, Nullify, luaVars, curVars
  <2>2. QED
    BY <1>1, <2>1 DEF IInv, TypeOK
<1>7. QED
  BY <1>1, <1>3, <1>4, <1>5, <1>6
     DEF Next, ConnStep, CurStep, curVars, luaVars, driverVars, ExecuteWrite, ExecuteFails,
         Commit, Rollback, AutoCommitOn, AutoCommitOff, FetchRow, Drop, Regain, Separate,
         EnvClose, CloseState, Sweep
-----------------------------------------------------------------------------
(* The finalizers *)

\* What the other steps leave alone.
FinalFrame == /\ UNCHANGED <<tobefnz, spent, late, parent>>
              /\ \A c \in Conns : conn[c] # "none" => conn'[c] # "none"
              /\ \A q \in Curs : cur'[q] = cur[q] \/ (cur[q] = "open" /\ cur'[q] = "closed")

LEMMA FrameExists ==
    ASSUME IInv, FinalFrame, NEW x, Exists(x), x \in Userdata PROVE Exists(x)'
BY DEF FinalFrame, Exists, Userdata

LEMMA FrameFinal == ASSUME IInv, FinalFrame PROVE FinalInv'
<1> USE DEF IInv, FinalInv
<1>1. tobefnz \in Seq(Userdata) /\ spent \cup late \subseteq Userdata
  BY DEF TypeOK
<1>2. \A i \in 1..Len(tobefnz) : tobefnz[i] \in Userdata
  BY <1>1
<1>3. SpentInv'
  BY <1>1, <1>2, FrameExists DEF SpentInv, FinalFrame
<1>4. CursorsFirst'
  BY DEF CursorsFirst, FinalFrame
<1>5. QED
  BY <1>3, <1>4

\* A new userdata is late when its connection was given up.
LEMMA FinalExecute ==
    ASSUME IInv, NEW c \in Conns, NEW q \in Curs, ExecuteQuery(c, q) \/ ExecuteClosed(c, q)
    PROVE  FinalInv'
<1> USE DEF IInv, FinalInv
<1>1. /\ cur[q] = "none" /\ cur' = [cur EXCEPT ![q] = "open"]
      /\ parent' = [parent EXCEPT ![q] = c] /\ UNCHANGED <<tobefnz, spent>>
      /\ late' \in {late, late \cup {q}} /\ (GivenUp(c) => q \in late')
      /\ conn[c] = "open" /\ (conn' = conn \/ conn' = [conn EXCEPT ![c] = "torn"])
  BY DEF ExecuteQuery, ExecuteClosed, Create, UsableConn
<1>2. \A x \in Userdata : Exists(x) => Exists(x)'
  BY <1>1 DEF Exists, Userdata, TypeOK
<1>3. Exists(q)'
  <2>1. q \notin Conns
    BY SqliteAssumption
  <2>2. QED
    BY <1>1, <2>1 DEF Exists, TypeOK
<1>4. q \notin spent
  BY <1>1 DEF SpentInv
<1>5. \A i \in 1..Len(tobefnz) : tobefnz[i] \in Userdata
  BY DEF TypeOK
<1>6. spent \subseteq Userdata /\ late \subseteq Userdata
  BY DEF TypeOK
<1>7. SpentInv'
  BY <1>1, <1>2, <1>3, <1>4, <1>5, <1>6 DEF SpentInv, TypeOK
<1>8. CursorsFirst'
  <2> SUFFICES ASSUME NEW p \in Curs, cur'[p] = "open", p \notin late'
               PROVE  /\ parent'[p] \notin spent
                      /\ \A j \in 1..Len(tobefnz) : tobefnz[j] = parent'[p] =>
                           \E i \in 1..Len(tobefnz) : i < j /\ tobefnz[i] = p
    BY <1>1 DEF CursorsFirst
  <2>1. CASE p = q
    BY <1>1, <2>1 DEF GivenUp, Separated, TypeOK
  <2>2. CASE p # q
    BY <1>1, <2>2 DEF CursorsFirst, TypeOK
  <2>3. QED
    BY <2>1, <2>2
<1>9. QED
  BY <1>7, <1>8

\* The next finalizer: the places of the others move down by one.
LEMMA TailPlaces ==
    ASSUME IInv, tobefnz # <<>>, tobefnz' = Tail(tobefnz)
    PROVE  /\ Len(tobefnz) \in Nat \ {0} /\ Len(tobefnz') = Len(tobefnz) - 1
           /\ \A i \in 1..Len(tobefnz') : i + 1 \in 1..Len(tobefnz) /\ tobefnz'[i] = tobefnz[i + 1]
           /\ \A i \in 1..Len(tobefnz) : i # 1 => i - 1 \in 1..Len(tobefnz')
           /\ 1 \in 1..Len(tobefnz) /\ Head(tobefnz) = tobefnz[1]
BY DEF IInv, TypeOK

LEMMA FinalRun ==
    ASSUME IInv, NEW x \in Userdata, RunFinalizer(x), UNCHANGED parent,
           \A c \in Conns : conn[c] # "none" => conn'[c] # "none",
           \A q \in Curs : cur'[q] = cur[q] \/ (cur[q] = "open" /\ cur'[q] = "closed"),
           x \in Curs => cur'[x] # "open"
    PROVE  FinalInv'
<1> USE DEF IInv, FinalInv
<1>1. /\ tobefnz # <<>> /\ x = tobefnz[1] /\ tobefnz' = Tail(tobefnz)
      /\ spent' = spent \cup {x} /\ late' = late
  <2>1. /\ tobefnz # <<>> /\ x = Head(tobefnz) /\ tobefnz' = Tail(tobefnz)
        /\ spent' = spent \cup {x} /\ late' = late
    BY DEF RunFinalizer
  <2>2. QED
    BY <2>1, TailPlaces
<1>2. \A y \in Userdata : Exists(y) => Exists(y)'
  BY DEF Exists, Userdata
<1>3. Exists(x)
  BY <1>1, TailPlaces DEF SpentInv
<1>4. \A i \in 1..Len(tobefnz) : tobefnz[i] \in Userdata
  BY DEF TypeOK
<1>5. SpentInv'
  <2>1. \A y \in (spent \cup late)' : Exists(y)'
    BY <1>1, <1>2, <1>3 DEF SpentInv, TypeOK
  <2>2. \A i \in 1..Len(tobefnz') : \E y \in Userdata : y = tobefnz'[i] /\ Exists(y)'
    <3> SUFFICES ASSUME NEW i \in 1..Len(tobefnz')
                 PROVE  \E y \in Userdata : y = tobefnz'[i] /\ Exists(y)'
      OBVIOUS
    <3>1. i + 1 \in 1..Len(tobefnz) /\ tobefnz'[i] = tobefnz[i + 1]
      BY <1>1, TailPlaces
    <3>2. tobefnz[i + 1] \in Userdata /\ Exists(tobefnz[i + 1])
      BY <1>4, <3>1 DEF SpentInv
    <3>3. PICK y \in Userdata : y = tobefnz[i + 1]
      BY <3>2
    <3>4. QED
      BY <1>2, <3>1, <3>2, <3>3
  <2>3. \A q \in Curs : q \in spent' => cur'[q] = "closed"
    <3>1. x \in Curs => cur[x] # "none"
      BY <1>3, SqliteAssumption DEF Exists
    <3>2. x \in Curs => cur'[x] \in {"none", "closed"}
      BY DEF TypeOK, CurStates
    <3>3. x \in Curs => cur'[x] = "closed"
      BY <3>1, <3>2
    <3>4. QED
      BY <1>1, <3>3 DEF SpentInv
  <2>4. QED
    <3>1. /\ \A y \in (spent \cup late)' : Exists(y)'
          /\ \A i \in 1..Len(tobefnz') :
                IF tobefnz'[i] \in Conns THEN conn'[tobefnz'[i]] # "none"
                                         ELSE cur'[tobefnz'[i]] # "none"
      BY <2>1, <2>2 DEF Exists
    <3>2. QED
      BY <2>3, <3>1 DEF SpentInv, Exists
<1>6. CursorsFirst'
  <2> SUFFICES ASSUME NEW q \in Curs, cur'[q] = "open", q \notin late'
               PROVE  /\ parent'[q] \notin spent'
                      /\ \A j \in 1..Len(tobefnz') : tobefnz'[j] = parent'[q] =>
                           \E i \in 1..Len(tobefnz') : i < j /\ tobefnz'[i] = q
    BY DEF CursorsFirst
  <2>0. parent' = parent /\ q \notin late
    BY <1>1
  <2>1. cur[q] = "open" /\ q # x /\ q \notin late
    BY <2>0
  <2>2. parent[q] # x
    <3>1. CASE parent[q] = x
      <4>1. PICK i \in 1..Len(tobefnz) : i < 1
        BY <1>1, <2>1, <3>1, TailPlaces DEF CursorsFirst
      <4>2. QED
        BY <4>1, TailPlaces
    <3>2. QED
      BY <3>1
  <2>3. ASSUME NEW j \in 1..Len(tobefnz'), tobefnz'[j] = parent[q]
        PROVE  \E i \in 1..Len(tobefnz') : i < j /\ tobefnz'[i] = q
    <3>1. j + 1 \in 1..Len(tobefnz) /\ tobefnz[j + 1] = parent[q]
      BY <1>1, <2>3, TailPlaces
    <3>2. PICK i \in 1..Len(tobefnz) : i < j + 1 /\ tobefnz[i] = q
      BY <2>1, <3>1 DEF CursorsFirst
    <3>3. i # 1
      BY <1>1, <2>1, <3>2
    <3>4. /\ i - 1 \in 1..Len(tobefnz') /\ i - 1 < j /\ (i - 1) + 1 = i
      BY <1>1, <3>2, <3>3, TailPlaces
    <3>5. tobefnz'[i - 1] = q
      BY <1>1, <3>2, <3>4, TailPlaces
    <3>6. QED
      BY <3>4, <3>5
  <2>4. QED
    <3>1. parent[q] \notin spent'
      BY <1>1, <2>1, <2>2 DEF CursorsFirst
    <3>2. QED
      BY <2>0, <2>3, <3>1
<1>7. QED
  BY <1>5, <1>6

\* More userdata at the end of the list: not a connection before its cursors.
LEMMA FinalAppend ==
    ASSUME IInv, NEW s, s \in Seq(Userdata), tobefnz' = tobefnz \o s,
           UNCHANGED <<cur, parent, conn, spent, late>>,
           \A i \in 1..Len(s) : Exists(s[i]),
           \A q \in Curs : \A j \in 1..Len(s) :
              cur[q] = "open" /\ q \notin late /\ s[j] = parent[q] =>
                 \/ q \in Separated
                 \/ \E i \in 1..Len(s) : i < j /\ s[i] = q
    PROVE  FinalInv'
<1> USE DEF IInv, FinalInv
<1> DEFINE n == Len(tobefnz)
<1>1. /\ n \in Nat /\ Len(s) \in Nat /\ Len(tobefnz') = n + Len(s)
      /\ \A i \in 1..n : i \in 1..Len(tobefnz') /\ tobefnz'[i] = tobefnz[i]
      /\ \A i \in 1..Len(s) : n + i \in 1..Len(tobefnz') /\ tobefnz'[n + i] = s[i]
      /\ \A i \in 1..Len(tobefnz') : i \notin 1..n => i - n \in 1..Len(s) /\ tobefnz'[i] = s[i - n]
  BY DEF TypeOK
<1>2. \A y : Exists(y)' <=> Exists(y)
  BY DEF Exists
<1>3. SpentInv'
  <2>1. \A i \in 1..Len(tobefnz') : Exists(tobefnz'[i])
    BY <1>1 DEF SpentInv
  <2>2. QED
    BY <1>2, <2>1 DEF SpentInv, Exists
<1>4. CursorsFirst'
  <2> SUFFICES ASSUME NEW q \in Curs, cur[q] = "open", q \notin late,
                      NEW j \in 1..Len(tobefnz'), tobefnz'[j] = parent[q]
               PROVE  \E i \in 1..Len(tobefnz') : i < j /\ tobefnz'[i] = q
    BY DEF CursorsFirst
  <2>1. CASE j \in 1..n
    <3>1. PICK i \in 1..n : i < j /\ tobefnz[i] = q
      BY <1>1, <2>1 DEF CursorsFirst
    <3>2. QED
      BY <1>1, <3>1
  <2>2. CASE j \notin 1..n
    <3>1. j - n \in 1..Len(s) /\ s[j - n] = parent[q]
      BY <1>1, <2>2
    <3>2. CASE q \in Separated
      <4>1. PICK i \in 1..n : tobefnz[i] = q
        BY <3>2 DEF Separated
      <4>2. i < j
        BY <1>1, <2>2
      <4>3. QED
        BY <1>1, <4>1, <4>2
    <3>3. CASE \E i \in 1..Len(s) : i < j - n /\ s[i] = q
      <4>1. PICK i \in 1..Len(s) : i < j - n /\ s[i] = q
        BY <3>3
      <4>2. n + i \in 1..Len(tobefnz') /\ n + i < j /\ tobefnz'[n + i] = q
        BY <1>1, <2>2, <4>1
      <4>3. QED
        BY <4>2
    <3>4. QED
      BY <3>1, <3>2, <3>3
  <2>3. QED
    BY <2>1, <2>2
<1>5. QED
  BY <1>3, <1>4

LEMMA FinalSeparate == ASSUME IInv, NEW x \in Userdata, Separate(x) PROVE FinalInv'
<1>1. /\ tobefnz' = Append(tobefnz, x) /\ UNCHANGED <<cur, parent, conn, spent, late>>
      /\ Exists(x) /\ (x \in Conns => ~Rooted(x))
  BY DEF Separate, driverVars, curVars
<1> DEFINE s == <<x>>
<1>2. tobefnz' = tobefnz \o s /\ s \in Seq(Userdata) /\ Len(s) = 1 /\ s[1] = x
  BY <1>1 DEF IInv, TypeOK
<1> HIDE DEF s
<1>3. \A q \in Curs : \A j \in 1..Len(s) :
         cur[q] = "open" /\ q \notin late /\ s[j] = parent[q] =>
            \/ q \in Separated
            \/ \E i \in 1..Len(s) : i < j /\ s[i] = q
  BY <1>1, <1>2 DEF Rooted, IInv, TypeOK
<1>4. \A i \in 1..Len(s) : Exists(s[i])
  BY <1>1, <1>2
<1>5. UNCHANGED <<cur, parent, conn, spent, late>>
  BY <1>1
<1>6. QED
  BY <1>2, <1>3, <1>4, <1>5, FinalAppend

LEMMA FinalClose == ASSUME IInv, CloseState PROVE FinalInv'
<1> DEFINE S == {x \in Userdata : Exists(x) /\ ~GivenUp(x)}
<1>1. PICK s \in YoungestFirst(S) : tobefnz' = tobefnz \o s
  BY DEF CloseState
<1>2. s \in Seq(Userdata) /\ Len(s) \in Nat /\ DOMAIN s = 1..Len(s)
  BY LastSeq
<1>3. /\ \A x \in S : \E i \in 1..Len(s) : s[i] = x
      /\ \A i, j \in 1..Len(s) : Younger(s[i], s[j]) => i < j
      /\ \A i \in 1..Len(s) : s[i] \in S
  BY <1>2 DEF YoungestFirst
<1>4. ASSUME NEW q \in Curs, NEW j \in 1..Len(s),
             cur[q] = "open", q \notin late, s[j] = parent[q]
      PROVE  q \in Separated \/ \E i \in 1..Len(s) : i < j /\ s[i] = q
  <2>1. Exists(q) /\ q \notin spent /\ q \in Userdata
    BY <1>4, SqliteAssumption DEF Exists, Userdata, IInv, FinalInv, SpentInv
  <2>2. CASE q \notin Separated
    <3>1. q \in S
      BY <2>1, <2>2 DEF GivenUp
    <3>2. PICK i \in 1..Len(s) : s[i] = q
      BY <1>3, <3>1
    <3>3. Younger(q, parent[q])
      <4>1. PICK k, l \in 1..Len(born) : k < l /\ born[k] = parent[q] /\ born[l] = q
        BY <1>4 DEF IInv, BirthInv, ParentsFirst
      <4>2. QED
        BY <4>1 DEF Younger
    <3>4. i < j
      BY <1>3, <1>4, <3>2, <3>3
    <3>5. QED
      BY <3>2, <3>4
  <2>3. QED
    BY <2>2
<1>5. UNCHANGED <<cur, parent, conn, spent, late>>
  BY DEF CloseState, driverVars, curVars
<1>6. \A i \in 1..Len(s) : Exists(s[i])
  BY <1>3
<1>7. \A q \in Curs : \A j \in 1..Len(s) :
         cur[q] = "open" /\ q \notin late /\ s[j] = parent[q] =>
            \/ q \in Separated
            \/ \E i \in 1..Len(s) : i < j /\ s[i] = q
  BY <1>4
<1>8. QED
  BY <1>1, <1>2, <1>5, <1>6, <1>7, FinalAppend

LEMMA ConnLive ==
    ASSUME IInv, NEW c \in Conns, ConnClose(c) \/ CollectConn(c)
    PROVE  /\ \A d \in Conns : conn[d] # "none" => conn'[d] # "none"
           /\ UNCHANGED <<cur, parent, late, phase>>
BY DEF ConnClose, CollectConn, ShutDown, RunFinalizer, curVars, luaVars, IInv, TypeOK

LEMMA CurLive ==
    ASSUME IInv, NEW q \in Curs, CursorEnds(q) \/ CollectCursor(q)
    PROVE  /\ \A p \in Curs : cur'[p] = cur[p] \/ (cur[p] = "open" /\ cur'[p] = "closed")
           /\ cur'[q] # "open" /\ UNCHANGED <<conn, parent, late, phase>>
<1>1. cur' = cur \/ (cur[q] = "open" /\ cur' = [cur EXCEPT ![q] = "closed"])
  BY DEF CursorEnds, UsableCur, CollectCursor, Nullify, curVars
<1>2. cur'[q] # "open"
  BY DEF CursorEnds, CollectCursor, Nullify, curVars, IInv, TypeOK
<1>3. UNCHANGED <<conn, parent, late, phase>>
  BY DEF CursorEnds, CollectCursor, Nullify, RunFinalizer, curVars, luaVars
<1>4. QED
  BY <1>1, <1>2, <1>3 DEF IInv, TypeOK

LEMMA FinalStep == ASSUME IInv, Next PROVE FinalInv'
<1>1. ASSUME UNCHANGED <<tobefnz, spent, late, parent, conn, cur>> PROVE FinalInv'
  BY <1>1, FrameFinal DEF FinalFrame
<1>2. ASSUME NEW c \in Conns, Connect(c) PROVE FinalInv'
  <2>1. /\ UNCHANGED <<tobefnz, spent, parent, cur>> /\ late' \in {late, late \cup {c}}
        /\ conn' = [conn EXCEPT ![c] = "open"]
    BY <1>2 DEF Connect, Create, curVars
  <2>2. \A x \in Userdata : Exists(x) => Exists(x)'
    BY <2>1 DEF Exists, Userdata, IInv, TypeOK
  <2>3. Exists(c)'
    BY <2>1 DEF Exists, IInv, TypeOK
  <2>4. \A i \in 1..Len(tobefnz) : tobefnz[i] \in Userdata
    BY DEF IInv, TypeOK
  <2>5. SpentInv'
    BY <2>1, <2>2, <2>3, <2>4 DEF SpentInv, IInv, FinalInv, TypeOK
  <2>6. CursorsFirst'
    BY <2>1 DEF CursorsFirst, IInv, FinalInv
  <2>7. QED
    BY <2>5, <2>6 DEF FinalInv
<1>3. ASSUME NEW c \in Conns, ConnClose(c) PROVE FinalInv'
  <2>1. UNCHANGED <<tobefnz, spent>>
    BY <1>3 DEF ConnClose, luaVars
  <2>2. QED
    BY <1>3, <2>1, ConnLive, FrameFinal DEF FinalFrame
<1>4. ASSUME NEW c \in Conns, CollectConn(c) PROVE FinalInv'
  <2>1. c \in Userdata /\ c \notin Curs /\ RunFinalizer(c)
    BY <1>4, SqliteAssumption DEF Userdata, CollectConn
  <2>2. QED
    BY <1>4, <2>1, ConnLive, FinalRun
<1>5. ASSUME NEW q \in Curs, CursorEnds(q) PROVE FinalInv'
  <2>1. UNCHANGED <<tobefnz, spent>>
    BY <1>5 DEF CursorEnds, luaVars
  <2>2. QED
    BY <1>5, <2>1, CurLive, FrameFinal DEF FinalFrame
<1>6. ASSUME NEW q \in Curs, CollectCursor(q) PROVE FinalInv'
  <2>1. q \in Userdata /\ RunFinalizer(q)
    BY <1>6 DEF Userdata, CollectCursor
  <2>2. QED
    BY <1>6, <2>1, CurLive, FinalRun
<1>7. QED
  BY <1>1, <1>2, <1>3, <1>4, <1>5, <1>6, FinalExecute, FinalSeparate, FinalClose
     DEF Next, ConnStep, CurStep, curVars, luaVars, driverVars, ExecuteWrite, ExecuteFails,
         Commit, Rollback, AutoCommitOn, AutoCommitOff, FetchRow, Drop, Regain, EnvClose, Sweep

\* The finalizer of a connection leaves it open only with a late cursor on it.
LEMMA LeakStep == ASSUME IInv, Next PROVE NothingLeaks'
<1> DEFINE Goal == NothingLeaks'
<1>0. \A q \in Curs : q \in late => cur[q] # "none"
  BY SqliteAssumption DEF IInv, FinalInv, SpentInv, Exists
<1>1. ASSUME spent' = spent, late \subseteq late',
             \A c \in Conns : conn'[c] = "open" => conn[c] = "open" \/ c \notin spent,
             \A q \in Curs : cur[q] # "none" => parent'[q] = parent[q]
      PROVE  Goal
  BY <1>0, <1>1 DEF NothingLeaks, Blamed, IInv
<1>2. ASSUME NEW c \in Conns, Connect(c) PROVE Goal
  <2>1. /\ UNCHANGED <<spent, parent>> /\ late \subseteq late' /\ conn[c] = "none"
        /\ conn' = [conn EXCEPT ![c] = "open"]
    BY <1>2 DEF Connect, Create, curVars
  <2>2. c \notin spent
    BY <2>1 DEF IInv, FinalInv, SpentInv, Exists
  <2>3. QED
    BY <1>1, <2>1, <2>2 DEF IInv, TypeOK
<1>3. ASSUME NEW c \in Conns, NEW q \in Curs, ExecuteQuery(c, q) \/ ExecuteClosed(c, q) PROVE Goal
  <2>1. /\ UNCHANGED spent /\ late \subseteq late' /\ cur[q] = "none"
        /\ parent' = [parent EXCEPT ![q] = c]
        /\ conn' = conn \/ conn' = [conn EXCEPT ![c] = "torn"]
    BY <1>3 DEF ExecuteQuery, ExecuteClosed, Create
  <2>2. QED
    BY <1>1, <2>1 DEF IInv, TypeOK
<1>4. ASSUME NEW c \in Conns, ConnClose(c) PROVE Goal
  BY <1>1, <1>4 DEF ConnClose, ShutDown, curVars, luaVars, IInv, TypeOK
<1>5. ASSUME NEW c \in Conns, CollectConn(c) PROVE Goal
  <2>1. /\ UNCHANGED <<cur, parent, late>> /\ spent' = spent \cup {c} /\ tobefnz # <<>>
        /\ c = tobefnz[1] /\ 1 \in 1..Len(tobefnz)
    <3>1. /\ UNCHANGED <<cur, parent, late>> /\ spent' = spent \cup {c} /\ tobefnz # <<>>
          /\ c = Head(tobefnz) /\ tobefnz' = Tail(tobefnz)
      BY <1>5 DEF CollectConn, RunFinalizer, curVars
    <3>2. QED
      BY <3>1, TailPlaces
  <2>2. conn[c] = "open" /\ counter[c] # 0 => \E q \in late : q \in Curs /\ parent[q] = c
    <3> SUFFICES ASSUME conn[c] = "open", counter[c] # 0
                 PROVE  \E q \in late : q \in Curs /\ parent[q] = c
      OBVIOUS
    <3>1. counter[c] > 0
      BY DEF IInv, TypeOK
    <3>2. PICK q \in Curs : cur[q] = "open" /\ parent[q] = c
      BY <3>1, CounterZero DEF Rooted
    <3>3. q \in late
      <4>1. CASE q \notin late
        <5>1. PICK i \in 1..Len(tobefnz) : i < 1
          BY <2>1, <3>2, <4>1 DEF IInv, FinalInv, CursorsFirst
        <5>2. QED
          BY <5>1 DEF IInv, TypeOK
      <4>2. QED
        BY <4>1
    <3>4. QED
      BY <3>2, <3>3
  <2>3. conn' = conn \/ conn' = [conn EXCEPT ![c] = "closed"]
    BY <1>5 DEF CollectConn, ShutDown
  <2>4. conn'[c] = "open" => conn[c] = "open" /\ counter[c] # 0
    BY <1>5 DEF CollectConn, ShutDown, IInv, TypeOK
  <2>5. QED
    BY <2>1, <2>2, <2>3, <2>4 DEF NothingLeaks, Blamed, IInv, TypeOK
<1>6. ASSUME NEW q \in Curs, CursorEnds(q) PROVE Goal
  <2>1. spent' = spent
    BY <1>6 DEF CursorEnds, luaVars
  <2>2. QED
    BY <1>1, <1>6, <2>1, CurLive
<1>7. ASSUME NEW q \in Curs, CollectCursor(q) PROVE Goal
  <2>1. spent' = spent \cup {q} /\ q \notin Conns
    BY <1>7, SqliteAssumption DEF CollectCursor, RunFinalizer
  <2>2. QED
    BY <1>7, <2>1, CurLive DEF NothingLeaks, Blamed, IInv
<1>8. QED
  BY <1>1, <1>2, <1>3, <1>4, <1>5, <1>6, <1>7
     DEF Next, ConnStep, CurStep, curVars, luaVars, driverVars, ExecuteWrite, ExecuteFails,
         Commit, Rollback, AutoCommitOn, AutoCommitOff, FetchRow, Drop, Regain, Separate,
         EnvClose, CloseState, Sweep

\* What lua_close does not separate is made meanwhile.
LEMMA ClosingStep == ASSUME IInv, Next PROVE ClosingInv'
<1> DEFINE Goal == ClosingInv'
<1> USE DEF ClosingInv
<1>1. ASSUME UNCHANGED <<tobefnz, spent, late, phase>>,
             \A x \in Userdata : Exists(x)' => Exists(x)
      PROVE  Goal
  BY <1>1 DEF IInv, GivenUp, Separated
<1>2. ASSUME UNCHANGED <<tobefnz, spent, late, phase, conn, cur>> PROVE Goal
  BY <1>1, <1>2 DEF Exists
<1>3. ASSUME NEW x \in Userdata, Create(x, phase = "closing") \/ phase = "running", Script,
             UNCHANGED <<tobefnz, spent, phase>>, late \subseteq late',
             \A y \in Userdata : y # x => (Exists(y)' => Exists(y))
      PROVE  Goal
  <2>1. CASE phase = "running"
    BY <1>3, <2>1
  <2>2. CASE phase # "running"
    <3>1. phase = "closing" /\ x \in late'
      BY <1>3, <2>2 DEF Script, Create, IInv, TypeOK
    <3>2. QED
      BY <1>3, <3>1 DEF IInv, GivenUp, Separated
  <2>3. QED
    BY <2>1, <2>2
<1>4. ASSUME NEW c \in Conns, Connect(c) PROVE Goal
  <2>1. /\ c \in Userdata /\ Script /\ Create(c, phase = "closing")
        /\ UNCHANGED <<tobefnz, spent, phase, cur>> /\ late \subseteq late'
        /\ conn' = [conn EXCEPT ![c] = "open"]
    BY <1>4 DEF Connect, Create, curVars, Userdata
  <2>2. \A y \in Userdata : y # c => (Exists(y)' => Exists(y))
    BY <2>1 DEF Exists, IInv, TypeOK
  <2>3. QED
    BY <1>3, <2>1, <2>2
<1>5. ASSUME NEW c \in Conns, NEW q \in Curs, ExecuteQuery(c, q) \/ ExecuteClosed(c, q) PROVE Goal
  <2>1. /\ q \in Userdata /\ Script
        /\ UNCHANGED <<tobefnz, spent, phase>> /\ late \subseteq late'
        /\ cur' = [cur EXCEPT ![q] = "open"] /\ conn[c] = "open"
        /\ conn' = conn \/ conn' = [conn EXCEPT ![c] = "torn"]
    BY <1>5 DEF ExecuteQuery, ExecuteClosed, UsableConn, Create, curVars, Userdata
  <2>3. \A y \in Userdata : y # q => (Exists(y)' => Exists(y))
    BY <2>1 DEF Exists, IInv, TypeOK
  <2>4. CASE phase = "running"
    BY <2>1, <2>4
  <2>5. CASE phase # "running"
    <3>1. phase = "closing"
      BY <2>1, <2>5 DEF Script, IInv, TypeOK
    <3>2. q \in late'
      BY <1>5, <3>1 DEF ExecuteQuery, ExecuteClosed, Create
    <3>3. QED
      BY <2>1, <2>3, <3>1, <3>2 DEF IInv, GivenUp, Separated
  <2>6. QED
    BY <2>4, <2>5
<1>6. ASSUME NEW c \in Conns, ConnClose(c) PROVE Goal
  <2>1. /\ UNCHANGED <<tobefnz, spent, late, phase, cur>> /\ conn[c] = "open"
        /\ conn' = [conn EXCEPT ![c] = "closed"]
    BY <1>6 DEF ConnClose, UsableConn, ShutDown, curVars, luaVars
  <2>2. \A x \in Userdata : Exists(x)' => Exists(x)
    BY <2>1 DEF Exists, IInv, TypeOK
  <2>3. QED
    BY <1>1, <2>1, <2>2
<1>7. ASSUME NEW x \in Userdata, RunFinalizer(x), \A y \in Userdata : Exists(y)' => Exists(y)
      PROVE  Goal
  <2>1. /\ tobefnz # <<>> /\ tobefnz' = Tail(tobefnz) /\ x = Head(tobefnz)
        /\ spent' = spent \cup {x} /\ UNCHANGED <<late, phase>>
    BY <1>7 DEF RunFinalizer
  <2>2. \A y : GivenUp(y) => GivenUp(y)'
    <3> SUFFICES ASSUME NEW y, GivenUp(y) PROVE GivenUp(y)'
      OBVIOUS
    <3>1. CASE y \in spent
      BY <2>1, <3>1 DEF GivenUp
    <3>2. CASE y \in Separated
      <4>1. PICK i \in 1..Len(tobefnz) : tobefnz[i] = y
        BY <3>2 DEF Separated
      <4>2. CASE i = 1
        BY <2>1, <4>1, <4>2, TailPlaces DEF GivenUp
      <4>3. CASE i # 1
        <5>1. i - 1 \in 1..Len(tobefnz') /\ (i - 1) + 1 = i
          BY <2>1, <4>3, TailPlaces
        <5>2. tobefnz'[i - 1] = y
          BY <2>1, <4>1, <5>1, TailPlaces
        <5>3. QED
          BY <5>1, <5>2 DEF GivenUp, Separated
      <4>4. QED
        BY <4>2, <4>3
    <3>3. QED
      BY <3>1, <3>2 DEF GivenUp
  <2>3. QED
    BY <1>7, <2>1, <2>2 DEF IInv
<1>8. ASSUME NEW c \in Conns, CollectConn(c) PROVE Goal
  <2>1. c \in Userdata /\ RunFinalizer(c) /\ cur' = cur
    BY <1>8 DEF Userdata, CollectConn, curVars
  <2>2. conn' = conn \/ (conn[c] = "open" /\ conn' = [conn EXCEPT ![c] = "closed"])
    BY <1>8 DEF CollectConn, ShutDown
  <2>3. \A x \in Userdata : Exists(x)' => Exists(x)
    BY <2>1, <2>2 DEF Exists, IInv, TypeOK
  <2>4. QED
    BY <1>7, <2>1, <2>3
<1>9. ASSUME NEW q \in Curs, CursorEnds(q) \/ CollectCursor(q) PROVE Goal
  <2>1. \A x \in Userdata : Exists(x)' => Exists(x)
    BY <1>9, CurLive DEF Exists, Userdata
  <2>2. CASE CursorEnds(q)
    <3>1. UNCHANGED <<tobefnz, spent, late, phase>>
      BY <2>2 DEF CursorEnds, luaVars
    <3>2. QED
      BY <1>1, <2>1, <3>1
  <2>3. CASE CollectCursor(q)
    <3>1. q \in Userdata /\ RunFinalizer(q)
      BY <2>3 DEF Userdata, CollectCursor
    <3>2. QED
      BY <1>7, <2>1, <3>1
  <2>4. QED
    BY <1>9, <2>2, <2>3
<1>10. ASSUME NEW x \in Userdata, Separate(x) PROVE Goal
  <2>1. /\ tobefnz' = Append(tobefnz, x) /\ UNCHANGED <<conn, cur, spent, late, phase>>
        /\ phase # "swept"
    BY <1>10 DEF Separate, Script, driverVars, curVars
  <2>2. \A i \in 1..Len(tobefnz) : i \in 1..Len(tobefnz') /\ tobefnz'[i] = tobefnz[i]
    BY <2>1 DEF IInv, TypeOK
  <2>3. Separated \subseteq Separated'
    BY <2>2 DEF Separated
  <2>4. QED
    BY <2>1, <2>3 DEF IInv, GivenUp, Exists
<1>11. CASE CloseState
  <2> DEFINE S == {x \in Userdata : Exists(x) /\ ~GivenUp(x)}
  <2>1. PICK s \in YoungestFirst(S) : tobefnz' = tobefnz \o s
    BY <1>11 DEF CloseState
  <2>2. /\ UNCHANGED <<conn, cur, spent>> /\ phase' = "closing"
    BY <1>11 DEF CloseState, driverVars, curVars
  <2>3. Len(s) \in Nat /\ DOMAIN s = 1..Len(s) /\ s \in Seq(Userdata)
    BY LastSeq
  <2>4. /\ \A i \in 1..Len(tobefnz) : i \in 1..Len(tobefnz') /\ tobefnz'[i] = tobefnz[i]
        /\ \A i \in 1..Len(s) : /\ Len(tobefnz) + i \in 1..Len(tobefnz')
                                /\ tobefnz'[Len(tobefnz) + i] = s[i]
    BY <2>1, <2>3 DEF IInv, TypeOK
  <2>5. \A x \in S : x \in Separated'
    <3> SUFFICES ASSUME NEW x \in S PROVE x \in Separated'
      OBVIOUS
    <3>1. PICK i \in 1..Len(s) : s[i] = x
      BY <2>3 DEF YoungestFirst
    <3>2. QED
      BY <2>4, <3>1 DEF Separated
  <2>6. Separated \subseteq Separated'
    BY <2>4 DEF Separated
  <2>7. QED
    BY <2>2, <2>5, <2>6 DEF GivenUp, Exists
<1>12. CASE Sweep
  <2>1. UNCHANGED <<tobefnz, spent, late, conn, cur>> /\ tobefnz = <<>> /\ phase = "closing"
    BY <1>12 DEF Sweep, driverVars, curVars
  <2>2. QED
    BY <2>1 DEF IInv, GivenUp, Separated, Exists
<1>13. QED
  BY <1>2, <1>4, <1>5, <1>6, <1>8, <1>9, <1>10, <1>11, <1>12
     DEF Next, ConnStep, CurStep, curVars, luaVars, driverVars, ExecuteWrite, ExecuteFails,
         Commit, Rollback, AutoCommitOn, AutoCommitOff, FetchRow, Drop, Regain, EnvClose
-----------------------------------------------------------------------------
(* Transactions *)

LEMMA FragileStays == ASSUME Next PROVE fragile' = fragile
BY DEF Next, ConnStep, CurStep, driverVars, Connect, ConnClose, CollectConn, ExecuteQuery,
       ExecuteClosed, ExecuteWrite, ExecuteFails, Commit, Rollback, AutoCommitOn, AutoCommitOff,
       FetchRow, CursorEnds, CollectCursor, Drop, Regain, Separate, EnvClose, CloseState, Sweep

\* A step that leaves a connection in manual mode leaves it its transaction.
LEMMA ManualStep == ASSUME IInv, Next PROVE ManualInTx'
<1> SUFFICES ASSUME NEW d \in Conns, d \notin fragile, conn'[d] = "open", ~auto'[d]
             PROVE  d \in tx'
  BY FragileStays DEF ManualInTx
<1> USE DEF IInv, TypeOK, ManualInTx
<1>1. ASSUME UNCHANGED <<conn, auto, tx>> PROVE d \in tx'
  BY <1>1
<1>2. ASSUME NEW c \in Conns, Connect(c) PROVE d \in tx'
  BY <1>2 DEF Connect, dbVars
<1>3. ASSUME NEW c \in Conns, ConnClose(c) \/ CollectConn(c) PROVE d \in tx'
  BY <1>3 DEF ConnClose, CollectConn, ShutDown
<1>4. ASSUME NEW c \in Conns, ExecuteFails(c) \/ Commit(c) \/ Rollback(c) PROVE d \in tx'
  BY <1>4 DEF ExecuteFails, Commit, Rollback
<1>5. ASSUME NEW c \in Conns, AutoCommitOn(c) \/ AutoCommitOff(c) PROVE d \in tx'
  BY <1>5 DEF AutoCommitOn, AutoCommitOff
<1>6. ASSUME NEW c \in Conns, NEW q \in Curs, ExecuteClosed(c, q) PROVE d \in tx'
  BY <1>6 DEF ExecuteClosed, dbVars
<1>7. QED
  BY <1>1, <1>2, <1>3, <1>4, <1>5, <1>6
     DEF Next, ConnStep, CurStep, curVars, luaVars, driverVars, dbVars, ExecuteQuery, ExecuteWrite,
         FetchRow, CursorEnds, CollectCursor, Drop, Regain, Separate, EnvClose, CloseState, Sweep
-----------------------------------------------------------------------------
LEMMA InvStep == ASSUME IInv, [Next]_vars PROVE IInv'
<1>1. CASE Next
  BY <1>1, TypeStep, CounterStep, OpenStep, LeakStep, BornStep, FinalStep, ClosingStep, ManualStep
     DEF IInv
<1>2. CASE UNCHANGED vars
  BY <1>2
     DEF vars, driverVars, curVars, luaVars, dbVars, IInv, TypeOK, CounterExact,
         CursorsOnOpenConnections, NothingLeaks, Blamed, BirthInv, ConnsBorn, ParentsFirst,
         FinalInv, SpentInv, CursorsFirst, ClosingInv, ManualInTx, GivenUp, Separated, Exists
<1>3. QED
  BY <1>1, <1>2

LEMMA InvAlways == Spec => []IInv
<1>1. Init => IInv
  BY InvInit
<1>2. IInv /\ [Next]_vars => IInv'
  BY InvStep
<1>3. QED
  BY <1>1, <1>2, PTL DEF Spec

\* Every variable has its type; what is not obvious is that cur_counter never
\* becomes negative.
THEOREM SqliteTypeCorrect == Spec => []TypeOK
BY InvAlways, PTL DEF IInv

\* cur_counter is the number of open cursors, however they end (CounterExact).
THEOREM CountersExact == Spec => []CounterExact
BY InvAlways, PTL DEF IInv

\* An open cursor is on an open connection (CursorsOnOpenConnections).
THEOREM CursorsKeepConnections == Spec => []CursorsOnOpenConnections
BY InvAlways, PTL DEF IInv

\* The finalizer of a connection leaves its database open only if a script's finalizer
\* executed a query on a connection that the collector had given up (NothingLeaks).
THEOREM NoDatabaseLeaks == Spec => []NothingLeaks
BY InvAlways, PTL DEF IInv

\* After lua_close every connection is closed, but for those that a finalizer of the
\* script opened meanwhile or executed a query on (what CloseReleasesAll leads to).
THEOREM SweptIsClosed ==
    Spec => [](phase = "swept" => \A c \in Conns : conn[c] = "open" => Blamed(c))
<1>1. IInv => (phase = "swept" => \A c \in Conns : conn[c] = "open" => Blamed(c))
  <2> SUFFICES ASSUME IInv, phase = "swept", NEW c \in Conns, conn[c] = "open"
               PROVE  Blamed(c)
    OBVIOUS
  <2>1. Exists(c) /\ c \in Userdata
    BY DEF Exists, Userdata
  <2>2. Separated = {}
    BY DEF IInv, ClosingInv, Separated
  <2>3. c \in late \/ c \in spent
    BY <2>1, <2>2 DEF IInv, ClosingInv, GivenUp
  <2>4. QED
    BY <2>3 DEF IInv, NothingLeaks, Blamed
<1>2. QED
  BY <1>1, InvAlways, PTL

\* In manual mode a write reaches the database only from its transaction
\* (ManualWritesWait).
THEOREM ManualModeWaits == Spec => ManualWritesWait
<1>1. IInv /\ [Next]_vars =>
        [\A c \in Conns \ fragile : ~auto[c] => durable'[c] \ durable[c] \subseteq pending[c]]_vars
  <2> SUFFICES ASSUME IInv, Next, NEW d \in Conns \ fragile, ~auto[d]
               PROVE  durable'[d] \ durable[d] \subseteq pending[d]
    OBVIOUS
  <2> USE DEF IInv, TypeOK
  <2>1. ASSUME durable' = durable PROVE durable'[d] \ durable[d] \subseteq pending[d]
    BY <2>1
  <2>2. ASSUME NEW c \in Conns, NEW w \in Writes, ExecuteWrite(c, w)
        PROVE  durable'[d] \ durable[d] \subseteq pending[d]
    <3>1. c = d => c \in tx
      BY <2>2 DEF ExecuteWrite, UsableConn, ManualInTx
    <3>2. durable'[d] = durable[d]
      BY <2>2, <3>1 DEF ExecuteWrite
    <3>3. QED
      BY <3>2
  <2>3. ASSUME NEW c \in Conns, Commit(c)
        PROVE  durable'[d] \ durable[d] \subseteq pending[d]
    <3>1. durable'[d] = durable[d] \/ durable'[d] = durable[d] \cup pending[d]
      BY <2>3 DEF Commit
    <3>2. QED
      BY <3>1
  <2>4. QED
    BY <2>1, <2>2, <2>3
       DEF Next, ConnStep, CurStep, driverVars, dbVars, Connect, ConnClose, CollectConn,
           ExecuteQuery, ExecuteClosed, ExecuteFails, Rollback, AutoCommitOn, AutoCommitOff,
           FetchRow, CursorEnds, CollectCursor, Drop, Regain, Separate, EnvClose, CloseState,
           Sweep
<1>2. QED
  BY <1>1, InvAlways, PTL DEF Spec, ManualWritesWait
=============================================================================

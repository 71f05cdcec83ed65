--------------------------- MODULE LuaTableProofs ---------------------------
(***************************************************************************)
(* Proofs about the tables of Lua, for any keys, hash values and sizes.    *)
(*                                                                         *)
(* A node is on the chain of another when it is in every set of nodes that *)
(* has the other and that next does not leave, so that nothing is counted. *)
(* The invariant: no two nodes share a successor or a key, free nodes are  *)
(* on no chain (Linked), no set of nodes is a cycle (Ending), every key is *)
(* on the chain of its main position (Homed), lastfree has passed only     *)
(* nodes that are taken, and the table holds what was assigned.            *)
(*                                                                         *)
(* The loops of the code are recursive functions in the model.  Iterates   *)
(* says that such a function exists, so that its rounds can be unfolded.   *)
(***************************************************************************)
EXTENDS LuaTable, FiniteSetTheorems, WellFoundedInduction, TLAPS

\* Induction on the naturals for a set: what contains 0 and with every n also n + 1
\* contains them all.
LEMMA Steps ==
    ASSUME NEW T, 0 \in T, \A n \in Nat : n \in T => n + 1 \in T
    PROVE  Nat \subseteq T
<1> DEFINE Out == {n \in Nat : n \notin T}
<1>1. SUFFICES ASSUME Out # {}
               PROVE  FALSE
  OBVIOUS
<1>2. PICK n \in Out : \A m \in Out : ~(<<m, n>> \in OpToRel(<, Nat))
  BY <1>1, WFMin, NatLessThanWellFounded
<1>3. n \in Nat /\ n # 0
  OBVIOUS
<1>4. n - 1 \in Nat /\ n - 1 < n /\ (n - 1) + 1 = n
  BY <1>3
<1>5. n - 1 \notin Out
  BY <1>2, <1>3, <1>4 DEF OpToRel
<1>6. n - 1 \in T
  BY <1>4, <1>5
<1>7. n \in T
  BY <1>4, <1>6
<1>8. QED
  BY <1>7

\* The same up to N.
LEMMA StepsTo ==
    ASSUME NEW N \in Nat, NEW T, 0 \in T, \A n \in 1..N : n - 1 \in T => n \in T
    PROVE  0..N \subseteq T
<1> DEFINE U == T \cup {n \in Nat : n > N}
<1>1. ASSUME NEW n \in Nat, n \in U
      PROVE  n + 1 \in U
  <2>1. CASE n + 1 > N
    BY <2>1
  <2>2. CASE n + 1 <= N
    <3>1. n \in T /\ n + 1 \in 1..N /\ (n + 1) - 1 = n
      BY <1>1, <2>2
    <3>2. n + 1 \in T
      BY <3>1
    <3>3. QED
      BY <3>2
  <2>3. QED
    BY <2>1, <2>2
<1>2. Nat \subseteq U
  <2>1. 0 \in U
    OBVIOUS
  <2> HIDE DEF U
  <2>2. QED
    BY <1>1, <2>1, Steps
<1>3. QED
  BY <1>2

\* The rounds of a loop as functions on a set S of states, up to the N-th or for ever,
\* and the states u it goes through from b on.
Rounds(D, S, G) == G \in [D -> [S -> S]]
Follows(N, G, u) == \A n \in 1..N : u[n] = G[n][u[n - 1]]
Passes(N, S, b, G, u) == u \in [0..N -> S] /\ u[0] = b /\ Follows(N, G, u)
PassesAll(S, b, G, u) ==
    u \in [Nat -> S] /\ u[0] = b /\ \A n \in Nat : n # 0 => u[n] = G[n][u[n - 1]]

\* There are such states.
LEMMA Iterates ==
    ASSUME NEW N \in Nat, NEW S, NEW b \in S, NEW G, Rounds(1..N, S, G)
    PROVE  \E u : Passes(N, S, b, G, u)
<1> DEFINE Is(u, n) == u \in [0..n -> S] /\ u[0] = b /\ \A m \in 1..n : u[m] = G[m][u[m - 1]]
           T == {n \in 0..N : \E u : Is(u, n)}
<1>1. 0 \in T
  <2>1. Is([m \in 0..0 |-> b], 0)
    OBVIOUS
  <2>2. 0 \in 0..N
    OBVIOUS
  <2>3. QED
    BY <2>1, <2>2
<1>2. ASSUME NEW n \in 1..N, n - 1 \in T
      PROVE  n \in T
  <2>1. PICK u : Is(u, n - 1)
    BY <1>2
  <2> DEFINE w == [m \in 0..n |-> IF m = n THEN G[n][u[n - 1]] ELSE u[m]]
  <2>2. u[n - 1] \in S
    BY <2>1
  <2>3. G[n] \in [S -> S]
    BY DEF Rounds
  <2>4. G[n][u[n - 1]] \in S
    BY <2>2, <2>3
  <2>5. \A m \in 0..n : m # n => m \in 0..n - 1 /\ u[m] \in S
    BY <2>1
  <2>6. w \in [0..n -> S]
    BY <2>4, <2>5
  <2>7. \A m \in 0..n - 1 : w[m] = u[m] /\ m \in 0..n
    OBVIOUS
  <2>8. w[n] = G[n][w[n - 1]]
    OBVIOUS
  <2>9. ASSUME NEW m \in 1..n
        PROVE  w[m] = G[m][w[m - 1]]
    <3>1. CASE m = n
      BY <2>8, <3>1
    <3>2. CASE m # n
      <4>1. m \in 1..n - 1 /\ m \in 0..n - 1 /\ m - 1 \in 0..n - 1
        BY <3>2
      <4>2. u[m] = G[m][u[m - 1]]
        BY <2>1, <4>1
      <4>3. QED
        BY <2>7, <4>1, <4>2
    <3>3. QED
      BY <3>1, <3>2
  <2>10. w[0] = b
    BY <2>1
  <2> HIDE DEF w
  <2>11. Is(w, n)
    BY <2>6, <2>9, <2>10
  <2>12. QED
    BY <2>11
<1>3. 0..N \subseteq T
  <2> HIDE DEF T
  <2>1. QED
    BY <1>1, <1>2, StepsTo
<1>4. N \in T
  BY <1>3
<1>5. QED
  BY <1>4 DEF Passes, Follows

\* Two such loops agree; so a loop has states for all rounds.
LEMMA Agree ==
    ASSUME NEW N \in Nat, NEW G, NEW u, NEW v, u[0] = v[0],
           Follows(N, G, u), Follows(N, G, v)
    PROVE  \A n \in 0..N : u[n] = v[n]
<1> DEFINE T == {n \in 0..N : u[n] = v[n]}
<1>1. 0 \in T
  OBVIOUS
<1>2. \A n \in 1..N : n - 1 \in T => n \in T
  BY DEF Follows
<1> HIDE DEF T
<1>3. 0..N \subseteq T
  BY <1>1, <1>2, StepsTo
<1>4. QED
  BY <1>3 DEF T

\* There are also such states for a loop without a last round.
LEMMA IteratesAll ==
    ASSUME NEW S, NEW b \in S, NEW G, Rounds(Nat, S, G)
    PROVE  \E u : PassesAll(S, b, G, u)
<1> DEFINE pick(n) == CHOOSE u : Passes(n, S, b, G, u)
           w == [n \in Nat |-> pick(n)[n]]
<1> HIDE DEF pick, w
<1>1. ASSUME NEW n \in Nat
      PROVE  Passes(n, S, b, G, pick(n))
  <2> DEFINE H == [m \in 1..n |-> G[m]]
  <2>1. Rounds(1..n, S, H)
    BY DEF Rounds
  <2>2. \A m \in 1..n : H[m] = G[m]
    OBVIOUS
  <2> HIDE DEF H
  <2>3. PICK u : Passes(n, S, b, H, u)
    BY <2>1, Iterates
  <2>4. Passes(n, S, b, G, u)
    BY <2>2, <2>3 DEF Passes, Follows
  <2>5. QED
    BY <2>4 DEF pick
<1>2. ASSUME NEW n \in Nat, n # 0
      PROVE  w[n] = G[n][w[n - 1]]
  <2>1. n - 1 \in Nat
    BY <1>2
  <2>2. PICK u : u = pick(n) /\ Passes(n, S, b, G, u)
    BY <1>1
  <2>3. PICK v : v = pick(n - 1) /\ Passes(n - 1, S, b, G, v)
    BY <1>1, <2>1
  <2>4. u[0] = v[0]
    BY <2>2, <2>3 DEF Passes
  <2>5. Follows(n - 1, G, u) /\ Follows(n - 1, G, v)
    BY <2>1, <2>2, <2>3 DEF Passes, Follows
  <2>6. \A m \in 0..n - 1 : u[m] = v[m]
    BY <2>1, <2>4, <2>5, Agree
  <2>7. u[n - 1] = v[n - 1] /\ u[n] = G[n][u[n - 1]]
    BY <1>2, <2>1, <2>2, <2>6 DEF Passes, Follows
  <2>8. w[n] = u[n] /\ w[n - 1] = v[n - 1]
    BY <2>1, <2>2, <2>3 DEF w
  <2>9. QED
    BY <2>7, <2>8
<1>3. \A n \in Nat : pick(n)[n] \in S
  BY <1>1 DEF Passes
<1>4. w \in [Nat -> S]
  BY <1>3 DEF w
<1>5. w[0] = b
  BY <1>1 DEF w, Passes
<1>6. QED
  BY <1>2, <1>4, <1>5 DEF PassesAll

\* twoto doubles.
LEMMA Powers ==
    /\ twoto[0] = 1
    /\ \A n \in Nat : twoto[n + 1] = 2 * twoto[n] /\ twoto[n] \in Nat
<1> DEFINE G == [n \in Nat |-> [x \in Nat |-> 2 * x]]
           f(u) == [n \in Nat |-> IF n = 0 THEN 1 ELSE 2 * u[n - 1]]
<1>1. Rounds(Nat, Nat, G) /\ (\A n, x \in Nat : G[n][x] = 2 * x) /\ 1 \in Nat
  BY DEF Rounds
<1> HIDE DEF G, f
<1>2. PICK u : PassesAll(Nat, 1, G, u)
  BY <1>1, IteratesAll
<1>3. \A n \in Nat : n # 0 => u[n] = 2 * u[n - 1]
  <2>1. u \in [Nat -> Nat] /\ \A n \in Nat : n # 0 => u[n] = G[n][u[n - 1]]
    BY <1>2 DEF PassesAll
  <2>2. \A n \in Nat : n # 0 => n - 1 \in Nat
    OBVIOUS
  <2>3. \A n \in Nat : n # 0 => u[n - 1] \in Nat
    BY <2>1, <2>2
  <2>4. QED
    BY <1>1, <2>1, <2>3, Zenon
<1>4. u = f(u)
  BY <1>2, <1>3 DEF f, PassesAll
<1>5. twoto = f(twoto)
  BY <1>4, Zenon DEF twoto, f
<1>6. twoto[0] = 1 /\ \A n \in Nat : n # 0 => twoto[n] = 2 * twoto[n - 1]
  BY <1>5 DEF f
<1> DEFINE T == {n \in Nat : twoto[n] \in Nat}
<1>7. \A n \in Nat : n + 1 \in Nat /\ n + 1 # 0 /\ (n + 1) - 1 = n
  OBVIOUS
<1>8. 0 \in T /\ \A n \in Nat : n \in T => n + 1 \in T
  BY <1>6, <1>7
<1> HIDE DEF T
<1>9. Nat \subseteq T
  BY <1>8, Steps
<1>10. QED
  BY <1>6, <1>7, <1>9 DEF T

Ids(d) == 1..Len(d)

\* Sets of nodes that next does not leave; a node that is on the chain from another.
Closed(d, S) == \A x \in S : d[x].next # 0 => d[x].next \in S
Reaches(d, i, j) == \A S \in SUBSET Ids(d) : i \in S /\ Closed(d, S) => j \in S

\* Nodes that are free have no successor and are no successor; no node has two
\* predecessors, no key two nodes.
Linked(d) ==
    /\ d \in Seq(Node)
    /\ \A i \in Ids(d) : d[i].next \in 0..Len(d)
    /\ \A i \in Ids(d) : d[i].key = Nil => d[i].val = Nil /\ d[i].next = 0
    /\ \A i \in Ids(d) : d[i].next # 0 => d[d[i].next].key # Nil
    /\ \A i, j \in Ids(d) : d[i].next = d[j].next /\ d[i].next # 0 => i = j
    /\ \A i, j \in Ids(d) : d[i].key = d[j].key /\ d[i].key # Nil => i = j

\* Chains end: every set of nodes is left somewhere.
Ending(d) == \A S \in SUBSET Ids(d) : S # {} => \E x \in S : d[x].next \notin S

\* The main position of a key, by the hash values h among n nodes; where any key is in
\* the table, the node in its main position is in its own, and leads to it.
Home(h, n, k) == 1 + (h[k] % (IF k \in Strings \/ n = 1 THEN n ELSE n - 1))
Homed(h, d) ==
    \A i \in Ids(d) : d[i].key # Nil =>
       LET m == Home(h, Len(d), d[i].key)
       IN  d[m].key # Nil /\ Home(h, Len(d), d[m].key) = m /\ Reaches(d, m, i)

\* mainposition depends on the key and on the number of nodes only.
LEMMA HomeIs ==
    ASSUME NEW t, NEW k
    PROVE  MainPosition(t, k) = Home(hash, Len(t.node), k)
BY DEF MainPosition, Home

\* The main position of a key is a node.
LEMMA HomeRange ==
    ASSUME NEW h \in [Keys -> Nat], NEW n \in Nat, n # 0, NEW k \in Keys
    PROVE  Home(h, n, k) \in 1..n
<1> DEFINE m == IF k \in Strings \/ n = 1 THEN n ELSE n - 1
<1>1. m \in 1..n /\ h[k] \in Nat
  OBVIOUS
<1>2. Home(h, n, k) = 1 + (h[k] % m)
  BY DEF Home
<1> HIDE DEF m
<1>3. h[k] % m \in 0..m - 1
  BY <1>1
<1>4. QED
  BY <1>1, <1>2, <1>3

\* What Linked says of one node.
LEMMA LinkedFacts ==
    ASSUME NEW d, Linked(d)
    PROVE  /\ Len(d) \in Nat
           /\ \A i \in Ids(d) : /\ d[i] \in Node /\ d[i].next \in 0..Len(d) /\ i \in Nat /\ i # 0
                                /\ d[i].next # 0 => d[i].next \in Ids(d)
                                /\ d[i].key \in Keys \cup {Nil} /\ d[i].val \in Keys \cup {Nil}
<1>1. d \in Seq(Node) /\ Len(d) \in Nat
  BY DEF Linked
<1>2. \A i \in Ids(d) : d[i] \in Node
  BY <1>1 DEF Ids
<1>3. \A i \in Ids(d) : i \in Nat /\ i # 0 /\ (d[i].next # 0 => d[i].next \in Ids(d))
  BY <1>1 DEF Linked, Ids
<1>4. QED
  BY <1>1, <1>2, <1>3 DEF Linked, Node

\* The states of a walk along a chain.
WalkIs(d, i, at) ==
    /\ at \in [0..Len(d) -> 0..Len(d)]
    /\ at[0] = i
    /\ \A n \in 1..Len(d) : at[n] = IF at[n - 1] = 0 THEN 0 ELSE d[at[n - 1]].next

\* Following gnext node by node is what Walk does.
LEMMA WalkFacts ==
    ASSUME NEW d, Linked(d), NEW i \in Ids(d)
    PROVE  WalkIs(d, i, Walk(d, i))
<1> DEFINE N == Len(d)
           S == 0..N
           step(x) == IF x = 0 THEN 0 ELSE d[x].next
           G == [n \in 1..N |-> [x \in S |-> step(x)]]
           f(at) == [n \in 0..N |-> IF n = 0 THEN i ELSE LET j == at[n - 1] IN IF j = 0 THEN 0 ELSE d[j].next]
<1>1. N \in Nat /\ i \in S /\ \A x \in S : step(x) \in S
  BY LinkedFacts DEF Ids
<1> HIDE DEF N, S, step
<1>2. Rounds(1..N, S, G) /\ \A n \in 1..N : \A x \in S : G[n][x] = step(x)
  BY <1>1 DEF Rounds
<1> HIDE DEF G, f
<1>3. PICK u : Passes(N, S, i, G, u)
  BY <1>1, <1>2, Iterates
<1>4. \A n \in 1..N : n - 1 \in 0..N /\ u[n - 1] \in S
  BY <1>1, <1>3 DEF Passes
<1>5. \A n \in 1..N : u[n] = step(u[n - 1])
  BY <1>2, <1>3, <1>4, Zenon DEF Passes, Follows
<1>6. u = f(u)
  <2>1. \A n \in 0..N : n = 0 \/ n \in 1..N
    BY <1>1
  <2>2. \A n \in 0..N : u[n] = IF n = 0 THEN i ELSE step(u[n - 1])
    BY <1>3, <1>5, <2>1 DEF Passes
  <2>3. QED
    BY <1>3, <2>2 DEF Passes, f, step
<1>7. Walk(d, i) = f(Walk(d, i))
  BY <1>6, Zenon DEF Walk, f, N
<1> DEFINE at == Walk(d, i)
<1>8. \A n \in 0..N : at[n] = IF n = 0 THEN i ELSE step(at[n - 1])
  BY <1>7 DEF f, step
<1>9. at = [n \in 0..N |-> IF n = 0 THEN i ELSE step(at[n - 1])]
  BY <1>7 DEF f, step
<1> HIDE DEF at
<1> DEFINE T == {n \in 0..N : at[n] \in S}
<1>10. 0 \in T /\ \A n \in 1..N : n - 1 \in T => n \in T
  BY <1>1, <1>8
<1> HIDE DEF T
<1>11. 0..N \subseteq T
  BY <1>1, <1>10, StepsTo
<1>12. \A n \in 0..N : at[n] \in S
  BY <1>11 DEF T
<1>13. at \in [0..N -> S]
  BY <1>9, <1>12
<1>14. at[0] = i /\ \A n \in 1..N : at[n] = step(at[n - 1])
  BY <1>1, <1>8
<1>15. QED
  BY <1>13, <1>14 DEF WalkIs, at, step, S, N

\* The loops over a chain in luaH_get and luaH_newkey end: a walk as long as there are
\* nodes has come to the null pointer.
LEMMA WalkEnds ==
    ASSUME NEW d, Linked(d), Ending(d), NEW i \in Ids(d), NEW at, WalkIs(d, i, at)
    PROVE  at[Len(d)] = 0
<1> DEFINE N == Len(d)
<1>1. N \in Nat /\ N # 0
  BY LinkedFacts DEF Ids
<1>2. SUFFICES ASSUME at[N] # 0
               PROVE  FALSE
  OBVIOUS
<1>3. /\ at \in [0..N -> 0..N]
      /\ \A n \in 1..N : at[n] = IF at[n - 1] = 0 THEN 0 ELSE d[at[n - 1]].next
  BY DEF WalkIs
<1> HIDE DEF N
<1> DEFINE T == {n \in 0..N : at[N - n] # 0}
<1>4. 0 \in T
  BY <1>1, <1>2
<1>5. ASSUME NEW n \in 1..N, n - 1 \in T
      PROVE  n \in T
  <2>1. N - (n - 1) \in 1..N /\ (N - (n - 1)) - 1 = N - n /\ at[N - (n - 1)] # 0
    BY <1>1, <1>5
  <2>2. at[N - n] # 0
    BY <1>3, <2>1
  <2>3. QED
    BY <2>2
<1> HIDE DEF T
<1>6. 0..N \subseteq T
  BY <1>1, <1>4, <1>5, StepsTo
<1>7. \A n \in 0..N : at[n] \in 1..N
  <2> SUFFICES ASSUME NEW n \in 0..N
               PROVE  at[n] \in 1..N
    OBVIOUS
  <2>1. N - n \in T /\ N - (N - n) = n
    BY <1>1, <1>6
  <2>2. at[n] # 0
    BY <2>1 DEF T
  <2>3. QED
    BY <1>1, <1>3, <2>2
<1>8. PICK a, b \in 0..N : a # b /\ at[a] = at[b]
  <2>1. at \in [0..N -> 1..N]
    BY <1>3, <1>7
  <2>2. IsFiniteSet(0..N) /\ IsFiniteSet(1..N) /\ Cardinality(0..N) = N + 1 /\ Cardinality(1..N) = N
    BY <1>1, FS_Interval
  <2>3. Cardinality(1..N) < Cardinality(0..N)
    BY <1>1, <2>2
  <2>4. QED
    BY <2>1, <2>2, <2>3, FS_PigeonHole
<1>9. ASSUME NEW x \in 0..N, NEW y \in 0..N, x < y, at[x] = at[y]
      PROVE  FALSE
  <2> DEFINE C == {at[n] : n \in x..y - 1}
  <2>1. \A n \in x..y - 1 : n \in 0..N /\ n + 1 \in 1..N /\ (n + 1) - 1 = n
    BY <1>1, <1>9
  <2>2. C \in SUBSET Ids(d) /\ at[x] \in C
    BY <1>7, <1>9, <2>1 DEF Ids, N
  <2>3. \A n \in x..y - 1 : at[n + 1] \in C
    <3> SUFFICES ASSUME NEW n \in x..y - 1
                 PROVE  at[n + 1] \in C
      OBVIOUS
    <3>1. CASE n + 1 = y
      BY <1>9, <2>2, <3>1
    <3>2. CASE n + 1 # y
      <4>1. n + 1 \in x..y - 1
        BY <1>1, <1>9, <3>2
      <4>2. QED
        BY <4>1
    <3>3. QED
      BY <3>1, <3>2
  <2>4. \A n \in x..y - 1 : d[at[n]].next = at[n + 1]
    <3> SUFFICES ASSUME NEW n \in x..y - 1
                 PROVE  d[at[n]].next = at[n + 1]
      OBVIOUS
    <3>1. n + 1 \in 1..N /\ (n + 1) - 1 = n /\ at[n] # 0
      BY <1>7, <2>1
    <3>2. QED
      BY <1>3, <3>1
  <2>5. \A z \in C : d[z].next \in C
    BY <2>3, <2>4
  <2> HIDE DEF C
  <2>6. QED
    BY <2>2, <2>5 DEF Ending
<1>10. a < b \/ b < a
  BY <1>8
<1>11. QED
  BY <1>8, <1>9, <1>10

\* A walk comes to every node that is on the chain.
LEMMA WalkReaches ==
    ASSUME NEW d, Linked(d), Ending(d), NEW i \in Ids(d), NEW at, WalkIs(d, i, at),
           NEW j \in Ids(d), Reaches(d, i, j)
    PROVE  \E n \in 0..Len(d) : at[n] = j
<1> DEFINE N == Len(d)
           W == {x \in Ids(d) : \E n \in 0..N : at[n] = x}
<1>1. N \in Nat /\ N # 0 /\ at[N] = 0
  BY LinkedFacts, WalkEnds DEF Ids
<1>2. /\ at \in [0..N -> 0..N] /\ at[0] = i
      /\ \A n \in 1..N : at[n] = IF at[n - 1] = 0 THEN 0 ELSE d[at[n - 1]].next
  BY DEF WalkIs
<1> HIDE DEF N
<1>3. i \in W
  BY <1>1, <1>2
<1>4. ASSUME NEW x \in W, d[x].next # 0
      PROVE  d[x].next \in W
  <2>1. PICK n \in 0..N : at[n] = x
    OBVIOUS
  <2>2. n # N /\ x # 0
    BY <1>1, <2>1 DEF Ids
  <2>3. n + 1 \in 1..N /\ (n + 1) - 1 = n /\ n + 1 \in 0..N
    BY <1>1, <2>2
  <2>4. at[n + 1] = d[x].next
    BY <1>2, <2>1, <2>2, <2>3
  <2>5. d[x].next \in Ids(d)
    BY <1>4, LinkedFacts
  <2>6. QED
    BY <2>3, <2>4, <2>5
<1>5. W \in SUBSET Ids(d)
  OBVIOUS
<1> HIDE DEF W
<1>6. Closed(d, W)
  BY <1>4 DEF Closed
<1>7. j \in W
  BY <1>3, <1>5, <1>6 DEF Reaches
<1>8. QED
  BY <1>7 DEF W, N

Sound(h, d) == Linked(d) /\ Ending(d) /\ Homed(h, d)

\* Numbers have a least one.
LEMMA LeastOne ==
    ASSUME NEW S \in SUBSET Nat, S # {}
    PROVE  Min(S) \in S /\ \A x \in S : Min(S) <= x
<1>1. PICK n \in S : \A m \in S : ~(<<m, n>> \in OpToRel(<, Nat))
  BY WFMin, NatLessThanWellFounded
<1>2. \A m \in S : ~(m < n)
  BY <1>1 DEF OpToRel
<1>3. n \in S /\ \A m \in S : n <= m
  BY <1>2
<1>4. \E x \in S : \A y \in S : x <= y
  BY <1>3
<1>5. QED
  BY <1>4 DEF Min

\* luaH_get finds the node of every key that has one, wherever its chain has put it.
LEMMA NodeOfFacts ==
    ASSUME NEW t, hash \in [Keys -> Nat], Sound(hash, t.node), NEW k \in Keys
    PROVE  /\ \A i \in Ids(t.node) : t.node[i].key = k => NodeOf(t, k) = i
           /\ (\A i \in Ids(t.node) : t.node[i].key # k) => NodeOf(t, k) = 0
<1> DEFINE d == t.node
           m == Home(hash, Len(d), k)
           at == Walk(d, m)
           hits == {n \in 0..Len(d) : at[n] # 0 /\ d[at[n]].key = k}
<1>1. Linked(d) /\ Len(d) \in Nat /\ d \in Seq(Node) /\ k # Nil
  BY LinkedFacts, TableAssumption DEF Sound, Linked, Keys
<1>2. CASE d = <<>>
  BY <1>2 DEF NodeOf, Ids
<1>3. CASE d # <<>>
  <2>1. Len(d) # 0
    BY <1>1, <1>3
  <2>2. m \in Ids(d)
    BY <1>1, <2>1, HomeRange DEF Ids
  <2>3. NodeOf(t, k) = IF hits = {} THEN 0 ELSE at[Min(hits)]
    BY <1>3, HomeIs DEF NodeOf
  <2>4. WalkIs(d, m, at)
    BY <1>1, <2>2, WalkFacts
  <2> HIDE DEF m, at
  <2>5. at \in [0..Len(d) -> 0..Len(d)]
    BY <2>4 DEF WalkIs
  <2>6. hits # {} => NodeOf(t, k) \in Ids(d) /\ d[NodeOf(t, k)].key = k
    <3> SUFFICES ASSUME hits # {}
                 PROVE  NodeOf(t, k) \in Ids(d) /\ d[NodeOf(t, k)].key = k
      OBVIOUS
    <3>1. hits \in SUBSET Nat
      BY <1>1
    <3> HIDE DEF hits
    <3>2. Min(hits) \in hits
      BY <3>1, LeastOne
    <3>3. NodeOf(t, k) = at[Min(hits)]
      BY <2>3
    <3>4. /\ Min(hits) \in 0..Len(d) /\ at[Min(hits)] # 0 /\ d[at[Min(hits)]].key = k
          /\ at[Min(hits)] \in 0..Len(d)
      BY <2>5, <3>2 DEF hits
    <3>5. QED
      BY <1>1, <3>3, <3>4 DEF Ids
  <2>7. ASSUME NEW i \in Ids(d), d[i].key = k
        PROVE  NodeOf(t, k) = i
    <3>1. Reaches(d, m, i)
      BY <1>1, <2>7 DEF Sound, Homed, m
    <3>2. PICK n \in 0..Len(d) : at[n] = i
      BY <1>1, <2>2, <2>4, <3>1, WalkReaches DEF Sound
    <3>3. n \in hits
      BY <2>7, <3>2, LinkedFacts, <1>1
    <3>4. NodeOf(t, k) \in Ids(d) /\ d[NodeOf(t, k)].key = k
      BY <2>6, <3>3
    <3>5. QED
      BY <1>1, <2>7, <3>4 DEF Linked
  <2>8. ASSUME \A i \in Ids(d) : d[i].key # k
        PROVE  NodeOf(t, k) = 0
    BY <2>3, <2>6, <2>8
  <2>9. QED
    BY <2>7, <2>8
<1>4. QED
  BY <1>2, <1>3

\* The nodes e have the same places and links as d.
SameLinks(d, e) == /\ e \in Seq(Node) /\ Len(e) = Len(d)
                   /\ \A i \in Ids(d) : e[i].next = d[i].next

\* Where links stay, chains stay.
LEMMA ChainsStay ==
    ASSUME NEW d, NEW e, SameLinks(d, e)
    PROVE  /\ Ids(e) = Ids(d)
           /\ \A i, j : Reaches(d, i, j) => Reaches(e, i, j)
           /\ Ending(d) => Ending(e)
<1>1. Ids(e) = Ids(d) /\ \A i \in Ids(d) : e[i].next = d[i].next
  BY DEF SameLinks, Ids
<1>2. \A S \in SUBSET Ids(d) : Closed(e, S) => Closed(d, S)
  BY <1>1 DEF Closed
<1>3. \A i, j : Reaches(d, i, j) => Reaches(e, i, j)
  BY <1>1, <1>2 DEF Reaches
<1>4. Ending(d) => Ending(e)
  BY <1>1 DEF Ending
<1>5. QED
  BY <1>1, <1>3, <1>4

\* A value is stored into a node that has a key.
LEMMA ValueStored ==
    ASSUME NEW h \in [Keys -> Nat], NEW d, Sound(h, d), NEW e, SameLinks(d, e),
           \A i \in Ids(d) : e[i].key = d[i].key /\ (d[i].key = Nil => e[i].val = Nil)
    PROVE  Sound(h, e)
<1>1. Linked(d) /\ Ids(e) = Ids(d) /\ Len(e) = Len(d)
  BY ChainsStay DEF Sound, SameLinks
<1>2. Linked(e)
  <2>1. \A i \in Ids(d) : d[i].next # 0 => d[i].next \in Ids(d)
    BY <1>1, LinkedFacts
  <2>2. QED
    BY <1>1, <2>1 DEF Linked, SameLinks
<1>3. Homed(h, e)
  <2> SUFFICES ASSUME NEW i \in Ids(d), d[i].key # Nil
               PROVE  LET m == Home(h, Len(d), d[i].key)
                      IN  e[m].key # Nil /\ Home(h, Len(d), e[m].key) = m /\ Reaches(e, m, i)
    BY <1>1 DEF Homed
  <2> DEFINE m == Home(h, Len(d), d[i].key)
  <2>1. d[m].key # Nil /\ Home(h, Len(d), d[m].key) = m /\ Reaches(d, m, i)
    BY DEF Sound, Homed
  <2>2. Len(d) \in Nat /\ Len(d) # 0 /\ d[i].key \in Keys
    BY <1>1, LinkedFacts DEF Ids
  <2>3. m \in Ids(d)
    BY <2>2, HomeRange DEF Ids
  <2> HIDE DEF m
  <2>4. e[m].key = d[m].key /\ Reaches(e, m, i)
    BY <2>1, <2>3, ChainsStay
  <2>5. QED
    BY <2>1, <2>4 DEF m
<1>4. QED
  BY <1>2, <1>3, ChainsStay DEF Sound

\* A new key takes its main position, whose value was nil, with its links.
LEMMA MainTaken ==
    ASSUME NEW h \in [Keys -> Nat], NEW d, Sound(h, d), NEW e, SameLinks(d, e),
           NEW k \in Keys, NEW p \in Ids(d), p = Home(h, Len(d), k), e[p].key = k,
           \A i \in Ids(d) : d[i].key # k /\ (i # p => e[i] = d[i])
    PROVE  Sound(h, e)
<1>1. Linked(d) /\ Ids(e) = Ids(d) /\ Len(e) = Len(d) /\ k # Nil
  BY ChainsStay, TableAssumption DEF Sound, SameLinks, Keys
<1>2. Linked(e)
  <2>1. \A i \in Ids(d) : d[i].next # 0 => d[i].next \in Ids(d)
    BY <1>1, LinkedFacts
  <2>2. \A i, j \in Ids(d) : e[i].key = e[j].key /\ e[i].key # Nil => i = j
    <3> SUFFICES ASSUME NEW i \in Ids(d), NEW j \in Ids(d), e[i].key = e[j].key, e[i].key # Nil
                 PROVE  i = j
      OBVIOUS
    <3>1. CASE i = p \/ j = p
      BY <3>1
    <3>2. CASE i # p /\ j # p
      BY <1>1, <3>2 DEF Linked
    <3>3. QED
      BY <3>1, <3>2
  <2>3. \A i \in Ids(d) : e[i].key = Nil => i # p
    BY <1>1
  <2>4. \A i \in Ids(d) : e[i].next # 0 => e[e[i].next].key # Nil
    BY <1>1, <2>1 DEF Linked, SameLinks
  <2>5. \A i, j \in Ids(d) : e[i].next = e[j].next /\ e[i].next # 0 => i = j
    BY <1>1 DEF Linked, SameLinks
  <2>6. \A i \in Ids(d) : e[i].key = Nil => e[i].val = Nil /\ e[i].next = 0
    BY <1>1, <2>3 DEF Linked
  <2>7. e \in Seq(Node) /\ \A i \in Ids(d) : e[i].next \in 0..Len(d)
    BY <1>1 DEF Linked, SameLinks
  <2>8. QED
    BY <1>1, <2>2, <2>4, <2>5, <2>6, <2>7 DEF Linked
<1>3. Homed(h, e)
  <2> SUFFICES ASSUME NEW i \in Ids(d), e[i].key # Nil
               PROVE  LET m == Home(h, Len(d), e[i].key)
                      IN  e[m].key # Nil /\ Home(h, Len(d), e[m].key) = m /\ Reaches(e, m, i)
    BY <1>1 DEF Homed
  <2> DEFINE m == Home(h, Len(d), e[i].key)
  <2>1. CASE i = p
    <3>1. m = p /\ Reaches(e, p, p)
      BY <2>1 DEF Reaches
    <3>2. QED
      BY <1>1, <2>1, <3>1
  <2>2. CASE i # p
    <3>1. e[i] = d[i]
      BY <2>2
    <3>2. d[m].key # Nil /\ Home(h, Len(d), d[m].key) = m /\ Reaches(d, m, i)
      BY <3>1 DEF Sound, Homed
    <3>3. Len(d) \in Nat /\ Len(d) # 0 /\ d[i].key \in Keys
      BY <1>1, <3>1, LinkedFacts DEF Ids
    <3>4. m \in Ids(d)
      BY <3>1, <3>3, HomeRange DEF Ids
    <3> HIDE DEF m
    <3>5. Reaches(e, m, i)
      BY <3>2, ChainsStay
    <3>6. e[m].key # Nil /\ Home(h, Len(d), e[m].key) = m
      BY <1>1, <3>2, <3>4
    <3>7. QED
      BY <3>5, <3>6 DEF m
  <2>3. QED
    BY <2>1, <2>2
<1>4. QED
  BY <1>2, <1>3, ChainsStay DEF Sound

\* The nodes e differ from d only at the places P.
Differ(d, e, P) == /\ e \in Seq(Node) /\ Len(e) = Len(d)
                   /\ \A i \in Ids(d) : i \notin P => e[i] = d[i]

\* A new key takes the free node n, right after its main position p.
LEMMA ChainGrows ==
    ASSUME NEW d, Linked(d), NEW e, NEW p \in Ids(d), NEW n \in Ids(d), n # p,
           d[n].key = Nil, d[p].key # Nil, Differ(d, e, {p, n}),
           e[p].next = n, e[n].next = d[p].next
    PROVE  /\ \A i, j \in Ids(d) : i # n /\ Reaches(d, i, j) => Reaches(e, i, j)
           /\ Reaches(e, p, n)
           /\ Ending(d) => Ending(e)
<1>1. Ids(e) = Ids(d)
  BY DEF Differ, Ids
<1>2. /\ d[n].next = 0 /\ n # 0
      /\ \A i \in Ids(d) : d[i].next # n
      /\ \A i \in Ids(d) : i # p /\ i # n => e[i] = d[i]
  <2>1. \A i \in Ids(d) : d[i].next # 0 => d[d[i].next].key # Nil
    BY DEF Linked
  <2>2. d[n].next = 0 /\ n # 0
    BY LinkedFacts DEF Linked
  <2>3. \A i \in Ids(d) : d[i].next # n
    BY <2>1, <2>2
  <2>4. QED
    BY <2>2, <2>3 DEF Differ
<1>3. ASSUME NEW i \in Ids(d), NEW j \in Ids(d), i # n, Reaches(d, i, j),
             NEW S \in SUBSET Ids(d), i \in S, Closed(e, S)
      PROVE  j \in S
  <2>1. S \ {n} \in SUBSET Ids(d) /\ i \in S \ {n}
    BY <1>3
  <2>2. ASSUME NEW x \in S \ {n}, d[x].next # 0
        PROVE  d[x].next \in S \ {n}
    <3>1. CASE x = p
      <4>1. n \in S
        BY <1>2, <1>3, <3>1 DEF Closed
      <4>2. d[p].next \in S
        BY <1>3, <2>2, <3>1, <4>1 DEF Closed
      <4>3. QED
        BY <1>2, <3>1, <4>2
    <3>2. CASE x # p
      BY <1>2, <1>3, <2>2, <3>2 DEF Closed
    <3>3. QED
      BY <3>1, <3>2
  <2>3. Closed(d, S \ {n})
    BY <2>2 DEF Closed
  <2>4. QED
    BY <1>3, <2>1, <2>3 DEF Reaches
<1>4. Reaches(e, p, n)
  BY <1>2 DEF Reaches, Closed
<1>5. ASSUME Ending(d), NEW S \in SUBSET Ids(d), S # {}, \A x \in S : e[x].next \in S
      PROVE  FALSE
  <2>1. 0 \notin Ids(d)
    BY DEF Ids
  <2>2. S \ {n} \in SUBSET Ids(d)
    OBVIOUS
  <2>3. S \ {n} # {}
    <3>1. CASE n \in S
      <4>1. d[p].next \in S
        BY <1>5, <3>1
      <4>2. d[p].next # n
        BY <1>2
      <4>3. QED
        BY <4>1, <4>2
    <3>2. CASE n \notin S
      BY <1>5, <3>2
    <3>3. QED
      BY <3>1, <3>2
  <2>4. ASSUME NEW x \in S \ {n}
        PROVE  d[x].next \in S \ {n}
    <3>1. CASE x = p
      <4>1. n \in S
        BY <1>5, <3>1
      <4>2. d[p].next \in S
        BY <1>5, <4>1
      <4>3. QED
        BY <1>2, <3>1, <4>2
    <3>2. CASE x # p
      BY <1>2, <1>5, <3>2
    <3>3. QED
      BY <3>1, <3>2
  <2>5. QED
    BY <1>5, <2>2, <2>3, <2>4 DEF Ending
<1>6. Ending(d) => Ending(e)
  BY <1>1, <1>5 DEF Ending
<1>7. \A i, j \in Ids(d) : i # n /\ Reaches(d, i, j) => Reaches(e, i, j)
  BY <1>1, <1>3 DEF Reaches
<1>8. QED
  BY <1>4, <1>6, <1>7

\* luaH_newkey with a colliding node in its own main position: the new node joins its
\* chain, and every key is still on the chain of its main position.
LEMMA FreeTaken ==
    ASSUME NEW h \in [Keys -> Nat], NEW d, Sound(h, d), NEW e, NEW k \in Keys,
           NEW p \in Ids(d), NEW n \in Ids(d), d[n].key = Nil, d[p].key # Nil,
           p = Home(h, Len(d), k), p = Home(h, Len(d), d[p].key),
           Differ(d, e, {p, n}), e[p].next = n, e[n].next = d[p].next,
           e[p].key = d[p].key, e[n].key = k,
           \A i \in Ids(d) : d[i].key # k
    PROVE  Sound(h, e)
<1>1. /\ Linked(d) /\ Ids(e) = Ids(d) /\ Len(e) = Len(d) /\ k # Nil /\ n # p /\ Ending(d)
      /\ \A i \in Ids(d) : i # p /\ i # n => e[i] = d[i]
  BY TableAssumption DEF Sound, Differ, Keys, Ids
<1>2. /\ \A i \in Ids(d) : d[i].next # 0 => d[i].next \in Ids(d)
      /\ n # 0 /\ n \in 0..Len(d) /\ d[n].next = 0 /\ \A i \in Ids(d) : d[i].next # n
      /\ \A i \in Ids(d) : d[i].next \in 0..Len(d)
  <2>1. \A i \in Ids(d) : d[i].next # 0 => d[d[i].next].key # Nil
    BY <1>1 DEF Linked
  <2>2. QED
    BY <1>1, <2>1, LinkedFacts DEF Linked, Ids
<1>3. Linked(e)
  <2>1. \A i, j \in Ids(d) : e[i].key = e[j].key /\ e[i].key # Nil => i = j
    <3> SUFFICES ASSUME NEW i \in Ids(d), NEW j \in Ids(d), e[i].key = e[j].key, e[i].key # Nil
                 PROVE  i = j
      OBVIOUS
    <3>1. \A x \in Ids(d) : x # n => e[x].key = d[x].key
      BY <1>1
    <3>2. CASE i = n \/ j = n
      BY <3>1, <3>2
    <3>3. CASE i # n /\ j # n
      BY <1>1, <3>1, <3>3 DEF Linked
    <3>4. QED
      BY <3>2, <3>3
  <2>2. ASSUME NEW i \in Ids(d), e[i].next # 0
        PROVE  e[e[i].next].key # Nil
    <3>1. CASE i = p
      BY <1>1, <3>1
    <3>2. CASE i = n
      <4>1. d[p].next \in Ids(d) /\ d[p].next # n /\ d[d[p].next].key # Nil
        BY <1>1, <1>2, <2>2, <3>2 DEF Linked
      <4>2. e[d[p].next].key = d[d[p].next].key
        BY <1>1, <4>1
      <4>3. QED
        BY <3>2, <4>1, <4>2
    <3>3. CASE i # p /\ i # n
      <4>1. d[i].next \in Ids(d) /\ d[i].next # n /\ d[d[i].next].key # Nil /\ e[i].next = d[i].next
        BY <1>1, <1>2, <2>2, <3>3 DEF Linked
      <4>2. e[d[i].next].key = d[d[i].next].key
        BY <1>1, <4>1
      <4>3. QED
        BY <4>1, <4>2
    <3>4. QED
      BY <3>1, <3>2, <3>3
  <2>3. ASSUME NEW i \in Ids(d), NEW j \in Ids(d), e[i].next = e[j].next, e[i].next # 0
        PROVE  i = j
    <3>1. \A x \in Ids(d) : (x # p /\ x # n => e[x].next = d[x].next) /\ d[x].next # n
      BY <1>1, <1>2
    <3>2. \A x, y \in Ids(d) : d[x].next = d[y].next /\ d[x].next # 0 => x = y
      BY <1>1 DEF Linked
    <3>3. CASE i = p \/ j = p
      BY <2>3, <3>1, <3>3
    <3>4. CASE i # p /\ j # p
      <4>1. CASE i = n /\ j # n
        BY <2>3, <3>1, <3>2, <3>4, <4>1
      <4>2. CASE i # n /\ j = n
        BY <2>3, <3>1, <3>2, <3>4, <4>2
      <4>3. CASE i # n /\ j # n
        BY <2>3, <3>1, <3>2, <3>4, <4>3
      <4>4. CASE i = n /\ j = n
        BY <4>4
      <4>5. QED
        BY <4>1, <4>2, <4>3, <4>4
    <3>5. QED
      BY <3>3, <3>4
  <2>4. \A i \in Ids(d) : e[i].key = Nil => e[i].val = Nil /\ e[i].next = 0
    BY <1>1 DEF Linked
  <2>5. \A i \in Ids(d) : e[i].next \in 0..Len(d)
    BY <1>1, <1>2
  <2>6. e \in Seq(Node)
    BY DEF Differ
  <2>7. QED
    BY <1>1, <2>1, <2>2, <2>3, <2>4, <2>5, <2>6 DEF Linked
<1>4. /\ \A i, j \in Ids(d) : i # n /\ Reaches(d, i, j) => Reaches(e, i, j)
      /\ Reaches(e, p, n)
      /\ Ending(e)
  BY <1>1, ChainGrows
<1>5. Homed(h, e)
  <2> SUFFICES ASSUME NEW i \in Ids(d), e[i].key # Nil
               PROVE  LET m == Home(h, Len(d), e[i].key)
                      IN  e[m].key # Nil /\ Home(h, Len(d), e[m].key) = m /\ Reaches(e, m, i)
    BY <1>1 DEF Homed
  <2> DEFINE m == Home(h, Len(d), e[i].key)
  <2>1. CASE i = n
    <3>1. m = p
      BY <2>1
    <3> HIDE DEF m
    <3>2. e[m].key # Nil /\ Home(h, Len(d), e[m].key) = m /\ Reaches(e, m, i)
      BY <1>4, <2>1, <3>1
    <3>3. QED
      BY <3>2 DEF m
  <2>2. CASE i # n
    <3>1. e[i].key = d[i].key
      BY <1>1, <2>2
    <3>2. d[m].key # Nil /\ Home(h, Len(d), d[m].key) = m /\ Reaches(d, m, i)
      BY <3>1 DEF Sound, Homed
    <3>3. Len(d) \in Nat /\ Len(d) # 0 /\ d[i].key \in Keys
      BY <1>1, <3>1, LinkedFacts DEF Ids
    <3>4. m \in Ids(d)
      BY <3>1, <3>3, HomeRange DEF Ids
    <3> HIDE DEF m
    <3>5. m # n
      BY <3>2
    <3>6. Reaches(e, m, i)
      BY <1>4, <3>2, <3>4, <3>5
    <3>7. e[m].key = d[m].key
      BY <1>1, <3>4, <3>5
    <3>8. QED
      BY <3>2, <3>6, <3>7 DEF m
  <2>3. QED
    BY <2>1, <2>2
<1>6. QED
  BY <1>3, <1>4, <1>5 DEF Sound

\* The node at p moves to the free place n, behind its predecessor q, and leaves p
\* alone on a chain.
Relinks(d, e, p, n, q) ==
    /\ Differ(d, e, {p, n, q}) /\ d[n].key = Nil
    /\ d[q].next = p /\ e[q].next = n /\ e[n].next = d[p].next /\ e[p].next = 0

Relinked(d, e, p, n, q) ==
    /\ Ids(e) = Ids(d) /\ Len(e) = Len(d) /\ e \in Seq(Node)
    /\ n # p /\ q # p /\ q # n /\ n # 0 /\ p # 0 /\ d[p].next # p
    /\ d[n].next = 0 /\ \A i \in Ids(d) : d[i].next # n
    /\ \A i \in Ids(d) : d[i].next = p => i = q
    /\ \A i \in Ids(d) : i # p /\ i # n /\ i # q => e[i] = d[i]

\* What moving the node at p to n makes of the chains: they keep their shape, and what
\* was on a chain still is.
LEMMA RelinksFacts ==
    ASSUME NEW d, Linked(d), Ending(d), NEW e, NEW p \in Ids(d), NEW n \in Ids(d), NEW q \in Ids(d),
           Relinks(d, e, p, n, q)
    PROVE  Relinked(d, e, p, n, q)
<1>1. Ids(e) = Ids(d) /\ Len(e) = Len(d) /\ e \in Seq(Node) /\ d[n].key = Nil /\ d[q].next = p
  BY DEF Relinks, Differ, Ids
<1>2. d[n].next = 0 /\ n # 0 /\ p # 0
  BY <1>1, LinkedFacts DEF Linked
<1>3. \A i \in Ids(d) : d[i].next # n
  <2>1. \A i \in Ids(d) : d[i].next # 0 => d[d[i].next].key # Nil
    BY DEF Linked
  <2>2. QED
    BY <1>1, <1>2, <2>1
<1>4. d[p].next # p
  <2>1. {p} \in SUBSET Ids(d)
    OBVIOUS
  <2>2. \E x \in {p} : d[x].next \notin {p}
    BY <2>1 DEF Ending
  <2>3. QED
    BY <2>2
<1>5. q # p /\ q # n /\ n # p
  BY <1>1, <1>2, <1>3, <1>4
<1>6. \A i \in Ids(d) : d[i].next = p => i = q
  <2>1. \A i, j \in Ids(d) : d[i].next = d[j].next /\ d[i].next # 0 => i = j
    BY DEF Linked
  <2>2. QED
    BY <1>1, <1>2, <2>1
<1>7. \A i \in Ids(d) : i # p /\ i # n /\ i # q => e[i] = d[i]
  BY DEF Relinks, Differ
<1>8. QED
  BY <1>1, <1>2, <1>3, <1>4, <1>5, <1>6, <1>7 DEF Relinked

\* The moved node takes the place of the old one in every chain.
LEMMA ChainsRelink ==
    ASSUME NEW d, Linked(d), Ending(d), NEW e, NEW p \in Ids(d), NEW n \in Ids(d), NEW q \in Ids(d),
           Relinks(d, e, p, n, q)
    PROVE  /\ \A i, j \in Ids(d) : i # n /\ i # p /\ j # p /\ Reaches(d, i, j) => Reaches(e, i, j)
           /\ \A i \in Ids(d) : i # n /\ i # p /\ Reaches(d, i, p) => Reaches(e, i, n)
           /\ Ending(e)
<1>1. /\ Ids(e) = Ids(d) /\ n # p /\ q # p /\ q # n /\ n # 0 /\ p # 0 /\ d[p].next # p
      /\ d[n].next = 0 /\ \A i \in Ids(d) : d[i].next # n
      /\ \A i \in Ids(d) : d[i].next = p => i = q
      /\ \A i \in Ids(d) : i # p /\ i # n /\ i # q => e[i] = d[i]
      /\ d[q].next = p /\ e[q].next = n /\ e[n].next = d[p].next /\ e[p].next = 0
  <2>1. d[q].next = p /\ e[q].next = n /\ e[n].next = d[p].next /\ e[p].next = 0
    BY DEF Relinks
  <2>2. Relinked(d, e, p, n, q)
    BY RelinksFacts
  <2>3. QED
    BY <2>1, <2>2 DEF Relinked
\* Before the move: p for n.
<1> DEFINE Old(S) == (S \ {p, n}) \cup {x \in {p} : n \in S}
<1>2. ASSUME NEW S \in SUBSET Ids(d), Closed(e, S)
      PROVE  Closed(d, Old(S))
  <2>1. ASSUME NEW x \in Old(S), d[x].next # 0
        PROVE  d[x].next \in Old(S)
    <3>1. CASE x = p
      <4>1. n \in S
        BY <1>1, <2>1, <3>1
      <4>2. d[p].next \in S
        BY <1>1, <1>2, <2>1, <3>1, <4>1 DEF Closed
      <4>3. QED
        BY <1>1, <3>1, <4>2
    <3>2. CASE x # p
      <4>1. x \in S /\ x # n /\ x \in Ids(d)
        BY <2>1, <3>2
      <4>2. CASE x = q
        <5>1. n \in S
          BY <1>1, <1>2, <4>1, <4>2 DEF Closed
        <5>2. QED
          BY <1>1, <4>2, <5>1
      <4>3. CASE x # q
        <5>1. e[x] = d[x] /\ d[x].next # p /\ d[x].next # n
          BY <1>1, <3>2, <4>1, <4>3
        <5>2. d[x].next \in S
          BY <1>2, <2>1, <4>1, <5>1 DEF Closed
        <5>3. QED
          BY <5>1, <5>2
      <4>4. QED
        BY <4>2, <4>3
    <3>3. QED
      BY <3>1, <3>2
  <2> HIDE DEF Old
  <2>2. QED
    BY <2>1 DEF Closed
<1>3. \A S \in SUBSET Ids(d) : Old(S) \in SUBSET Ids(d)
  OBVIOUS
<1>4. ASSUME NEW i \in Ids(d), NEW j \in Ids(d), i # n, i # p, Reaches(d, i, j),
             NEW S \in SUBSET Ids(d), i \in S, Closed(e, S)
      PROVE  j \in Old(S)
  <2>1. i \in Old(S)
    BY <1>4
  <2>2. Closed(d, Old(S)) /\ Old(S) \in SUBSET Ids(d)
    BY <1>2, <1>3, <1>4
  <2> HIDE DEF Old
  <2>3. QED
    BY <1>4, <2>1, <2>2 DEF Reaches
<1>5. \A S, x : x \in Old(S) => (x # p => x \in S) /\ (x = p => n \in S)
  OBVIOUS
<1>6. ASSUME NEW S \in SUBSET Ids(d), S # {}, \A x \in S : e[x].next \in S
      PROVE  FALSE
  <2>1. 0 \notin Ids(d)
    BY DEF Ids
  <2>2. p \notin S
    BY <1>1, <1>6, <2>1
  <2>3. Old(S) # {}
    <3>1. PICK x \in S : TRUE
      BY <1>6
    <3>2. CASE x = n
      BY <3>1, <3>2
    <3>3. CASE x # n
      BY <2>2, <3>1, <3>3
    <3>4. QED
      BY <3>2, <3>3
  <2>4. ASSUME NEW x \in Old(S)
        PROVE  d[x].next \in Old(S)
    <3>1. CASE x = p
      <4>1. n \in S
        BY <1>5, <2>4, <3>1
      <4>2. d[p].next \in S
        BY <1>1, <1>6, <4>1
      <4>3. QED
        BY <1>1, <3>1, <4>2
    <3>2. CASE x # p
      <4>1. x \in S /\ x # n
        BY <2>4, <3>2
      <4>2. CASE x = q
        <5>1. n \in S
          BY <1>1, <1>6, <4>1, <4>2
        <5>2. QED
          BY <1>1, <4>2, <5>1
      <4>3. CASE x # q
        <5>1. e[x] = d[x] /\ d[x].next # p /\ d[x].next # n /\ d[x].next \in S
          BY <1>1, <1>6, <3>2, <4>1, <4>3
        <5>2. QED
          BY <5>1
      <4>4. QED
        BY <4>2, <4>3
    <3>3. QED
      BY <3>1, <3>2
  <2>5. Old(S) \in SUBSET Ids(d)
    BY <1>3
  <2> HIDE DEF Old
  <2>6. QED
    BY <2>3, <2>4, <2>5 DEF Ending
<1> HIDE DEF Old
<1>7. Ending(e)
  BY <1>1, <1>6 DEF Ending
<1>8. \A i, j \in Ids(d) : i # n /\ i # p /\ j # p /\ Reaches(d, i, j) => Reaches(e, i, j)
  BY <1>1, <1>4, <1>5 DEF Reaches
<1>9. \A i \in Ids(d) : i # n /\ i # p /\ Reaches(d, i, p) => Reaches(e, i, n)
  BY <1>1, <1>4, <1>5 DEF Reaches
<1>10. QED
  BY <1>7, <1>8, <1>9

\* luaH_newkey with a colliding node out of its main position: every key is still on the
\* chain of its main position.
LEMMA MovedAway ==
    ASSUME NEW h \in [Keys -> Nat], NEW d, Sound(h, d), NEW e, NEW k \in Keys,
           NEW p \in Ids(d), NEW n \in Ids(d), NEW q \in Ids(d), Relinks(d, e, p, n, q),
           d[p].key # Nil, p = Home(h, Len(d), k), p # Home(h, Len(d), d[p].key),
           e[q].key = d[q].key, e[n].key = d[p].key, e[p].key = k,
           \A i \in Ids(d) : d[i].key # k
    PROVE  Sound(h, e)
<1>1. /\ Linked(d) /\ Ending(d) /\ k # Nil
  BY TableAssumption DEF Sound, Keys
<1>2. /\ Ids(e) = Ids(d) /\ Len(e) = Len(d) /\ e \in Seq(Node)
      /\ n # p /\ q # p /\ q # n /\ n # 0 /\ p # 0 /\ d[p].next # p
      /\ d[n].next = 0 /\ \A i \in Ids(d) : d[i].next # n
      /\ \A i \in Ids(d) : d[i].next = p => i = q
      /\ \A i \in Ids(d) : i # p /\ i # n /\ i # q => e[i] = d[i]
  <2>1. Relinked(d, e, p, n, q)
    BY <1>1, RelinksFacts
  <2>2. QED
    BY <2>1 DEF Relinked
<1>3. d[n].key = Nil /\ d[q].next = p /\ e[q].next = n /\ e[n].next = d[p].next /\ e[p].next = 0
  BY DEF Relinks
<1>4. /\ \A i \in Ids(d) : d[i].next # 0 => d[i].next \in Ids(d)
      /\ n \in 0..Len(d)
      /\ \A i \in Ids(d) : d[i].next \in 0..Len(d)
  BY <1>1, LinkedFacts DEF Ids
<1>5. d[q].key # Nil
  BY <1>1, <1>3, <1>2 DEF Linked
<1>6. /\ \A i \in Ids(d) : i # p /\ i # n => e[i].key = d[i].key
      /\ \A i \in Ids(d) : i # p /\ i # n /\ i # q => e[i].next = d[i].next
  BY <1>2
<1>7. Linked(e)
  <2>1. \A i, j \in Ids(d) : e[i].key = e[j].key /\ e[i].key # Nil => i = j
    <3> DEFINE old(i) == IF i = n THEN p ELSE i
    <3>1. \A i \in Ids(d) : i # p => e[i].key = d[old(i)].key /\ old(i) # n
      BY <1>2, <1>6
    <3>2. \A i, j \in Ids(d) : i # p /\ j # p /\ e[i].key = e[j].key /\ e[i].key # Nil => old(i) = old(j)
      <4>1. \A i, j \in Ids(d) : d[i].key = d[j].key /\ d[i].key # Nil => i = j
        BY <1>1 DEF Linked
      <4>2. \A i \in Ids(d) : old(i) \in Ids(d)
        OBVIOUS
      <4> HIDE DEF old
      <4>3. QED
        BY <3>1, <4>1, <4>2
    <3>3. \A i, j \in Ids(d) : i # p /\ j # p /\ old(i) = old(j) => i = j
      OBVIOUS
    <3>4. \A i \in Ids(d) : i # p => e[i].key # k
      <4>1. \A i \in Ids(d) : old(i) \in Ids(d)
        OBVIOUS
      <4> HIDE DEF old
      <4>2. QED
        BY <3>1, <4>1
    <3> HIDE DEF old
    <3>5. QED
      BY <3>2, <3>3, <3>4
  <2>2. ASSUME NEW i \in Ids(d), e[i].next # 0
        PROVE  e[e[i].next].key # Nil
    <3>1. \A j \in Ids(d) : d[j].next # 0 => d[d[j].next].key # Nil
      BY <1>1 DEF Linked
    <3>2. CASE i = p
      BY <1>3, <2>2, <3>2
    <3>3. CASE i = q
      BY <1>3, <3>3
    <3>4. CASE i = n
      <4>1. d[p].next \in Ids(d) /\ d[p].next # n /\ d[p].next # p /\ d[d[p].next].key # Nil
        BY <1>2, <1>3, <1>4, <2>2, <3>1, <3>4
      <4>2. e[d[p].next].key = d[d[p].next].key
        BY <1>6, <4>1
      <4>3. QED
        BY <1>3, <3>4, <4>1, <4>2
    <3>5. CASE i # p /\ i # q /\ i # n
      <4>1. e[i].next = d[i].next
        BY <1>6, <3>5
      <4>2. d[i].next \in Ids(d) /\ d[i].next # n /\ d[i].next # p /\ d[d[i].next].key # Nil
        BY <1>2, <1>4, <2>2, <3>1, <3>5, <4>1
      <4>3. e[d[i].next].key = d[d[i].next].key
        BY <1>6, <4>2
      <4>4. QED
        BY <4>1, <4>2, <4>3
    <3>6. QED
      BY <3>2, <3>3, <3>4, <3>5
  <2>3. ASSUME NEW i \in Ids(d), NEW j \in Ids(d), e[i].next = e[j].next, e[i].next # 0
        PROVE  i = j
    <3>1. \A x, y \in Ids(d) : d[x].next = d[y].next /\ d[x].next # 0 => x = y
      BY <1>1 DEF Linked
    <3>2. i # p /\ j # p
      BY <1>3, <2>3
    <3>3. \A x \in Ids(d) : e[x].next = n /\ x # p => x = q
      BY <1>2, <1>3, <1>6
    <3>4. CASE i = q \/ j = q
      BY <1>3, <2>3, <3>2, <3>3, <3>4
    <3>5. CASE i # q /\ j # q
      <4> DEFINE old(x) == IF x = n THEN p ELSE x
      <4>1. e[i].next = d[old(i)].next /\ e[j].next = d[old(j)].next
        BY <1>3, <1>6, <3>2, <3>5
      <4>2. old(i) = old(j)
        <5>1. old(i) \in Ids(d) /\ old(j) \in Ids(d)
          OBVIOUS
        <5> HIDE DEF old
        <5>2. QED
          BY <2>3, <3>1, <4>1, <5>1
      <4>3. QED
        BY <3>2, <4>2
    <3>6. QED
      BY <3>4, <3>5
  <2>4. \A i \in Ids(d) : e[i].key = Nil => e[i].val = Nil /\ e[i].next = 0
    <3>1. \A i \in Ids(d) : e[i].key = Nil => i # p /\ i # n /\ i # q
      BY <1>1, <1>5
    <3>2. \A i \in Ids(d) : d[i].key = Nil => d[i].val = Nil /\ d[i].next = 0
      BY <1>1 DEF Linked
    <3>3. QED
      BY <1>2, <3>1, <3>2
  <2>5. \A i \in Ids(d) : e[i].next \in 0..Len(d)
    <3>1. 0 \in 0..Len(d)
      BY <1>1, LinkedFacts
    <3>2. QED
      BY <1>3, <1>4, <1>6, <3>1
  <2>6. QED
    BY <1>2, <2>1, <2>2, <2>3, <2>4, <2>5 DEF Linked
<1>8. /\ \A i, j \in Ids(d) : i # n /\ i # p /\ j # p /\ Reaches(d, i, j) => Reaches(e, i, j)
      /\ \A i \in Ids(d) : i # n /\ i # p /\ Reaches(d, i, p) => Reaches(e, i, n)
      /\ Ending(e)
  BY <1>1, ChainsRelink
<1>9. Homed(h, e)
  <2> SUFFICES ASSUME NEW i \in Ids(d), e[i].key # Nil
               PROVE  LET m == Home(h, Len(d), e[i].key)
                      IN  e[m].key # Nil /\ Home(h, Len(d), e[m].key) = m /\ Reaches(e, m, i)
    BY <1>2 DEF Homed
  <2> DEFINE m == Home(h, Len(d), e[i].key)
  <2>1. CASE i = p
    <3>1. m = p /\ Reaches(e, p, p)
      BY <2>1 DEF Reaches
    <3>2. QED
      BY <1>1, <2>1, <3>1
  <2>2. CASE i # p
    <3>1. PICK j \in Ids(d) : j = IF i = n THEN p ELSE i
      OBVIOUS
    <3>2. e[i].key = d[j].key
      BY <1>6, <2>2, <3>1
    <3>3. d[m].key # Nil /\ Home(h, Len(d), d[m].key) = m /\ Reaches(d, m, j)
      BY <3>2 DEF Sound, Homed
    <3>4. Len(d) \in Nat /\ Len(d) # 0 /\ d[j].key \in Keys
      BY <1>1, <3>2, LinkedFacts DEF Ids
    <3>5. m \in Ids(d)
      BY <3>2, <3>4, HomeRange DEF Ids
    <3> HIDE DEF m
    <3>6. m # n /\ m # p
      BY <1>3, <3>3
    <3>7. Reaches(e, m, i)
      BY <1>8, <2>2, <3>1, <3>3, <3>5, <3>6
    <3>8. e[m].key = d[m].key
      BY <1>6, <3>5, <3>6
    <3>9. QED
      BY <3>3, <3>7, <3>8 DEF m
  <2>3. QED
    BY <2>1, <2>2
<1>10. QED
  BY <1>7, <1>8, <1>9 DEF Sound

Table == [array : Seq(Keys \cup {Nil}), node : Seq(Node), free : Nat]

\* Every node past lastfree has a key; no node has a key of the array part.
Good(h, t) ==
    /\ t \in Table
    /\ Len(t.array) <= MaxKey
    /\ t.free \in 0..Len(t.node)
    /\ \A i \in Ids(t.node) : i > t.free => t.node[i].key # Nil
    /\ \A i \in Ids(t.node) : ~InArray(t, t.node[i].key)
    /\ Sound(h, t.node)

\* What the table holds under a key, read off the layout; the keys of its nodes.
Found(t, k, v) ==
    IF InArray(t, k) THEN t.array[k] = v
    ELSE \/ \E i \in Ids(t.node) : t.node[i].key = k /\ t.node[i].val = v
         \/ v = Nil /\ \A i \in Ids(t.node) : t.node[i].key # k
KeysOf(t) == {t.node[i].key : i \in Ids(t.node)} \ {Nil}

\* What Good says of the parts of a table.
LEMMA GoodFacts ==
    ASSUME NEW h, NEW t, Good(h, t)
    PROVE  /\ t.array \in Seq(Keys \cup {Nil}) /\ t.node \in Seq(Node) /\ t.free \in Nat
           /\ Len(t.array) \in Nat /\ Len(t.node) \in Nat
           /\ Linked(t.node) /\ Ending(t.node) /\ Sound(h, t.node)
BY DEF Good, Table, Sound

\* Overflow is no table.
LEMMA NoOverflow ==
    ASSUME NEW h, NEW t, Good(h, t)
    PROVE  t # Overflow
<1>1. t.free \in Nat
  BY GoodFacts
<1>2. Overflow.free = -1
  BY DEF Overflow
<1>3. QED
  BY <1>1, <1>2

\* No key has two values.
LEMMA FoundOnce ==
    ASSUME NEW h, NEW t, Good(h, t), NEW k \in Keys, NEW v, NEW w, Found(t, k, v), Found(t, k, w)
    PROVE  v = w
<1>1. \A i, j \in Ids(t.node) : t.node[i].key = t.node[j].key /\ t.node[i].key # Nil => i = j
  BY GoodFacts DEF Linked
<1>2. k # Nil
  BY TableAssumption DEF Keys
<1>3. QED
  BY <1>1, <1>2 DEF Found

\* luaH_get returns what the table holds, and luaH_set finds a cell exactly of the keys
\* that have one.
LEMMA GetIs ==
    ASSUME NEW t, hash \in [Keys -> Nat], Good(hash, t), NEW k \in Keys
    PROVE  /\ Found(t, k, Get(t, k))
           /\ Get(t, k) \in Keys \cup {Nil}
           /\ HasCell(t, k) <=> InArray(t, k) \/ \E i \in Ids(t.node) : t.node[i].key = k
<1>1. Sound(hash, t.node) /\ Linked(t.node) /\ t.array \in Seq(Keys \cup {Nil})
  BY GoodFacts
<1>2. /\ \A i \in Ids(t.node) : t.node[i].key = k => NodeOf(t, k) = i
      /\ (\A i \in Ids(t.node) : t.node[i].key # k) => NodeOf(t, k) = 0
  BY <1>1, NodeOfFacts
<1>3. CASE InArray(t, k)
  <2>1. k \in 1..Len(t.array)
    BY <1>1, <1>3, TableAssumption DEF InArray, Ints
  <2>2. QED
    BY <1>1, <1>3, <2>1 DEF Found, Get, HasCell
<1>4. CASE ~InArray(t, k) /\ \E i \in Ids(t.node) : t.node[i].key = k
  <2>1. PICK i \in Ids(t.node) : t.node[i].key = k
    BY <1>4
  <2>2. NodeOf(t, k) = i /\ i # 0 /\ t.node[i].val \in Keys \cup {Nil}
    BY <1>1, <1>2, <2>1, LinkedFacts
  <2>3. Get(t, k) = t.node[i].val
    BY <1>4, <2>2 DEF Get
  <2>4. QED
    BY <1>4, <2>1, <2>2, <2>3 DEF Found, HasCell
<1>5. CASE ~InArray(t, k) /\ \A i \in Ids(t.node) : t.node[i].key # k
  <2>1. Get(t, k) = Nil /\ NodeOf(t, k) = 0
    BY <1>2, <1>5 DEF Get
  <2>2. QED
    BY <1>5, <2>1 DEF Found, HasCell
<1>6. QED
  BY <1>3, <1>4, <1>5

\* The same as an equivalence.
LEMMA GetOf ==
    ASSUME NEW t, hash \in [Keys -> Nat], Good(hash, t), NEW k \in Keys, NEW v
    PROVE  Found(t, k, v) <=> Get(t, k) = v
<1>1. Found(t, k, Get(t, k))
  BY GetIs
<1>2. QED
  BY <1>1, FoundOnce

\* Numbers up to a bound have a greatest one.
LEMMA GreatestOne ==
    ASSUME NEW b \in Nat, NEW S \in SUBSET (0..b), S # {}
    PROVE  Max(S) \in S /\ \A x \in S : x <= Max(S)
<1> DEFINE T == {b - x : x \in S}
<1>1. T \in SUBSET Nat /\ T # {}
  <2>1. \A x \in S : b - x \in Nat
    OBVIOUS
  <2>2. QED
    BY <2>1
<1> HIDE DEF T
<1>2. Min(T) \in T /\ \A x \in T : Min(T) <= x
  BY <1>1, LeastOne
<1>3. PICK m \in S : Min(T) = b - m
  BY <1>2 DEF T
<1>4. \A x \in S : b - m <= b - x
  BY <1>2, <1>3 DEF T
<1>5. \A x \in S : m >= x
  BY <1>4
<1>6. \E x \in S : \A y \in S : x >= y
  BY <1>5
<1>7. Max(S) \in S /\ \A y \in S : Max(S) >= y
  BY <1>6 DEF Max
<1>8. QED
  BY <1>7

\* getfreepos returns a free node, or null when none is left: lastfree never passes one.
LEMMA FreePosFacts ==
    ASSUME NEW h, NEW t, Good(h, t)
    PROVE  /\ FreePos(t) \in 0..t.free
           /\ FreePos(t) # 0 => FreePos(t) \in Ids(t.node) /\ t.node[FreePos(t)].key = Nil
           /\ \A i \in Ids(t.node) : i > FreePos(t) => t.node[i].key # Nil
<1> DEFINE free == {i \in 1..t.free : t.node[i].key = Nil}
<1>1. t.free \in Nat /\ Len(t.node) \in Nat /\ t.free <= Len(t.node)
  BY GoodFacts DEF Good
<1>2. free \in SUBSET (0..t.free)
  BY <1>1
<1>3. \A i \in Ids(t.node) : i > t.free => t.node[i].key # Nil
  BY DEF Good
<1>4. \A i \in Ids(t.node) : i <= t.free /\ t.node[i].key = Nil => i \in free
  BY <1>1 DEF Ids
<1>5. \A i \in free : i \in 1..t.free /\ t.node[i].key = Nil
  OBVIOUS
<1>6. FreePos(t) = IF free = {} THEN 0 ELSE Max(free)
  BY DEF FreePos
<1> HIDE DEF free
<1>7. CASE free = {}
  <2>1. FreePos(t) = 0
    BY <1>6, <1>7
  <2>2. \A i \in Ids(t.node) : t.node[i].key # Nil
    BY <1>1, <1>3, <1>4, <1>7 DEF Ids
  <2>3. QED
    BY <1>1, <2>1, <2>2
<1>8. CASE free # {}
  <2>1. Max(free) \in free /\ \A x \in free : x <= Max(free)
    BY <1>1, <1>2, <1>8, GreatestOne
  <2>2. PICK m : m = Max(free)
    OBVIOUS
  <2>3. FreePos(t) = m /\ m \in 1..t.free /\ t.node[m].key = Nil /\ m \in free /\ \A x \in free : x <= m
    BY <1>5, <1>6, <1>8, <2>1, <2>2
  <2>4. m \in Ids(t.node)
    BY <1>1, <2>3 DEF Ids
  <2>5. \A i \in Ids(t.node) : i > m => t.node[i].key # Nil
    BY <1>1, <1>3, <1>4, <2>3 DEF Ids
  <2>6. m \in 0..t.free
    BY <1>1, <2>3
  <2>7. QED
    BY <2>3, <2>4, <2>5, <2>6
<1>9. QED
  BY <1>7, <1>8

\* Where no node is free, there are as many keys as nodes.
LEMMA FullOfKeys ==
    ASSUME NEW h, NEW t, Good(h, t), FreePos(t) = 0
    PROVE  IsFiniteSet(KeysOf(t)) /\ Cardinality(KeysOf(t)) = Len(t.node)
<1>1. Len(t.node) \in Nat /\ Linked(t.node)
  BY GoodFacts
<1>2. \A i \in Ids(t.node) : t.node[i].key # Nil
  BY <1>1, FreePosFacts DEF Ids
<1> DEFINE f == [i \in Ids(t.node) |-> t.node[i].key]
<1>3. f \in Bijection(Ids(t.node), KeysOf(t))
  <2>1. f \in [Ids(t.node) -> KeysOf(t)]
    BY <1>2 DEF KeysOf
  <2>2. \A x \in KeysOf(t) : \E i \in Ids(t.node) : f[i] = x
    BY DEF KeysOf
  <2>3. \A i, j \in Ids(t.node) : f[i] = f[j] => i = j
    BY <1>1, <1>2 DEF Linked
  <2> HIDE DEF f
  <2>4. QED
    BY <2>1, <2>2, <2>3, Zenon DEF Bijection, Injection, Surjection, IsInjective
<1>4. IsFiniteSet(Ids(t.node)) /\ Cardinality(Ids(t.node)) = Len(t.node)
  <2>1. PICK n \in Nat : n = Len(t.node)
    BY <1>1
  <2>2. IsFiniteSet(1..n) /\ Cardinality(1..n) = IF 1 > n THEN 0 ELSE n - 1 + 1
    BY FS_Interval
  <2>3. QED
    BY <2>1, <2>2 DEF Ids
<1> HIDE DEF f
<1>5. IsFiniteSet(KeysOf(t)) /\ Cardinality(KeysOf(t)) = Cardinality(Ids(t.node))
  <2>1. ExistsBijection(Ids(t.node), KeysOf(t))
    BY <1>3, Zenon DEF ExistsBijection
  <2>2. QED
    BY <1>4, <2>1, FS_Bijection
<1>6. QED
  BY <1>4, <1>5

\* When the nodes can hold more keys than there are, getfreepos finds a free one.
LEMMA FewKeys ==
    ASSUME NEW h, NEW t, Good(h, t), NEW M, IsFiniteSet(M), Cardinality(M) <= Len(t.node),
           KeysOf(t) \subseteq M, NEW k \in M, k \notin KeysOf(t)
    PROVE  FreePos(t) # 0
<1> SUFFICES ASSUME FreePos(t) = 0
             PROVE  FALSE
  OBVIOUS
<1>1. IsFiniteSet(KeysOf(t)) /\ Cardinality(KeysOf(t)) = Len(t.node)
  BY FullOfKeys
<1>2. KeysOf(t) # M
  OBVIOUS
<1>3. KeysOf(t) \in SUBSET M
  OBVIOUS
<1>4. /\ Cardinality(KeysOf(t)) <= Cardinality(M)
      /\ Cardinality(M) = Cardinality(KeysOf(t)) => M = KeysOf(t)
  BY <1>3, FS_Subset
<1>5. Cardinality(M) \in Nat /\ Len(t.node) \in Nat
  BY FS_CardinalityType, GoodFacts
<1>6. QED
  BY <1>1, <1>2, <1>4, <1>5

\* The table u is t with v stored under k.
Stored(h, t, u, k, v) ==
    /\ Good(h, u)
    /\ Len(u.array) = Len(t.array) /\ Len(u.node) = Len(t.node)
    /\ KeysOf(u) \subseteq KeysOf(t) \cup {k}
    /\ Found(u, k, v)
    /\ \A j \in Keys : j # k => \A x : Found(t, j, x) => Found(u, j, x)

\* Storing into one place of a sequence.
LEMMA Replaced ==
    ASSUME NEW S, NEW s \in Seq(S), NEW i \in 1..Len(s), NEW x \in S
    PROVE  /\ [s EXCEPT ![i] = x] \in Seq(S)
           /\ Len([s EXCEPT ![i] = x]) = Len(s)
           /\ [s EXCEPT ![i] = x][i] = x
           /\ \A j \in 1..Len(s) : j # i => [s EXCEPT ![i] = x][j] = s[j]
  OBVIOUS

\* Storing into a slot of the array part.
LEMMA CellStored ==
    ASSUME NEW h, NEW t, Good(h, t), NEW k \in Keys, InArray(t, k), NEW v \in Keys \cup {Nil}
    PROVE  Stored(h, t, [t EXCEPT !.array[k] = v], k, v)
<1>1. t \in Table /\ t.array \in Seq(Keys \cup {Nil}) /\ Len(t.array) \in Nat
  BY GoodFacts DEF Good
<1>2. k \in 1..Len(t.array)
  BY <1>1, TableAssumption DEF InArray, Ints
<1>3. PICK a : a = [t.array EXCEPT ![k] = v]
  OBVIOUS
<1>4. a \in Seq(Keys \cup {Nil}) /\ Len(a) = Len(t.array)
      /\ a[k] = v /\ \A j \in 1..Len(t.array) : j # k => a[j] = t.array[j]
  BY <1>1, <1>2, <1>3, Replaced
<1>5. PICK u : u = [t EXCEPT !.array[k] = v]
  OBVIOUS
<1>6. u.array = a /\ u.node = t.node /\ u.free = t.free /\ u \in Table
  BY <1>1, <1>3, <1>4, <1>5 DEF Table
<1>7. \A j : InArray(u, j) <=> InArray(t, j)
  BY <1>4, <1>6 DEF InArray
<1>8. Good(h, u)
  BY <1>4, <1>6, <1>7 DEF Good
<1>9. \A j : InArray(t, j) => j \in 1..Len(t.array)
  BY <1>1, TableAssumption DEF InArray, Ints
<1>10. Found(u, k, v)
  BY <1>4, <1>6, <1>7 DEF Found
<1>11. ASSUME NEW j \in Keys, j # k, NEW x, Found(t, j, x)
       PROVE  Found(u, j, x)
  BY <1>4, <1>6, <1>7, <1>9, <1>11 DEF Found
<1>12. KeysOf(u) = KeysOf(t)
  BY <1>6 DEF KeysOf
<1>13. Stored(h, t, u, k, v)
  BY <1>4, <1>6, <1>8, <1>10, <1>11, <1>12 DEF Stored
<1>14. QED
  BY <1>5, <1>13

\* A change of the nodes that keeps them sound stores v under k, where it gives k to
\* one of them and keeps the others' keys and values, those whose value is nil aside.
LEMMA NodesStored ==
    ASSUME NEW h, NEW t, Good(h, t), NEW k \in Keys, ~InArray(t, k), NEW v,
           NEW u \in Table, u.array = t.array, Len(u.node) = Len(t.node), Sound(h, u.node),
           u.free \in 0..Len(t.node),
           \A i \in Ids(t.node) : i > u.free => u.node[i].key # Nil,
           NEW m \in Ids(t.node), u.node[m].key = k, u.node[m].val = v,
           \A i \in Ids(t.node) : u.node[i].key \notin {k, Nil} =>
              \E j \in Ids(t.node) : t.node[j].key = u.node[i].key /\ t.node[j].val = u.node[i].val,
           \A j \in Ids(t.node) : t.node[j].val # Nil /\ t.node[j].key \notin {k, Nil} =>
              \E i \in Ids(t.node) : u.node[i].key = t.node[j].key
    PROVE  Stored(h, t, u, k, v)
<1>1. Ids(u.node) = Ids(t.node) /\ \A j : InArray(u, j) <=> InArray(t, j)
  BY DEF Ids, InArray
<1>2. k # Nil /\ ~InArray(t, Nil) /\ Nil \notin Keys
  BY TableAssumption DEF Keys, InArray
<1>3. \A i \in Ids(t.node) : ~InArray(t, u.node[i].key)
  <2>1. \A j \in Ids(t.node) : ~InArray(t, t.node[j].key)
    BY DEF Good
  <2> SUFFICES ASSUME NEW i \in Ids(t.node)
               PROVE  ~InArray(t, u.node[i].key)
    OBVIOUS
  <2>2. CASE u.node[i].key \in {k, Nil}
    BY <1>2, <2>2
  <2>3. CASE u.node[i].key \notin {k, Nil}
    BY <2>1, <2>3
  <2>4. QED
    BY <2>2, <2>3
<1>4. Good(h, u)
  BY <1>1, <1>3 DEF Good
<1>5. Found(u, k, v)
  BY <1>1 DEF Found
<1>6. ASSUME NEW j \in Keys, j # k, NEW x, Found(t, j, x)
      PROVE  Found(u, j, x)
  <2>1. CASE InArray(t, j)
    BY <1>1, <1>6, <2>1 DEF Found
  <2>2. CASE ~InArray(t, j) /\ \E i \in Ids(t.node) : u.node[i].key = j
    <3>1. PICK i \in Ids(t.node) : u.node[i].key = j
      BY <2>2
    <3>2. PICK l \in Ids(t.node) : t.node[l].key = j /\ t.node[l].val = u.node[i].val
      BY <1>2, <1>6, <3>1
    <3>3. Found(t, j, t.node[l].val)
      BY <2>2, <3>2 DEF Found
    <3>4. x = t.node[l].val
      BY <1>6, <3>3, FoundOnce
    <3>5. QED
      BY <1>1, <2>2, <3>1, <3>2, <3>4 DEF Found
  <2>3. CASE ~InArray(t, j) /\ \A i \in Ids(t.node) : u.node[i].key # j
    <3>1. x = Nil
      <4> SUFFICES ASSUME NEW l \in Ids(t.node), t.node[l].key = j, t.node[l].val = x
                   PROVE  x = Nil
        BY <1>6, <2>3 DEF Found
      <4>1. QED
        BY <1>2, <1>6, <2>3
    <3>2. QED
      BY <1>1, <2>3, <3>1 DEF Found
  <2>4. QED
    BY <2>1, <2>2, <2>3
<1>7. KeysOf(u) \subseteq KeysOf(t) \cup {k}
  <2> SUFFICES ASSUME NEW i \in Ids(t.node), u.node[i].key # Nil, u.node[i].key # k
               PROVE  u.node[i].key \in KeysOf(t)
    BY <1>1 DEF KeysOf
  <2>1. \E j \in Ids(t.node) : t.node[j].key = u.node[i].key
    OBVIOUS
  <2>2. QED
    BY <2>1 DEF KeysOf
<1>8. QED
  BY <1>4, <1>5, <1>6, <1>7 DEF Stored

\* Storing into the node that has the key already.
LEMMA NodeStored ==
    ASSUME NEW h \in [Keys -> Nat], NEW t, Good(h, t), NEW k \in Keys, ~InArray(t, k),
           NEW v \in Keys \cup {Nil}, NEW m \in Ids(t.node), t.node[m].key = k
    PROVE  Stored(h, t, [t EXCEPT !.node[m].val = v], k, v)
<1>1. t \in Table /\ t.node \in Seq(Node) /\ Len(t.node) \in Nat /\ Sound(h, t.node) /\ Linked(t.node)
  BY GoodFacts DEF Good
<1>2. k # Nil /\ t.node[m] \in Node
  BY <1>1, LinkedFacts, TableAssumption DEF Keys
<1>3. PICK c : c = [t.node[m] EXCEPT !.val = v]
  OBVIOUS
<1>4. c \in Node /\ c.key = k /\ c.val = v /\ c.next = t.node[m].next
  BY <1>2, <1>3 DEF Node
<1>5. PICK e : e = [t.node EXCEPT ![m] = c]
  OBVIOUS
<1>6. e \in Seq(Node) /\ Len(e) = Len(t.node) /\ e[m] = c
      /\ \A j \in Ids(t.node) : j # m => e[j] = t.node[j]
  BY <1>1, <1>4, <1>5, Replaced DEF Ids
<1>7. PICK u : u = [t EXCEPT !.node[m].val = v]
  OBVIOUS
<1>8. u.array = t.array /\ u.node = e /\ u.free = t.free /\ u \in Table
  BY <1>1, <1>3, <1>5, <1>6, <1>7 DEF Table
<1>9. SameLinks(t.node, e)
  BY <1>4, <1>6 DEF SameLinks
<1>10. \A i \in Ids(t.node) : e[i].key = t.node[i].key /\ (t.node[i].key = Nil => e[i].val = Nil)
  BY <1>1, <1>2, <1>4, <1>6 DEF Linked
<1>11. Sound(h, e)
  BY <1>1, <1>9, <1>10, ValueStored
<1>12. u.free \in 0..Len(t.node) /\ \A i \in Ids(t.node) : i > u.free => u.node[i].key # Nil
  BY <1>8, <1>10 DEF Good
<1>13. Stored(h, t, u, k, v)
  <2>1. \A i \in Ids(t.node) : e[i].key \notin {k, Nil} =>
           \E j \in Ids(t.node) : t.node[j].key = e[i].key /\ t.node[j].val = e[i].val
    BY <1>4, <1>6
  <2>2. \A j \in Ids(t.node) : t.node[j].val # Nil /\ t.node[j].key \notin {k, Nil} =>
           \E i \in Ids(t.node) : e[i].key = t.node[j].key
    BY <1>10
  <2>3. u.node[m].key = k /\ u.node[m].val = v /\ Len(u.node) = Len(t.node) /\ Sound(h, u.node)
    BY <1>4, <1>6, <1>8, <1>11
  <2>4. QED
    BY <1>8, <1>12, <2>1, <2>2, <2>3, NodesStored
<1>14. QED
  BY <1>7, <1>13

\* The conditions in which luaH_newkey works.
New(t, k) ==
    /\ Good(hash, t) /\ k \in Keys /\ ~InArray(t, k) /\ t.node # <<>>
    /\ \A i \in Ids(t.node) : t.node[i].key # k

\* What holds where luaH_newkey is called.
LEMMA NewFacts ==
    ASSUME hash \in [Keys -> Nat], NEW t, NEW k, New(t, k)
    PROVE  /\ t \in Table /\ t.node \in Seq(Node) /\ Len(t.node) \in Nat /\ Len(t.node) # 0
           /\ Sound(hash, t.node) /\ Linked(t.node) /\ k # Nil /\ k \in Keys
           /\ MainPosition(t, k) \in Ids(t.node)
           /\ MainPosition(t, k) = Home(hash, Len(t.node), k)
           /\ t.free \in 0..Len(t.node)
<1>1. /\ t \in Table /\ t.node \in Seq(Node) /\ Len(t.node) \in Nat
      /\ Sound(hash, t.node) /\ Linked(t.node) /\ k # Nil /\ k \in Keys /\ t.free \in 0..Len(t.node)
  BY GoodFacts, TableAssumption DEF New, Good, Keys
<1>2. Len(t.node) # 0
  BY <1>1 DEF New
<1>3. MainPosition(t, k) = Home(hash, Len(t.node), k)
  BY HomeIs
<1>4. Home(hash, Len(t.node), k) \in 1..Len(t.node)
  BY <1>1, <1>2, HomeRange
<1>5. QED
  BY <1>1, <1>2, <1>3, <1>4 DEF Ids

\* luaH_newkey with a main position that holds no value stores the key.
LEMMA PutInMainStores ==
    ASSUME hash \in [Keys -> Nat], NEW t, NEW k, New(t, k), NEW v \in Keys \cup {Nil}, ~Taken(t, k)
    PROVE  Stored(hash, t, PutInMain(t, k, v), k, v)
<1>1. PICK m : m = MainPosition(t, k)
  OBVIOUS
<1>2. /\ t \in Table /\ t.node \in Seq(Node) /\ Sound(hash, t.node) /\ Linked(t.node)
      /\ k # Nil /\ k \in Keys /\ m \in Ids(t.node) /\ m = Home(hash, Len(t.node), k)
      /\ t.node[m].val = Nil /\ t.node[m] \in Node
  BY <1>1, NewFacts, LinkedFacts DEF Taken
<1>3. PICK c : c = [[t.node[m] EXCEPT !.key = k] EXCEPT !.val = v]
  OBVIOUS
<1>4. c \in Node /\ c.key = k /\ c.val = v /\ c.next = t.node[m].next
  BY <1>2, <1>3 DEF Node
<1>5. PICK e : e = [t.node EXCEPT ![m] = c]
  OBVIOUS
<1>6. e \in Seq(Node) /\ Len(e) = Len(t.node) /\ e[m] = c
      /\ \A j \in Ids(t.node) : j # m => e[j] = t.node[j]
  BY <1>2, <1>4, <1>5, Replaced DEF Ids
<1>7. PICK u : u = PutInMain(t, k, v)
  OBVIOUS
<1>8. u = [t EXCEPT !.node = e]
  <2>1. u = [t EXCEPT !.node[m].key = k, !.node[m].val = v]
    BY <1>1, <1>7 DEF PutInMain
  <2>2. PICK b : b = [t.node[m] EXCEPT !.key = k]
    OBVIOUS
  <2>3. PICK f : f = [t.node EXCEPT ![m] = b]
    OBVIOUS
  <2>4. b \in Node
    BY <1>2, <2>2 DEF Node
  <2>5. f \in Seq(Node) /\ Len(f) = Len(t.node) /\ f[m] = b
        /\ \A j \in Ids(t.node) : j # m => f[j] = t.node[j]
    BY <1>2, <2>3, <2>4, Replaced DEF Ids
  <2>6. [f EXCEPT ![m] = c] = e
    BY <1>2, <1>5, <2>3, <2>5 DEF Ids
  <2>7. [f[m] EXCEPT !.val = v] = c
    BY <1>3, <2>2, <2>5
  <2>8. PICK w : w = [t EXCEPT !.node = f]
    OBVIOUS
  <2>9. w.node = f /\ [w EXCEPT !.node = e] = [t EXCEPT !.node = e]
    BY <1>2, <2>8 DEF Table
  <2>10. u = [w EXCEPT !.node[m].val = v]
    BY <2>1, <2>2, <2>3, <2>8
  <2>11. u = [w EXCEPT !.node = [f EXCEPT ![m] = [f[m] EXCEPT !.val = v]]]
    BY <2>9, <2>10
  <2>12. QED
    BY <2>6, <2>7, <2>9, <2>11
<1>9. u.array = t.array /\ u.node = e /\ u.free = t.free /\ u \in Table
  BY <1>2, <1>6, <1>8 DEF Table
<1>10. \A i \in Ids(t.node) : t.node[i].key # k
  BY DEF New
<1>11. SameLinks(t.node, e)
  BY <1>4, <1>6 DEF SameLinks
<1>12. Sound(hash, e)
  BY <1>2, <1>4, <1>6, <1>10, <1>11, MainTaken
<1>13. t.free \in 0..Len(t.node) /\ \A i \in Ids(t.node) : i > t.free => e[i].key # Nil
  <2>1. t.free \in 0..Len(t.node) /\ \A i \in Ids(t.node) : i > t.free => t.node[i].key # Nil
    BY DEF New, Good
  <2>2. \A i \in Ids(t.node) : t.node[i].key # Nil => e[i].key # Nil
    BY <1>2, <1>4, <1>6
  <2>3. QED
    BY <2>1, <2>2
<1>14. Stored(hash, t, u, k, v)
  <2>1. \A i \in Ids(t.node) : e[i].key \notin {k, Nil} =>
           \E j \in Ids(t.node) : t.node[j].key = e[i].key /\ t.node[j].val = e[i].val
    BY <1>4, <1>6
  <2>2. \A j \in Ids(t.node) : t.node[j].val # Nil /\ t.node[j].key \notin {k, Nil} =>
           \E i \in Ids(t.node) : e[i].key = t.node[j].key
    BY <1>2, <1>6
  <2>3. u.node[m].key = k /\ u.node[m].val = v /\ Len(u.node) = Len(t.node) /\ Sound(hash, u.node)
    BY <1>4, <1>6, <1>9, <1>12
  <2>4. Good(hash, t) /\ ~InArray(t, k)
    BY DEF New
  <2>5. u.free \in 0..Len(t.node) /\ \A i \in Ids(t.node) : i > u.free => u.node[i].key # Nil
    BY <1>9, <1>13
  <2>6. \A i \in Ids(t.node) : u.node[i].key \notin {k, Nil} =>
           \E j \in Ids(t.node) : t.node[j].key = u.node[i].key /\ t.node[j].val = u.node[i].val
    BY <1>9, <2>1
  <2>7. \A j \in Ids(t.node) : t.node[j].val # Nil /\ t.node[j].key \notin {k, Nil} =>
           \E i \in Ids(t.node) : u.node[i].key = t.node[j].key
    BY <1>9, <2>2
  <2>8. u.array = t.array /\ u \in Table /\ k \in Keys /\ m \in Ids(t.node)
    BY <1>2, <1>9
  <2>9. QED
    BY <2>3, <2>4, <2>5, <2>6, <2>7, <2>8, NodesStored
<1>15. QED
  BY <1>7, <1>14

\* luaH_newkey with a colliding node that stays stores the key and loses no other.
LEMMA PutInFreeStores ==
    ASSUME hash \in [Keys -> Nat], NEW t, NEW k, New(t, k), NEW v \in Keys \cup {Nil},
           Taken(t, k), FreePos(t) # 0,
           MainPosition(t, t.node[MainPosition(t, k)].key) = MainPosition(t, k)
    PROVE  Stored(hash, t, PutInFree(t, k, v), k, v)
<1>1. PICK m, n : m = MainPosition(t, k) /\ n = FreePos(t)
  OBVIOUS
<1>2. /\ t \in Table /\ t.node \in Seq(Node) /\ Len(t.node) \in Nat /\ Sound(hash, t.node) /\ Linked(t.node)
      /\ k # Nil /\ k \in Keys /\ m \in Ids(t.node) /\ m = Home(hash, Len(t.node), k)
      /\ t.node[m].val # Nil /\ t.node[m] \in Node /\ t.free \in 0..Len(t.node)
      /\ t.node[m].next \in 0..Len(t.node) /\ t.node[m].next \in Nat
  BY <1>1, NewFacts, LinkedFacts DEF Taken
<1>3. /\ n \in 0..t.free /\ n \in Ids(t.node) /\ t.node[n].key = Nil
      /\ \A i \in Ids(t.node) : i > n => t.node[i].key # Nil
  BY <1>1, FreePosFacts DEF New
<1>4. t.node[m].key # Nil /\ n # m
  BY <1>2, <1>3 DEF Linked
<1>5. PICK c, b : c = [key |-> k, val |-> v, next |-> t.node[m].next] /\ b = [t.node[m] EXCEPT !.next = n]
  OBVIOUS
<1>6. n \in Nat
  BY <1>2, <1>3
<1>7. /\ c \in Node /\ c.key = k /\ c.val = v /\ c.next = t.node[m].next
      /\ b \in Node /\ b.key = t.node[m].key /\ b.val = t.node[m].val /\ b.next = n
  BY <1>2, <1>5, <1>6 DEF Node
<1>8. PICK f, e : f = [t.node EXCEPT ![n] = c] /\ e = [f EXCEPT ![m] = b]
  OBVIOUS
<1>9. f \in Seq(Node) /\ Len(f) = Len(t.node) /\ f[n] = c
      /\ \A j \in Ids(t.node) : j # n => f[j] = t.node[j]
  BY <1>2, <1>3, <1>7, <1>8, Replaced DEF Ids
<1>10. e \in Seq(Node) /\ Len(e) = Len(t.node) /\ e[n] = c /\ e[m] = b
      /\ \A j \in Ids(t.node) : j # n /\ j # m => e[j] = t.node[j]
  <2>1. e \in Seq(Node) /\ Len(e) = Len(f) /\ e[m] = b /\ \A j \in 1..Len(f) : j # m => e[j] = f[j]
    BY <1>2, <1>7, <1>8, <1>9, Replaced DEF Ids
  <2>2. QED
    BY <1>3, <1>4, <1>9, <2>1 DEF Ids
<1>11. PICK u : u = PutInFree(t, k, v)
  OBVIOUS
<1>12. u = [[t EXCEPT !.free = n - 1] EXCEPT !.node = e]
  <2>1. PICK w, x : w = [t EXCEPT !.free = n - 1] /\ x = [w EXCEPT !.node = f]
    OBVIOUS
  <2>2. w.node = t.node /\ x.node = f /\ [x EXCEPT !.node = e] = [w EXCEPT !.node = e]
    BY <1>2, <2>1 DEF Table
  <2>3. u = [t EXCEPT !.free = n - 1, !.node[n] = c, !.node[m].next = n]
    BY <1>1, <1>5, <1>11 DEF PutInFree
  <2>4. u = [[w EXCEPT !.node[n] = c] EXCEPT !.node[m].next = n]
    BY <2>1, <2>3
  <2>5. [w EXCEPT !.node[n] = c] = x
    BY <1>8, <2>1, <2>2
  <2>6. u = [x EXCEPT !.node[m].next = n]
    BY <2>4, <2>5
  <2>7. u = [x EXCEPT !.node = [f EXCEPT ![m] = [f[m] EXCEPT !.next = n]]]
    BY <2>2, <2>6
  <2>8. f[m] = t.node[m]
    BY <1>2, <1>4, <1>9
  <2>9. QED
    BY <1>5, <1>8, <2>1, <2>2, <2>7, <2>8
<1>13. u.array = t.array /\ u.node = e /\ u.free = n - 1 /\ u \in Table
  <2>1. n - 1 \in Nat
    BY <1>3, <1>6 DEF Ids
  <2>2. QED
    BY <1>2, <1>10, <1>12, <2>1 DEF Table
<1>14. \A i \in Ids(t.node) : t.node[i].key # k
  BY DEF New
<1>15. Sound(hash, e)
  <2>1. Differ(t.node, e, {m, n})
    BY <1>10 DEF Differ
  <2>2. m = Home(hash, Len(t.node), t.node[m].key)
    BY <1>1, HomeIs
  <2>3. /\ e[m].next = n /\ e[n].next = t.node[m].next
        /\ e[m].key = t.node[m].key /\ e[n].key = k
    BY <1>7, <1>10
  <2>4. QED
    BY <1>2, <1>3, <1>4, <1>14, <2>1, <2>2, <2>3, FreeTaken, ZenonT(60)
<1>16. u.free \in 0..Len(t.node) /\ \A i \in Ids(t.node) : i > u.free => u.node[i].key # Nil
  <2>1. n - 1 \in 0..Len(t.node) /\ \A i \in Ids(t.node) : i > n - 1 => i = n \/ i > n
    BY <1>2, <1>3, <1>6 DEF Ids
  <2>2. \A i \in Ids(t.node) : t.node[i].key # Nil \/ i = n => e[i].key # Nil
    BY <1>2, <1>4, <1>7, <1>10
  <2>3. QED
    BY <1>3, <1>13, <2>1, <2>2
<1>17. Stored(hash, t, u, k, v)
  <2>1. \A i \in Ids(t.node) : u.node[i].key \notin {k, Nil} =>
           \E j \in Ids(t.node) : t.node[j].key = u.node[i].key /\ t.node[j].val = u.node[i].val
    BY <1>7, <1>10, <1>13
  <2>2. \A j \in Ids(t.node) : t.node[j].val # Nil /\ t.node[j].key \notin {k, Nil} =>
           \E i \in Ids(t.node) : u.node[i].key = t.node[j].key
    BY <1>3, <1>7, <1>10, <1>13
  <2>3. u.node[n].key = k /\ u.node[n].val = v /\ Len(u.node) = Len(t.node) /\ Sound(hash, u.node)
    BY <1>7, <1>10, <1>13, <1>15
  <2>4. Good(hash, t) /\ ~InArray(t, k)
    BY DEF New
  <2>5. u.array = t.array /\ u \in Table /\ k \in Keys /\ n \in Ids(t.node)
    BY <1>2, <1>3, <1>13
  <2>6. QED
    BY <1>16, <2>1, <2>2, <2>3, <2>4, <2>5, NodesStored
<1>18. QED
  BY <1>11, <1>17

Prev(t, m) ==
    LET at == Walk(t.node, MainPosition(t, t.node[m].key))
    IN  at[Min({i \in 0..Len(t.node) : at[i] # 0 /\ t.node[at[i]].next = m})]

\* Where the node in the main position m is not in its own, one node leads to it.
LEMMA Predecessor ==
    ASSUME hash \in [Keys -> Nat], NEW t, Sound(hash, t.node), NEW m \in Ids(t.node),
           t.node[m].key # Nil, MainPosition(t, t.node[m].key) # m
    PROVE  Prev(t, m) \in Ids(t.node) /\ t.node[Prev(t, m)].next = m
<1> DEFINE d == t.node
           at == Walk(d, MainPosition(t, d[m].key))
           hits == {i \in 0..Len(d) : at[i] # 0 /\ d[at[i]].next = m}
<1>1. PICK a : a = MainPosition(t, d[m].key)
  OBVIOUS
<1>2. Linked(d) /\ Ending(d) /\ Len(d) \in Nat /\ Len(d) # 0 /\ d[m].key \in Keys /\ m # 0
  BY LinkedFacts DEF Sound, Ids
<1>3. a = Home(hash, Len(d), d[m].key) /\ a \in Ids(d) /\ a # m
  BY <1>1, <1>2, HomeIs, HomeRange DEF Ids
<1>4. Reaches(d, a, m)
  BY <1>3 DEF Sound, Homed
<1>5. WalkIs(d, a, at)
  BY <1>1, <1>2, <1>3, WalkFacts
<1> HIDE DEF at
<1>6. PICK n \in 0..Len(d) : at[n] = m
  BY <1>2, <1>3, <1>4, <1>5, WalkReaches
<1>7. /\ at[0] = a /\ at \in [0..Len(d) -> 0..Len(d)]
      /\ \A i \in 1..Len(d) : at[i] = IF at[i - 1] = 0 THEN 0 ELSE d[at[i - 1]].next
  BY <1>5 DEF WalkIs
<1>8. n \in 1..Len(d) /\ n - 1 \in 0..Len(d)
  BY <1>2, <1>3, <1>6, <1>7
<1>9. n - 1 \in hits
  BY <1>2, <1>6, <1>7, <1>8
<1>10. hits \in SUBSET Nat
  BY <1>2
<1>11. Min(hits) \in hits
  <2> HIDE DEF hits
  <2>1. QED
    BY <1>9, <1>10, LeastOne
<1>12. PICK x : x = Min(hits)
  OBVIOUS
<1>13. x \in 0..Len(d) /\ at[x] # 0 /\ d[at[x]].next = m
  BY <1>11, <1>12
<1>14. at[x] \in Ids(d)
  BY <1>2, <1>7, <1>13 DEF Ids
<1>15. QED
  BY <1>12, <1>13, <1>14 DEF at, Prev

\* luaH_newkey with a colliding node that moves stores the key and loses no other.
LEMMA MoveCollidingStores ==
    ASSUME hash \in [Keys -> Nat], NEW t, NEW k, New(t, k), NEW v \in Keys \cup {Nil},
           Taken(t, k), FreePos(t) # 0,
           MainPosition(t, t.node[MainPosition(t, k)].key) # MainPosition(t, k)
    PROVE  Stored(hash, t, MoveColliding(t, k, v), k, v)
<1>1. PICK m, n : m = MainPosition(t, k) /\ n = FreePos(t)
  OBVIOUS
<1>2. /\ t \in Table /\ t.node \in Seq(Node) /\ Len(t.node) \in Nat /\ Sound(hash, t.node) /\ Linked(t.node)
      /\ k # Nil /\ k \in Keys /\ m \in Ids(t.node) /\ m = Home(hash, Len(t.node), k)
      /\ t.node[m].val # Nil /\ t.node[m] \in Node /\ t.free \in 0..Len(t.node)
  BY <1>1, NewFacts, LinkedFacts DEF Taken
<1>3. /\ n \in 0..t.free /\ n \in Ids(t.node) /\ t.node[n].key = Nil
      /\ \A i \in Ids(t.node) : i > n => t.node[i].key # Nil
  BY <1>1, FreePosFacts DEF New
<1>4. t.node[m].key # Nil /\ n # m
  BY <1>2, <1>3 DEF Linked
<1>5. PICK q : q = Prev(t, m)
  OBVIOUS
<1>6. q \in Ids(t.node) /\ t.node[q].next = m
  <2>1. m \in Ids(t.node) /\ t.node[m].key # Nil /\ MainPosition(t, t.node[m].key) # m
    BY <1>1, <1>2, <1>4
  <2>2. Prev(t, m) \in Ids(t.node) /\ t.node[Prev(t, m)].next = m
    BY <1>2, <2>1, Predecessor
  <2>3. QED
    BY <1>5, <2>2
<1>7. n \in Nat /\ m # 0 /\ t.node[q] \in Node
  BY <1>2, <1>3, <1>6, LinkedFacts
<1>8. q # n /\ q # m
  <2>1. t.node[n].next = 0
    BY <1>2, <1>3 DEF Linked
  <2>2. \E x \in {m} : t.node[x].next \notin {m}
    <3>1. {m} \in SUBSET Ids(t.node) /\ {m} # {}
      BY <1>2
    <3>2. Ending(t.node)
      BY <1>2 DEF Sound
    <3>3. QED
      BY <3>1, <3>2 DEF Ending
  <2>3. QED
    BY <1>6, <1>7, <2>1, <2>2
<1>9. PICK b, c : b = [t.node[q] EXCEPT !.next = n] /\ c = [key |-> k, val |-> v, next |-> 0]
  OBVIOUS
<1>10. /\ c \in Node /\ c.key = k /\ c.val = v /\ c.next = 0
       /\ b \in Node /\ b.key = t.node[q].key /\ b.val = t.node[q].val /\ b.next = n
  BY <1>2, <1>7, <1>9 DEF Node
<1>11. PICK f, g, e : f = [t.node EXCEPT ![q] = b] /\ g = [f EXCEPT ![n] = t.node[m]]
                      /\ e = [g EXCEPT ![m] = c]
  OBVIOUS
<1>12. f \in Seq(Node) /\ Len(f) = Len(t.node) /\ f[q] = b
       /\ \A j \in Ids(t.node) : j # q => f[j] = t.node[j]
  BY <1>2, <1>6, <1>10, <1>11, Replaced DEF Ids
<1>13. g \in Seq(Node) /\ Len(g) = Len(t.node) /\ g[n] = t.node[m]
       /\ \A j \in Ids(t.node) : j # n => g[j] = f[j]
  <2>1. n \in 1..Len(f) /\ t.node[m] \in Node
    BY <1>2, <1>3, <1>12 DEF Ids
  <2>2. g \in Seq(Node) /\ Len(g) = Len(f) /\ g[n] = t.node[m] /\ \A j \in 1..Len(f) : j # n => g[j] = f[j]
    BY <1>11, <1>12, <2>1, Replaced
  <2>3. QED
    BY <1>12, <2>2 DEF Ids
<1>14. e \in Seq(Node) /\ Len(e) = Len(t.node) /\ e[m] = c
       /\ \A j \in Ids(t.node) : j # m => e[j] = g[j]
  <2>1. m \in 1..Len(g)
    BY <1>2, <1>13 DEF Ids
  <2>2. e \in Seq(Node) /\ Len(e) = Len(g) /\ e[m] = c /\ \A j \in 1..Len(g) : j # m => e[j] = g[j]
    BY <1>10, <1>11, <1>13, <2>1, Replaced
  <2>3. QED
    BY <1>13, <2>2 DEF Ids
<1>15. e[n] = t.node[m] /\ e[q] = b /\ e[m] = c
       /\ \A j \in Ids(t.node) : j # n /\ j # m /\ j # q => e[j] = t.node[j]
  BY <1>3, <1>4, <1>6, <1>8, <1>12, <1>13, <1>14
<1>16. PICK u : u = MoveColliding(t, k, v)
  OBVIOUS
<1>17. u = [[t EXCEPT !.free = n - 1] EXCEPT !.node = e]
  <2>1. PICK w, x, y : w = [t EXCEPT !.free = n - 1] /\ x = [w EXCEPT !.node = f] /\ y = [x EXCEPT !.node = g]
    OBVIOUS
  <2>2. /\ w.node = t.node /\ x.node = f /\ y.node = g /\ [y EXCEPT !.node = e] = [w EXCEPT !.node = e]
        /\ [x EXCEPT !.node = g] = y
    BY <1>2, <2>1 DEF Table
  <2>3. u = [t EXCEPT !.free = n - 1, !.node[q].next = n, !.node[n] = t.node[m], !.node[m] = c]
    BY <1>1, <1>5, <1>9, <1>16 DEF MoveColliding, Prev
  <2>4. u = [[[w EXCEPT !.node[q].next = n] EXCEPT !.node[n] = t.node[m]] EXCEPT !.node[m] = c]
    BY <2>1, <2>3
  <2>5. [w EXCEPT !.node[q].next = n] = [w EXCEPT !.node = [t.node EXCEPT ![q] = [t.node[q] EXCEPT !.next = n]]]
    BY <2>2
  <2>6. [w EXCEPT !.node[q].next = n] = x
    BY <1>9, <1>11, <2>1, <2>5
  <2>7. [x EXCEPT !.node[n] = t.node[m]] = y
    BY <1>11, <2>1, <2>2
  <2>8. [y EXCEPT !.node[m] = c] = [y EXCEPT !.node = e]
    BY <1>11, <2>2
  <2>9. QED
    BY <2>1, <2>2, <2>4, <2>6, <2>7, <2>8
<1>18. u.array = t.array /\ u.node = e /\ u.free = n - 1 /\ u \in Table
  <2>1. n - 1 \in Nat
    BY <1>3, <1>7 DEF Ids
  <2>2. QED
    BY <1>2, <1>14, <1>17, <2>1 DEF Table
<1>19. \A i \in Ids(t.node) : t.node[i].key # k
  BY DEF New
<1>20. Sound(hash, e)
  <2>1. Differ(t.node, e, {m, n, q})
    BY <1>14, <1>15 DEF Differ
  <2>2. m # Home(hash, Len(t.node), t.node[m].key)
    BY <1>1, HomeIs
  <2>3. Relinks(t.node, e, m, n, q)
    BY <1>3, <1>6, <1>10, <1>15, <2>1 DEF Relinks
  <2>4. e[q].key = t.node[q].key /\ e[n].key = t.node[m].key /\ e[m].key = k
    BY <1>10, <1>15
  <2>5. QED
    BY <1>2, <1>3, <1>4, <1>6, <1>19, <2>2, <2>3, <2>4, MovedAway
<1>21. u.free \in 0..Len(t.node) /\ \A i \in Ids(t.node) : i > u.free => u.node[i].key # Nil
  <2>1. n - 1 \in 0..Len(t.node) /\ \A i \in Ids(t.node) : i > n - 1 => i = n \/ i > n
    BY <1>2, <1>3, <1>7 DEF Ids
  <2>2. \A i \in Ids(t.node) : t.node[i].key # Nil \/ i = n => e[i].key # Nil
    BY <1>2, <1>4, <1>10, <1>15
  <2>3. QED
    BY <1>3, <1>18, <2>1, <2>2
<1>22. Stored(hash, t, u, k, v)
  <2>1. \A i \in Ids(t.node) : e[i].key \notin {k, Nil} =>
           \E j \in Ids(t.node) : t.node[j].key = e[i].key /\ t.node[j].val = e[i].val
    <3> SUFFICES ASSUME NEW i \in Ids(t.node), e[i].key \notin {k, Nil}
                 PROVE  \E j \in Ids(t.node) : t.node[j].key = e[i].key /\ t.node[j].val = e[i].val
      OBVIOUS
    <3>1. CASE i = n
      BY <1>2, <1>15, <3>1
    <3>2. CASE i = q
      BY <1>6, <1>10, <1>15, <3>2
    <3>3. CASE i # n /\ i # q
      BY <1>10, <1>15, <3>3
    <3>4. QED
      BY <3>1, <3>2, <3>3
  <2>2. \A j \in Ids(t.node) : t.node[j].val # Nil /\ t.node[j].key \notin {k, Nil} =>
           \E i \in Ids(t.node) : e[i].key = t.node[j].key
    <3> SUFFICES ASSUME NEW j \in Ids(t.node), t.node[j].key \notin {k, Nil}
                 PROVE  \E i \in Ids(t.node) : e[i].key = t.node[j].key
      OBVIOUS
    <3>1. CASE j = m
      BY <1>3, <1>15, <3>1
    <3>2. CASE j = q
      BY <1>6, <1>10, <1>15, <3>2
    <3>3. CASE j # m /\ j # q
      BY <1>3, <1>15, <3>3
    <3>4. QED
      BY <3>1, <3>2, <3>3
  <2>3. u.node[m].key = k /\ u.node[m].val = v /\ Len(u.node) = Len(t.node) /\ Sound(hash, u.node)
    BY <1>10, <1>14, <1>18, <1>20
  <2>4. Good(hash, t) /\ ~InArray(t, k)
    BY DEF New
  <2>5. u.array = t.array /\ u \in Table /\ k \in Keys /\ m \in Ids(t.node)
    BY <1>2, <1>18
  <2>6. \A i \in Ids(t.node) : u.node[i].key \notin {k, Nil} =>
           \E j \in Ids(t.node) : t.node[j].key = u.node[i].key /\ t.node[j].val = u.node[i].val
    BY <1>18, <2>1
  <2>7. \A j \in Ids(t.node) : t.node[j].val # Nil /\ t.node[j].key \notin {k, Nil} =>
           \E i \in Ids(t.node) : u.node[i].key = t.node[j].key
    BY <1>18, <2>2
  <2>8. QED
    BY <1>21, <2>3, <2>4, <2>5, <2>6, <2>7, NodesStored
<1>23. QED
  BY <1>16, <1>22

\* luaH_set where the table need not grow stores the value and loses no other.
LEMMA PutStores ==
    ASSUME hash \in [Keys -> Nat], NEW t, Good(hash, t), NEW k \in Keys, NEW v \in Keys \cup {Nil},
           HasCell(t, k) \/ HasRoom(t, k)
    PROVE  Stored(hash, t, Put(t, k, v), k, v)
<1>1. t # Overflow
  BY NoOverflow
<1>2. HasCell(t, k) <=> InArray(t, k) \/ \E i \in Ids(t.node) : t.node[i].key = k
  BY GetIs
<1>3. CASE InArray(t, k)
  <2>1. Put(t, k, v) = [t EXCEPT !.array[k] = v]
    BY <1>1, <1>3 DEF Put
  <2>2. QED
    BY <1>3, <2>1, CellStored
<1>4. ASSUME ~InArray(t, k), NEW i \in Ids(t.node), t.node[i].key = k
      PROVE  Stored(hash, t, Put(t, k, v), k, v)
  <2>1. NodeOf(t, k) = i /\ i # 0
    BY <1>4, GoodFacts, NodeOfFacts, LinkedFacts
  <2>2. Put(t, k, v) = [t EXCEPT !.node[i].val = v]
    BY <1>1, <1>4, <2>1 DEF Put
  <2>3. Stored(hash, t, [t EXCEPT !.node[i].val = v], k, v)
    BY <1>4, NodeStored
  <2>4. QED
    BY <2>2, <2>3
<1>5. ASSUME ~InArray(t, k), \A i \in Ids(t.node) : t.node[i].key # k
      PROVE  Stored(hash, t, Put(t, k, v), k, v)
  <2>1. ~HasCell(t, k) /\ HasRoom(t, k) /\ NodeOf(t, k) = 0
    BY <1>2, <1>5, NodeOfFacts, GoodFacts
  <2>2. Put(t, k, v) = NewKey(t, k, v)
    BY <1>1, <1>5, <2>1 DEF Put
  <2>3. New(t, k)
    BY <1>5, <2>1 DEF New, HasRoom
  <2>4. CASE ~Taken(t, k)
    BY <2>2, <2>3, <2>4, PutInMainStores DEF NewKey
  <2>5. CASE Taken(t, k) /\ MainPosition(t, t.node[MainPosition(t, k)].key) # MainPosition(t, k)
    <3>1. FreePos(t) # 0
      BY <2>1, <2>5 DEF HasRoom
    <3>2. NewKey(t, k, v) = MoveColliding(t, k, v)
      BY <2>5 DEF NewKey
    <3>3. Stored(hash, t, MoveColliding(t, k, v), k, v)
      BY <2>3, <2>5, <3>1, MoveCollidingStores
    <3>4. QED
      BY <2>2, <3>2, <3>3
  <2>6. CASE Taken(t, k) /\ MainPosition(t, t.node[MainPosition(t, k)].key) = MainPosition(t, k)
    <3>1. FreePos(t) # 0
      BY <2>1, <2>6 DEF HasRoom
    <3>2. NewKey(t, k, v) = PutInFree(t, k, v)
      BY <2>6 DEF NewKey
    <3>3. Stored(hash, t, PutInFree(t, k, v), k, v)
      BY <2>3, <2>6, <3>1, PutInFreeStores
    <3>4. QED
      BY <2>2, <3>2, <3>3
  <2>7. QED
    BY <2>4, <2>5, <2>6
<1>6. QED
  BY <1>3, <1>4, <1>5

\* A vector for n entries has n nodes or more.
LEMMA NodeSizeFacts ==
    ASSUME NEW n \in Nat
    PROVE  NodeSize(n) \in Nat /\ NodeSize(n) >= n
<1> DEFINE T == {m \in Nat : twoto[m] >= m /\ twoto[m] >= 1}
<1>1. \A m \in Nat : m \in T => m + 1 \in T
  <2> SUFFICES ASSUME NEW m \in Nat, twoto[m] >= m, twoto[m] >= 1
               PROVE  twoto[m + 1] >= m + 1 /\ twoto[m + 1] >= 1
    OBVIOUS
  <2>1. twoto[m + 1] = 2 * twoto[m] /\ twoto[m] \in Nat
    BY Powers
  <2>2. QED
    BY <2>1
<1>2. 0 \in T
  BY Powers
<1> HIDE DEF T
<1>3. n \in T
  BY <1>1, <1>2, Steps
<1>4. CASE n = 0
  BY <1>4 DEF NodeSize
<1>5. CASE n # 0
  <2> DEFINE big == {lg \in 0..n : twoto[lg] >= n}
  <2>1. n \in big /\ big \in SUBSET Nat
    BY <1>3 DEF T
  <2>2. Min(big) \in big
    <3> HIDE DEF big
    <3>1. QED
      BY <2>1, LeastOne
  <2>3. PICK m : m = Min(big)
    OBVIOUS
  <2>4. m \in Nat /\ twoto[m] >= n
    BY <2>2, <2>3
  <2>5. NodeSize(n) = twoto[m]
    BY <1>5, <2>3 DEF NodeSize
  <2>6. twoto[m] \in Nat
    BY <2>4, Powers
  <2>7. QED
    BY <2>4, <2>5, <2>6
<1>6. QED
  BY <1>4, <1>5

\* The keys with values that an array part of that size leaves to the nodes.
Moved(t, nasize) ==
    {j \in Keys : ~(j \in Ints /\ j <= nasize) /\ \E x \in Keys : Found(t, j, x)}

\* luaH_resize inserts again every value that its new array part has not kept, and
\* nothing else.
LEMMA OldsFacts ==
    ASSUME NEW h, NEW t, Good(h, t), NEW nasize \in Nat
    PROVE  LET olds == Olds(t, nasize)
           IN  /\ Len(olds) \in Nat
               /\ \A m \in 1..Len(olds) : olds[m].val # Nil =>
                     olds[m].key \in Keys /\ olds[m].val \in Keys /\ Found(t, olds[m].key, olds[m].val)
               /\ \A j \in Keys, x \in Keys : Found(t, j, x) =>
                     \/ InArray(t, j) /\ j <= nasize
                     \/ \E m \in 1..Len(olds) : olds[m].key = j /\ olds[m].val = x
<1> DEFINE olds == Olds(t, nasize)
           d == t.node
           A == Len(t.array)
           N == Len(t.node)
           lost == IF nasize < A THEN A - nasize ELSE 0
<1>1. /\ A \in Nat /\ N \in Nat /\ t.array \in Seq(Keys \cup {Nil}) /\ Linked(d) /\ A <= MaxKey
      /\ lost \in Nat /\ (nasize < A => lost = A - nasize)
  <2>1. A \in Nat /\ N \in Nat /\ t.array \in Seq(Keys \cup {Nil}) /\ Linked(d)
    BY GoodFacts
  <2>2. A <= MaxKey
    BY DEF Good
  <2> HIDE DEF A, N
  <2>3. lost \in Nat /\ (nasize < A => lost = A - nasize)
    BY <2>1
  <2>4. QED
    BY <2>1, <2>2, <2>3
<1>2. olds = [i \in 1..lost + N |-> IF i <= lost THEN Entry(nasize + i, t.array[nasize + i])
                ELSE Entry(d[lost + N - i + 1].key, d[lost + N - i + 1].val)]
  BY DEF Olds
<1> HIDE DEF olds, lost, A, N
<1>3. Len(olds) = lost + N
  <2>1. olds \in [1..lost + N -> {olds[i] : i \in 1..lost + N}]
    BY <1>2
  <2>2. lost + N \in Nat
    BY <1>1
  <2>3. QED
    BY <2>1, <2>2
<1>4. \A i \in 1..lost + N : i <= lost => olds[i].key = nasize + i /\ olds[i].val = t.array[nasize + i]
  BY <1>2 DEF Entry
<1>5. \A i \in 1..lost + N : ~(i <= lost) => olds[i].key = d[lost + N - i + 1].key
                                             /\ olds[i].val = d[lost + N - i + 1].val
  BY <1>2 DEF Entry
<1>6. ASSUME NEW m \in 1..lost + N, olds[m].val # Nil
      PROVE  olds[m].key \in Keys /\ olds[m].val \in Keys /\ Found(t, olds[m].key, olds[m].val)
  <2>1. CASE m <= lost
    <3>1. PICK j : j = nasize + m
      OBVIOUS
    <3>2. j \in 1..A
      BY <1>1, <2>1, <3>1 DEF lost
    <3>3. olds[m].key = j /\ olds[m].val = t.array[j]
      BY <1>4, <2>1, <3>1
    <3>4. InArray(t, j) /\ j \in Keys
      BY <1>1, <3>2, TableAssumption DEF InArray, Ints, Keys, A
    <3>5. t.array[j] \in Keys \cup {Nil}
      BY <1>1, <3>2 DEF A
    <3>6. QED
      BY <1>6, <3>3, <3>4, <3>5 DEF Found
  <2>2. CASE ~(m <= lost)
    <3>1. PICK i : i = lost + N - m + 1
      OBVIOUS
    <3>2. i \in Ids(d)
      BY <1>1, <2>2, <3>1 DEF Ids, N
    <3>3. olds[m].key = d[i].key /\ olds[m].val = d[i].val
      BY <1>5, <2>2, <3>1
    <3>4. d[i].key \in Keys \cup {Nil} /\ d[i].val \in Keys \cup {Nil} /\ (d[i].key = Nil => d[i].val = Nil)
      BY <1>1, <3>2, LinkedFacts DEF Linked
    <3>5. ~InArray(t, d[i].key)
      BY <3>2 DEF Good
    <3>6. QED
      BY <1>6, <3>2, <3>3, <3>4, <3>5 DEF Found
  <2>3. QED
    BY <2>1, <2>2
<1>7. ASSUME NEW j \in Keys, NEW x \in Keys, Found(t, j, x), ~(InArray(t, j) /\ j <= nasize)
      PROVE  \E m \in 1..lost + N : olds[m].key = j /\ olds[m].val = x
  <2>1. CASE InArray(t, j)
    <3>1. j \in 1..A /\ j > nasize
      BY <1>1, <1>7, <2>1, TableAssumption DEF InArray, Ints, A
    <3>2. PICK m : m = j - nasize
      OBVIOUS
    <3>3. m \in 1..lost + N /\ m <= lost /\ nasize + m = j
      BY <1>1, <3>1, <3>2
    <3>4. t.array[j] = x
      BY <1>7, <2>1 DEF Found
    <3>5. QED
      BY <1>4, <3>3, <3>4
  <2>2. CASE ~InArray(t, j)
    <3>1. x # Nil
      BY TableAssumption DEF Keys
    <3>2. PICK i \in Ids(d) : d[i].key = j /\ d[i].val = x
      BY <1>7, <2>2, <3>1 DEF Found
    <3>3. PICK m : m = lost + N - i + 1
      OBVIOUS
    <3>4. m \in 1..lost + N /\ ~(m <= lost) /\ lost + N - m + 1 = i
      BY <1>1, <3>2, <3>3 DEF Ids, N
    <3>5. QED
      BY <1>5, <3>2, <3>4
  <2>3. QED
    BY <2>1, <2>2
<1>8. lost + N \in Nat
  BY <1>1
<1>9. QED
  BY <1>3, <1>6, <1>7, <1>8 DEF olds

\* The table before the old entries are inserted again, and the tables after each.
Fresh(t, nasize, nhsize) ==
    [array |-> [i \in 1..nasize |-> IF i <= Len(t.array) THEN t.array[i] ELSE Nil],
     node |-> [i \in 1..NodeSize(nhsize) |-> EmptyNode],
     free |-> NodeSize(nhsize)]

\* What stays true of them: no key that is not to be in the nodes gets there, and
\* nothing is found that was not in the old table.
Refilled(t, nasize, nhsize) ==
    {u \in Table : /\ Good(hash, u)
                   /\ Len(u.array) = nasize /\ Len(u.node) = NodeSize(nhsize)
                   /\ KeysOf(u) \subseteq Moved(t, nasize)
                   /\ \A j \in Keys, x \in Keys : Found(u, j, x) => Found(t, j, x)}

\* What is still to come is among the old entries after the n-th.
Present(t, olds, n, u) ==
    \A j \in Keys, x \in Keys : Found(t, j, x) =>
       Found(u, j, x) \/ \E m \in n + 1..Len(olds) : olds[m].key = j /\ olds[m].val = x

Resized(t, u, nasize, nhsize) ==
    /\ Good(hash, u)
    /\ Len(u.array) = nasize /\ Len(u.node) = NodeSize(nhsize)
    /\ KeysOf(u) \subseteq Moved(t, nasize)
    /\ \A j \in Keys : \A x : Found(t, j, x) => Found(u, j, x)

\* The table luaH_resize starts to fill is well-formed and has what stays in the array.
LEMMA FreshFacts ==
    ASSUME hash \in [Keys -> Nat], NEW t, Good(hash, t), NEW nasize \in Nat, nasize <= MaxKey,
           NEW nhsize \in Nat
    PROVE  /\ Fresh(t, nasize, nhsize) \in Refilled(t, nasize, nhsize)
           /\ Present(t, Olds(t, nasize), 0, Fresh(t, nasize, nhsize))
<1>1. PICK u : u = Fresh(t, nasize, nhsize)
  OBVIOUS
<1>2. PICK N \in Nat : N = NodeSize(nhsize)
  BY NodeSizeFacts
<1>3. t.array \in Seq(Keys \cup {Nil}) /\ Len(t.array) \in Nat /\ Len(t.array) <= MaxKey
  BY GoodFacts DEF Good
<1>4. /\ u.array = [i \in 1..nasize |-> IF i <= Len(t.array) THEN t.array[i] ELSE Nil]
      /\ u.node = [i \in 1..N |-> EmptyNode] /\ u.free = N
  BY <1>1, <1>2 DEF Fresh
<1>5. EmptyNode \in Node /\ EmptyNode.key = Nil /\ EmptyNode.val = Nil /\ EmptyNode.next = 0
  BY DEF EmptyNode, Node
<1>6. u.array \in Seq(Keys \cup {Nil}) /\ Len(u.array) = nasize
  <2>1. u.array \in [1..nasize -> Keys \cup {Nil}]
    BY <1>3, <1>4
  <2>2. QED
    BY <2>1
<1>7. u.node \in Seq(Node) /\ Len(u.node) = N
  <2>1. u.node \in [1..N -> Node]
    BY <1>4, <1>5
  <2>2. QED
    BY <2>1
<1>8. \A i \in Ids(u.node) : u.node[i] = EmptyNode
  BY <1>4, <1>7 DEF Ids
<1>9. u \in Table
  <2>1. u = [array |-> u.array, node |-> u.node, free |-> u.free]
    BY <1>1 DEF Fresh
  <2>2. QED
    BY <1>4, <1>6, <1>7, <2>1 DEF Table
<1>10. Linked(u.node)
  <2>1. /\ \A i \in Ids(u.node) : u.node[i].next \in 0..Len(u.node)
        /\ \A i \in Ids(u.node) : u.node[i].key = Nil /\ u.node[i].val = Nil /\ u.node[i].next = 0
    BY <1>5, <1>7, <1>8
  <2>2. QED
    BY <1>7, <2>1 DEF Linked
<1>11. Ending(u.node)
  <2>1. \A S \in SUBSET Ids(u.node) : 0 \notin S
    BY DEF Ids
  <2>2. \A i \in Ids(u.node) : u.node[i].next = 0
    BY <1>5, <1>8
  <2>3. QED
    BY <2>1, <2>2 DEF Ending
<1>12. Homed(hash, u.node)
  BY <1>5, <1>8 DEF Homed
<1>13. Good(hash, u)
  <2>1. \A i \in Ids(u.node) : ~(i > u.free)
    BY <1>4, <1>7 DEF Ids
  <2>2. ~InArray(u, Nil)
    BY TableAssumption DEF InArray
  <2>3. \A i \in Ids(u.node) : ~InArray(u, u.node[i].key)
    BY <1>5, <1>8, <2>2
  <2>4. u.free \in 0..Len(u.node)
    BY <1>4, <1>7
  <2>5. QED
    BY <1>6, <1>9, <1>10, <1>11, <1>12, <2>1, <2>3, <2>4 DEF Good, Sound
<1>14. KeysOf(u) = {}
  BY <1>5, <1>8 DEF KeysOf
<1>15. \A j \in Keys : InArray(u, j) => j \in 1..nasize
  BY <1>6, TableAssumption DEF InArray, Ints
<1>16. ASSUME NEW j \in Keys, NEW x \in Keys, Found(u, j, x)
       PROVE  Found(t, j, x)
  <2>1. x # Nil /\ j # Nil
    BY TableAssumption DEF Keys
  <2>2. InArray(u, j) /\ u.array[j] = x
    BY <1>5, <1>8, <1>16, <2>1 DEF Found
  <2>3. j \in 1..nasize
    BY <1>15, <2>2
  <2>4. j <= Len(t.array) /\ t.array[j] = x
    BY <1>4, <2>1, <2>2, <2>3
  <2>5. QED
    BY <2>2, <2>4 DEF Found, InArray
<1>17. ASSUME NEW j \in Keys, NEW x \in Keys, Found(t, j, x), InArray(t, j), j <= nasize
       PROVE  Found(u, j, x)
  <2>1. j \in 1..nasize /\ j <= Len(t.array) /\ t.array[j] = x /\ InArray(u, j)
    BY <1>3, <1>6, <1>17, TableAssumption DEF InArray, Ints, Found
  <2>2. u.array[j] = x
    BY <1>4, <2>1
  <2>3. QED
    BY <2>1, <2>2 DEF Found
<1>18. Present(t, Olds(t, nasize), 0, u)
  <2>1. PICK olds : olds = Olds(t, nasize)
    OBVIOUS
  <2>2. \A j \in Keys, x \in Keys : Found(t, j, x) =>
           \/ InArray(t, j) /\ j <= nasize
           \/ \E m \in 1..Len(olds) : olds[m].key = j /\ olds[m].val = x
    BY <2>1, OldsFacts
  <2>3. Present(t, olds, 0, u)
    BY <1>17, <2>2 DEF Present
  <2>4. QED
    BY <2>1, <2>3
<1>19. u \in Refilled(t, nasize, nhsize)
  BY <1>2, <1>6, <1>7, <1>9, <1>13, <1>14, <1>16 DEF Refilled
<1>20. QED
  BY <1>1, <1>18, <1>19

\* An entry that is inserted again finds room.
LEMMA AgainRefills ==
    ASSUME hash \in [Keys -> Nat], NEW t, Good(hash, t), NEW nasize \in Nat, NEW nhsize \in Nat,
           NEW M, IsFiniteSet(M), Moved(t, nasize) \subseteq M, Cardinality(M) <= NodeSize(nhsize),
           NEW u \in Refilled(t, nasize, nhsize), NEW e,
           e.val # Nil => e.key \in Keys /\ e.val \in Keys /\ Found(t, e.key, e.val)
    PROVE  /\ Again(u, e) \in Refilled(t, nasize, nhsize)
           /\ e.val # Nil => Stored(hash, u, Again(u, e), e.key, e.val)
<1>1. CASE e.val = Nil
  BY <1>1 DEF Again
<1>2. CASE e.val # Nil
  <2>1. PICK k, v, w : k = e.key /\ v = e.val /\ w = Again(u, e)
    OBVIOUS
  <2>2. k \in Keys /\ v \in Keys /\ Found(t, k, v) /\ w = Put(u, k, v)
    BY <1>2, <2>1 DEF Again
  <2>3. /\ Good(hash, u) /\ Len(u.array) = nasize /\ Len(u.node) = NodeSize(nhsize)
        /\ KeysOf(u) \subseteq Moved(t, nasize)
        /\ \A j \in Keys, x \in Keys : Found(u, j, x) => Found(t, j, x)
    BY DEF Refilled
  <2>4. HasCell(u, k) \/ HasRoom(u, k)
    <3> SUFFICES ASSUME ~HasCell(u, k)
                 PROVE  HasRoom(u, k)
      OBVIOUS
    <3>1. ~InArray(u, k) /\ \A i \in Ids(u.node) : u.node[i].key # k
      BY <2>2, <2>3, GetIs
    <3>2. k \notin KeysOf(u)
      BY <3>1 DEF KeysOf
    <3>3. k \in Moved(t, nasize)
      BY <2>2, <2>3, <3>1 DEF Moved, InArray
    <3>4. k \in M /\ KeysOf(u) \subseteq M
      BY <2>3, <3>3
    <3>5. FreePos(u) # 0
      BY <2>3, <3>2, <3>4, FewKeys
    <3>6. FreePos(u) \in Ids(u.node)
      BY <2>3, <3>5, FreePosFacts
    <3>7. u.node # <<>>
      BY <3>6 DEF Ids
    <3>8. QED
      BY <3>5, <3>7 DEF HasRoom
  <2>5. Stored(hash, u, w, k, v)
    BY <2>2, <2>3, <2>4, PutStores
  <2>6. /\ Good(hash, w) /\ Len(w.array) = nasize /\ Len(w.node) = NodeSize(nhsize)
        /\ KeysOf(w) \subseteq KeysOf(u) \cup {k} /\ Found(w, k, v)
        /\ \A j \in Keys : j # k => \A x : Found(u, j, x) => Found(w, j, x)
    BY <2>3, <2>5 DEF Stored
  <2>7. KeysOf(w) \subseteq Moved(t, nasize)
    <3> SUFFICES ASSUME k \in KeysOf(w)
                 PROVE  k \in Moved(t, nasize)
      BY <2>3, <2>6
    <3>1. ~InArray(w, k)
      BY <2>6 DEF Good, KeysOf
    <3>2. QED
      BY <2>2, <2>6, <3>1 DEF Moved, InArray
  <2>8. ASSUME NEW j \in Keys, NEW x \in Keys, Found(w, j, x)
        PROVE  Found(t, j, x)
    <3>1. CASE j = k
      <4>1. x = v
        BY <2>2, <2>6, <2>8, <3>1, FoundOnce
      <4>2. QED
        BY <2>2, <3>1, <4>1
    <3>2. CASE j # k
      <4>1. Found(u, j, Get(u, j))
        BY <2>3, GetIs
      <4>2. Found(w, j, Get(u, j))
        BY <2>6, <3>2, <4>1
      <4>3. x = Get(u, j)
        BY <2>6, <2>8, <4>2, FoundOnce
      <4>4. QED
        BY <2>3, <4>1, <4>3
    <3>3. QED
      BY <3>1, <3>2
  <2>9. w \in Table
    BY <2>6 DEF Good
  <2>10. w \in Refilled(t, nasize, nhsize)
    BY <2>6, <2>7, <2>8, <2>9 DEF Refilled
  <2>11. QED
    BY <2>1, <2>5, <2>10
<1>3. QED
  BY <1>1, <1>2

\* luaH_resize loses no value, and never grows again while it fills the new nodes, when
\* there are at least as many of them as keys to move.
LEMMA ResizeFacts ==
    ASSUME hash \in [Keys -> Nat], NEW t, Good(hash, t), NEW nasize \in Nat, nasize <= MaxKey,
           NEW nhsize \in Nat,
           NEW M, IsFiniteSet(M), Moved(t, nasize) \subseteq M, Cardinality(M) <= NodeSize(nhsize)
    PROVE  Resized(t, Resize(t, nasize, nhsize), nasize, nhsize)
<1> DEFINE olds == Olds(t, nasize)
           new == Fresh(t, nasize, nhsize)
           L == Len(olds)
           S == Refilled(t, nasize, nhsize)
           G == [n \in 1..L |-> [u \in S |-> Again(u, olds[n])]]
           f(after) == [n \in 0..L |-> IF n = 0 THEN new ELSE Again(after[n - 1], olds[n])]
           Afters == CHOOSE after : after = f(after)
<1>1. Resize(t, nasize, nhsize) = Afters[L]
  BY Zenon DEF Resize, Fresh
<1>2. /\ L \in Nat
      /\ \A m \in 1..L : olds[m].val # Nil =>
            olds[m].key \in Keys /\ olds[m].val \in Keys /\ Found(t, olds[m].key, olds[m].val)
  BY OldsFacts
<1>3. new \in S /\ Present(t, olds, 0, new)
  BY FreshFacts
<1> HIDE DEF olds, new, L, S
<1>4. \A n \in 1..L : \A u \in S :
        /\ Again(u, olds[n]) \in S
        /\ olds[n].val # Nil => Stored(hash, u, Again(u, olds[n]), olds[n].key, olds[n].val)
  <2> SUFFICES ASSUME NEW n \in 1..L, NEW u \in S
               PROVE  /\ Again(u, olds[n]) \in S
                      /\ olds[n].val # Nil => Stored(hash, u, Again(u, olds[n]), olds[n].key, olds[n].val)
    OBVIOUS
  <2>1. PICK e : e = olds[n]
    OBVIOUS
  <2>2. e.val # Nil => e.key \in Keys /\ e.val \in Keys /\ Found(t, e.key, e.val)
    BY <1>2, <2>1
  <2>3. /\ Again(u, e) \in S
        /\ e.val # Nil => Stored(hash, u, Again(u, e), e.key, e.val)
    BY <2>2, AgainRefills DEF S
  <2>4. QED
    BY <2>1, <2>3
<1>5. Rounds(1..L, S, G) /\ \A n \in 1..L : \A u \in S : G[n][u] = Again(u, olds[n])
  BY <1>4 DEF Rounds
<1> HIDE DEF G, f
<1>6. PICK u : Passes(L, S, new, G, u)
  BY <1>2, <1>3, <1>5, Iterates
<1>7. u \in [0..L -> S] /\ u[0] = new
  BY <1>6 DEF Passes
<1>8. \A n \in 1..L : n - 1 \in 0..L /\ u[n - 1] \in S /\ u[n] = Again(u[n - 1], olds[n])
  <2>1. \A n \in 1..L : n - 1 \in 0..L /\ u[n - 1] \in S
    BY <1>2, <1>7
  <2>2. QED
    BY <1>5, <1>6, <2>1, Zenon DEF Passes, Follows
<1>9. u = f(u)
  <2>1. \A n \in 0..L : n = 0 \/ n \in 1..L
    BY <1>2
  <2>2. \A n \in 0..L : u[n] = IF n = 0 THEN new ELSE Again(u[n - 1], olds[n])
    BY <1>7, <1>8, <2>1
  <2>3. QED
    BY <1>7, <2>2 DEF f
<1>10. Afters = f(Afters)
  BY <1>9, Zenon
<1> DEFINE at == Afters
<1>11. \A n \in 0..L : at[n] = IF n = 0 THEN new ELSE Again(at[n - 1], olds[n])
  BY <1>10 DEF f
<1> HIDE DEF Afters, at
<1> DEFINE T == {n \in 0..L : at[n] \in S /\ Present(t, olds, n, at[n])}
<1>12. 0 \in T
  <2>1. 0 \in 0..L
    BY <1>2
  <2>2. at[0] = new
    BY <1>11, <2>1
  <2>3. QED
    BY <1>3, <2>1, <2>2
<1>13. ASSUME NEW n \in 1..L, n - 1 \in T
       PROVE  n \in T
  <2>1. PICK x, y, e : x = at[n - 1] /\ y = at[n] /\ e = olds[n]
    OBVIOUS
  <2>2. n \in 0..L /\ n # 0
    BY <1>2
  <2>3. y = Again(x, e)
    BY <1>11, <2>1, <2>2
  <2>4. x \in S /\ Present(t, olds, n - 1, x)
    BY <1>13, <2>1
  <2>5. y \in S /\ (e.val # Nil => Stored(hash, x, y, e.key, e.val))
    BY <1>4, <2>1, <2>3, <2>4
  <2>6. e.val # Nil => e.key \in Keys /\ e.val \in Keys /\ Found(t, e.key, e.val)
    BY <1>2, <2>1
  <2>7. ASSUME NEW j \in Keys, NEW z \in Keys, Found(t, j, z),
               ~\E m \in n + 1..Len(olds) : olds[m].key = j /\ olds[m].val = z
        PROVE  Found(y, j, z)
    <3>1. z # Nil
      BY TableAssumption DEF Keys
    <3>2. CASE e.val = Nil
      <4>1. y = x
        BY <2>3, <3>2 DEF Again
      <4>2. ~\E m \in (n - 1) + 1..Len(olds) : olds[m].key = j /\ olds[m].val = z
        <5> SUFFICES ASSUME NEW m \in (n - 1) + 1..Len(olds), olds[m].key = j, olds[m].val = z
                     PROVE  FALSE
          OBVIOUS
        <5>1. m = n \/ m \in n + 1..Len(olds)
          BY <1>2 DEF L
        <5>2. QED
          BY <2>1, <2>7, <3>1, <3>2, <5>1
      <4>3. QED
        BY <2>4, <2>7, <4>1, <4>2 DEF Present
    <3>3. CASE e.val # Nil /\ j = e.key
      <4>1. e.val = z
        BY <2>6, <2>7, <3>3, FoundOnce
      <4>2. QED
        BY <2>5, <3>3, <4>1 DEF Stored
    <3>4. CASE e.val # Nil /\ j # e.key
      <4>1. ~\E m \in (n - 1) + 1..Len(olds) : olds[m].key = j /\ olds[m].val = z
        <5> SUFFICES ASSUME NEW m \in (n - 1) + 1..Len(olds), olds[m].key = j, olds[m].val = z
                     PROVE  FALSE
          OBVIOUS
        <5>1. m = n \/ m \in n + 1..Len(olds)
          BY <1>2 DEF L
        <5>2. QED
          BY <2>1, <2>7, <3>4, <5>1
      <4>2. Found(x, j, z)
        BY <2>4, <2>7, <4>1 DEF Present
      <4>3. QED
        BY <2>5, <3>4, <4>2 DEF Stored
    <3>5. QED
      BY <3>2, <3>3, <3>4
  <2>8. Present(t, olds, n, y)
    BY <2>7 DEF Present
  <2>9. QED
    BY <2>1, <2>2, <2>5, <2>8
<1> HIDE DEF T
<1>14. L \in T
  <2>1. 0..L \subseteq T
    BY <1>2, <1>12, <1>13, StepsTo
  <2>2. QED
    BY <1>2, <2>1
<1>15. PICK r : r = at[L]
  OBVIOUS
<1>16. r \in S /\ Present(t, olds, L, r)
  BY <1>14, <1>15 DEF T
<1>17. Good(hash, r) /\ Len(r.array) = nasize /\ Len(r.node) = NodeSize(nhsize)
       /\ KeysOf(r) \subseteq Moved(t, nasize)
       /\ \A j \in Keys, x \in Keys : Found(r, j, x) => Found(t, j, x)
  BY <1>16 DEF Refilled, S
<1>18. \A j \in Keys, x \in Keys : Found(t, j, x) => Found(r, j, x)
  <2>1. \A m \in L + 1..Len(olds) : FALSE
    BY <1>2 DEF L
  <2>2. QED
    BY <1>16, <2>1 DEF Present
<1>19. ASSUME NEW j \in Keys, NEW x, Found(t, j, x)
       PROVE  Found(r, j, x)
  <2>1. x = Get(t, j) /\ Get(t, j) \in Keys \cup {Nil}
    BY <1>19, GetIs, GetOf
  <2>2. CASE x \in Keys
    BY <1>18, <1>19, <2>2
  <2>3. CASE x = Nil
    <3>1. Found(r, j, Get(r, j)) /\ Get(r, j) \in Keys \cup {Nil}
      BY <1>17, GetIs
    <3>2. Get(r, j) \notin Keys
      <4> SUFFICES ASSUME Get(r, j) \in Keys
                   PROVE  FALSE
        OBVIOUS
      <4>1. Found(t, j, Get(r, j))
        BY <1>17, <3>1
      <4>2. Get(r, j) = Nil
        BY <1>19, <2>3, <4>1, FoundOnce
      <4>3. QED
        BY <4>2, TableAssumption DEF Keys
    <3>3. QED
      BY <2>3, <3>1, <3>2
  <2>4. QED
    BY <2>1, <2>2, <2>3
<1>20. Resized(t, r, nasize, nhsize)
  BY <1>17, <1>19 DEF Resized
<1>21. QED
  BY <1>1, <1>15, <1>20 DEF at

\* The powers of two.
LEMMA PowersGrow ==
    /\ \A n \in Nat : twoto[n] \in Nat /\ twoto[n] >= 1
    /\ \A n \in Nat : twoto[n + 1] = 2 * twoto[n] /\ twoto[n + 1] \div 2 = twoto[n]
    /\ \A m, n \in Nat : m <= n => twoto[m] <= twoto[n]
<1>1. twoto[0] = 1 /\ \A n \in Nat : twoto[n + 1] = 2 * twoto[n] /\ twoto[n] \in Nat
  BY Powers
<1> DEFINE T == {n \in Nat : twoto[n] >= 1}
<1>2. 0 \in T /\ \A n \in Nat : n \in T => n + 1 \in T
  BY <1>1
<1>3. Nat \subseteq T
  <2> HIDE DEF T
  <2>1. QED
    BY <1>2, Steps
<1>4. \A n \in Nat : twoto[n + 1] \div 2 = twoto[n]
  <2> SUFFICES ASSUME NEW n \in Nat
               PROVE  twoto[n + 1] \div 2 = twoto[n]
    OBVIOUS
  <2>1. PICK x \in Nat : x = twoto[n] /\ twoto[n + 1] = 2 * x
    BY <1>1
  <2>2. (2 * x) \div 2 = x
    OBVIOUS
  <2>3. QED
    BY <2>1, <2>2
<1>5. ASSUME NEW m \in Nat
      PROVE  \A n \in Nat : m <= n => twoto[m] <= twoto[n]
  <2> DEFINE U == {i \in Nat : twoto[m] <= twoto[m + i]}
  <2>1. 0 \in U
    BY <1>1
  <2>2. ASSUME NEW i \in Nat, i \in U
        PROVE  i + 1 \in U
    <3>1. twoto[(m + i) + 1] = 2 * twoto[m + i] /\ twoto[m + i] \in Nat /\ twoto[m] \in Nat
      BY <1>1
    <3>2. m + (i + 1) = (m + i) + 1 /\ twoto[m] <= twoto[m + i]
      BY <2>2
    <3>3. QED
      BY <3>1, <3>2
  <2> HIDE DEF U
  <2>3. Nat \subseteq U
    BY <2>1, <2>2, Steps
  <2>4. ASSUME NEW n \in Nat, m <= n
        PROVE  twoto[m] <= twoto[n]
    <3>1. n - m \in Nat /\ m + (n - m) = n
      BY <2>4
    <3>2. n - m \in U
      BY <2>3, <3>1
    <3>3. QED
      BY <3>1, <3>2 DEF U
  <2>5. QED
    BY <2>4
<1>6. QED
  BY <1>1, <1>3, <1>4, <1>5

\* The keys in use that slots up to the n-th could take, and their number.
Under(used, n) == {k \in Candidates(used) : k <= n}
Below(used, n) == Cardinality(Under(used, n))

\* The integer keys that may go to the array part are finitely many.
LEMMA CandidatesFacts ==
    ASSUME NEW used
    PROVE  /\ IsFiniteSet(Candidates(used)) /\ Cardinality(Candidates(used)) \in Nat
           /\ Candidates(used) \subseteq 1..twoto[MaxBits]
<1>1. twoto[MaxBits] \in Nat /\ MaxKey \in Nat
  BY TableAssumption, PowersGrow
<1>2. Candidates(used) \subseteq 1..twoto[MaxBits]
  BY <1>1 DEF Candidates, Ints
<1>3. IsFiniteSet(1..twoto[MaxBits])
  BY <1>1, FS_Interval
<1>4. IsFiniteSet(Candidates(used))
  BY <1>2, <1>3, FS_Subset
<1>5. QED
  BY <1>2, <1>4, FS_CardinalityType

\* How many of them lie below a bound.
LEMMA BelowFacts ==
    ASSUME NEW used, NEW n \in Nat
    PROVE  /\ IsFiniteSet(Under(used, n)) /\ Below(used, n) \in Nat
           /\ Below(used, n) <= n /\ Below(used, n) <= Cardinality(Candidates(used))
<1>1. IsFiniteSet(Candidates(used)) /\ Candidates(used) \subseteq 1..twoto[MaxBits]
  BY CandidatesFacts
<1>2. twoto[MaxBits] \in Nat
  BY TableAssumption, PowersGrow
<1>3. Under(used, n) \in SUBSET Candidates(used)
  BY DEF Under
<1>4. IsFiniteSet(Under(used, n)) /\ Cardinality(Under(used, n)) <= Cardinality(Candidates(used))
  BY <1>1, <1>3, FS_Subset
<1>5. Under(used, n) \in SUBSET (1..n)
  BY <1>1, <1>2 DEF Under
<1>6. IsFiniteSet(1..n) /\ Cardinality(1..n) = n
  BY FS_Interval
<1>7. Cardinality(Under(used, n)) <= Cardinality(1..n)
  BY <1>5, <1>6, FS_Subset
<1>8. Cardinality(Under(used, n)) \in Nat
  BY <1>4, FS_CardinalityType
<1>9. QED
  BY <1>4, <1>6, <1>7, <1>8 DEF Below

\* Each slice adds its keys.
LEMMA SlicesAdd ==
    ASSUME NEW used
    PROVE  /\ Below(used, 1) = Nums(used, 0)
           /\ \A lg \in Nat : Below(used, twoto[lg + 1]) = Below(used, twoto[lg]) + Nums(used, lg + 1)
           /\ \A lg \in Nat : Nums(used, lg) \in Nat
<1>1. IsFiniteSet(Candidates(used)) /\ Candidates(used) \subseteq 1..twoto[MaxBits]
  BY CandidatesFacts
<1>2. Candidates(used) \subseteq Nat \ {0}
  BY <1>1, PowersGrow, TableAssumption
<1> DEFINE Slice(lg) == {k \in Candidates(used) : k <= twoto[lg] /\ 2 * k > twoto[lg]}
<1>3. \A lg \in Nat : IsFiniteSet(Slice(lg)) /\ Cardinality(Slice(lg)) \in Nat
  <2> SUFFICES ASSUME NEW lg \in Nat
               PROVE  IsFiniteSet(Slice(lg)) /\ Cardinality(Slice(lg)) \in Nat
    OBVIOUS
  <2>1. Slice(lg) \in SUBSET Candidates(used)
    OBVIOUS
  <2> HIDE DEF Slice
  <2>2. QED
    BY <1>1, <2>1, FS_Subset, FS_CardinalityType
<1>4. \A lg : Nums(used, lg) = Cardinality(Slice(lg))
  BY DEF Nums
<1>5. Under(used, 1) = Slice(0)
  BY <1>2, Powers DEF Under
<1>6. ASSUME NEW lg \in Nat
      PROVE  Below(used, twoto[lg + 1]) = Below(used, twoto[lg]) + Nums(used, lg + 1)
  <2>1. PICK x \in Nat : x = twoto[lg] /\ twoto[lg + 1] = 2 * x /\ x >= 1
    BY PowersGrow
  <2>2. Under(used, 2 * x) = Under(used, x) \cup Slice(lg + 1)
    BY <1>2, <2>1 DEF Under
  <2>3. Under(used, x) \cap Slice(lg + 1) = {}
    BY <1>2, <2>1 DEF Under
  <2> HIDE DEF Slice
  <2>4. IsFiniteSet(Under(used, x)) /\ Cardinality(Under(used, x)) \in Nat
    BY BelowFacts, <2>1 DEF Below
  <2>5. lg + 1 \in Nat
    OBVIOUS
  <2>6. IsFiniteSet(Slice(lg + 1)) /\ Cardinality(Slice(lg + 1)) \in Nat
    BY <1>3, <2>5
  <2>7. Cardinality(Under(used, x) \cup Slice(lg + 1)) =
           Cardinality(Under(used, x)) + Cardinality(Slice(lg + 1)) - Cardinality(Under(used, x) \cap Slice(lg + 1))
    BY <2>4, <2>6, FS_Union
  <2>8. Cardinality(Under(used, x) \cap Slice(lg + 1)) = 0
    BY <2>3, FS_EmptySet
  <2>9. /\ Below(used, twoto[lg + 1]) = Cardinality(Under(used, x) \cup Slice(lg + 1))
        /\ Below(used, twoto[lg]) = Cardinality(Under(used, x))
        /\ Nums(used, lg + 1) = Cardinality(Slice(lg + 1))
    BY <1>4, <2>1, <2>2 DEF Below
  <2>10. QED
    BY <2>4, <2>6, <2>7, <2>8, <2>9
<1>7. QED
  BY <1>3, <1>4, <1>5, <1>6 DEF Below

\* After the slices before lg: the best size, the largest of those before 2^lg of which more than
\* half is in use, and the keys counted so far, unless the loop has seen enough.
Chosen(used, lg, s) ==
    /\ s \in [a : Nat, n : Nat, na : Nat]
    /\ s.na = Below(used, s.n)
    /\ s.n = 0 \/ \E l \in 0..lg - 1 : s.n = twoto[l] /\ 2 * s.na > twoto[l]
    /\ \A l \in 0..lg - 1 : 2 * Below(used, twoto[l]) > twoto[l] => twoto[l] <= s.n
    /\ \/ lg = 0 /\ s.a = 0
       \/ lg # 0 /\ s.a = Below(used, twoto[lg - 1])
       \/ lg # 0 /\ twoto[lg - 1] \div 2 >= Cardinality(Candidates(used))

Choose(used, s, lg) ==
    LET size == twoto[lg - 1]
        a == s.a + Nums(used, lg - 1)
    IN  IF size \div 2 >= Cardinality(Candidates(used)) \/ Nums(used, lg - 1) = 0 THEN s
        ELSE IF a > size \div 2 THEN [a |-> a, n |-> size, na |-> a]
        ELSE [s EXCEPT !.a = a]

\* One round of computesizes keeps its loop invariant, the rounds it skips included.
LEMMA Chooses ==
    ASSUME NEW used, NEW lg \in Nat, lg # 0, NEW s, Chosen(used, lg - 1, s)
    PROVE  Chosen(used, lg, Choose(used, s, lg))
<1> DEFINE narray == Cardinality(Candidates(used))
<1>1. PICK l \in Nat : l = lg - 1 /\ lg = l + 1
  OBVIOUS
<1>2. PICK size \in Nat : size = twoto[l] /\ size >= 1
  BY PowersGrow
<1>3. PICK nums \in Nat : nums = Nums(used, l)
  BY SlicesAdd
<1>4. PICK x \in Nat : x = Below(used, size) /\ x <= size /\ x <= narray
  BY BelowFacts
<1>5. narray \in Nat
  BY CandidatesFacts
<1>6. size \div 2 \in Nat
  OBVIOUS
<1>7. /\ s \in [a : Nat, n : Nat, na : Nat]
      /\ s.na = Below(used, s.n)
      /\ s.n = 0 \/ \E i \in 0..l - 1 : s.n = twoto[i] /\ 2 * s.na > twoto[i]
      /\ \A i \in 0..l - 1 : 2 * Below(used, twoto[i]) > twoto[i] => twoto[i] <= s.n
      /\ \/ l = 0 /\ s.a = 0
         \/ l # 0 /\ s.a = Below(used, twoto[l - 1])
         \/ l # 0 /\ twoto[l - 1] \div 2 >= narray
  BY <1>1 DEF Chosen
<1>8. /\ l = 0 => size = 1 /\ size \div 2 = 0 /\ x = nums
      /\ l # 0 => \E y \in Nat : /\ y = twoto[l - 1] /\ size = 2 * y /\ size \div 2 = y
                                 /\ Below(used, y) \in Nat /\ Below(used, y) <= y
                                 /\ x = Below(used, y) + nums
  <2>1. l = 0 => size = 1 /\ size \div 2 = 0 /\ x = nums
    <3>1. l = 0 => size = 1 /\ x = nums
      BY <1>2, <1>3, <1>4, Powers, SlicesAdd
    <3>2. 1 \div 2 = 0
      OBVIOUS
    <3>3. QED
      BY <3>1, <3>2
  <2>2. ASSUME l # 0
        PROVE  \E y \in Nat : /\ y = twoto[l - 1] /\ size = 2 * y /\ size \div 2 = y
                              /\ Below(used, y) \in Nat /\ Below(used, y) <= y
                              /\ x = Below(used, y) + nums
    <3>1. PICK i \in Nat : i = l - 1 /\ l = i + 1
      BY <2>2
    <3>2. PICK y \in Nat : y = twoto[i] /\ size = 2 * y /\ size \div 2 = y
      BY <1>2, <3>1, PowersGrow
    <3>3. Below(used, y) \in Nat /\ Below(used, y) <= y
      BY BelowFacts
    <3>4. Below(used, twoto[i + 1]) = Below(used, twoto[i]) + Nums(used, i + 1)
      BY SlicesAdd
    <3>5. x = Below(used, y) + nums
      BY <1>2, <1>3, <1>4, <3>1, <3>2, <3>4
    <3>6. QED
      BY <3>1, <3>2, <3>3, <3>5
  <2>3. QED
    BY <2>1, <2>2
<1>9. \A i \in 0..lg - 1 : i = l \/ i \in 0..l - 1
  BY <1>1
<1>10. \A i \in 0..l - 1 : i \in 0..lg - 1
  BY <1>1
<1>11. PICK c : c = Choose(used, s, lg)
  OBVIOUS
<1>12. c = IF size \div 2 >= narray \/ nums = 0 THEN s
           ELSE IF s.a + nums > size \div 2 THEN [a |-> s.a + nums, n |-> size, na |-> s.a + nums]
           ELSE [s EXCEPT !.a = s.a + nums]
  BY <1>1, <1>2, <1>3, <1>11 DEF Choose
<1> HIDE DEF narray
<1>13. s.a \in Nat /\ s.n \in Nat /\ s.na \in Nat
  BY <1>7
<1>14. s.n = 0 \/ \E i \in 0..lg - 1 : s.n = twoto[i] /\ 2 * s.na > twoto[i]
  BY <1>7, <1>10
<1>15. 2 * x <= size =>
          \A i \in 0..lg - 1 : 2 * Below(used, twoto[i]) > twoto[i] => twoto[i] <= s.n
  <2> SUFFICES ASSUME 2 * x <= size, NEW i \in 0..lg - 1, 2 * Below(used, twoto[i]) > twoto[i]
               PROVE  twoto[i] <= s.n
    OBVIOUS
  <2>1. i # l
    BY <1>2, <1>4
  <2>2. QED
    BY <1>7, <1>9, <2>1
<1>16. CASE size \div 2 >= narray
  <2>1. c = s
    BY <1>12, <1>16
  <2>2. 2 * x <= size
    BY <1>4, <1>5, <1>16
  <2>3. twoto[lg - 1] \div 2 >= Cardinality(Candidates(used))
    BY <1>1, <1>2, <1>16 DEF narray
  <2>4. QED
    BY <1>7, <1>11, <1>14, <1>15, <2>1, <2>2, <2>3 DEF Chosen
<1>17. CASE ~(size \div 2 >= narray)
  <2>1. s.a + nums = x
    <3>1. CASE l = 0
      BY <1>7, <1>8, <3>1
    <3>2. CASE l # 0
      <4>1. PICK y \in Nat : /\ y = twoto[l - 1] /\ size \div 2 = y /\ x = Below(used, y) + nums
        BY <1>8, <3>2
      <4>2. ~(y \div 2 >= narray)
        BY <1>5, <1>17, <4>1
      <4>3. s.a = Below(used, y)
        BY <1>7, <3>2, <4>1, <4>2
      <4>4. QED
        BY <4>1, <4>3
    <3>3. QED
      BY <3>1, <3>2
  <2>2. x = Below(used, twoto[lg - 1])
    BY <1>1, <1>2, <1>4
  <2>3. CASE nums = 0
    <3>1. c = s /\ s.a = x
      BY <1>12, <1>13, <2>1, <2>3
    <3>2. 2 * x <= size
      BY <1>8, <2>3
    <3>3. QED
      BY <1>7, <1>11, <1>14, <1>15, <2>2, <3>1, <3>2 DEF Chosen
  <2>4. CASE nums # 0 /\ x > size \div 2
    <3>1. c = [a |-> x, n |-> size, na |-> x]
      BY <1>12, <1>17, <2>1, <2>4
    <3>2. 2 * x > size
      BY <2>4
    <3>3. c \in [a : Nat, n : Nat, na : Nat] /\ c.a = x /\ c.n = size /\ c.na = x
      BY <3>1
    <3>4. \E i \in 0..lg - 1 : c.n = twoto[i] /\ 2 * c.na > twoto[i]
      <4>1. l \in 0..lg - 1
        BY <1>1
      <4>2. QED
        BY <1>2, <3>2, <3>3, <4>1
    <3>5. \A i \in 0..lg - 1 : twoto[i] <= size
      <4>1. \A i \in 0..lg - 1 : i \in Nat /\ i <= l
        BY <1>1
      <4>2. QED
        BY <1>2, <4>1, PowersGrow
    <3>6. c.na = Below(used, c.n) /\ c.a = Below(used, twoto[lg - 1])
      BY <1>4, <2>2, <3>3
    <3>7. \A i \in 0..lg - 1 : 2 * Below(used, twoto[i]) > twoto[i] => twoto[i] <= c.n
      BY <3>3, <3>5
    <3>8. QED
      BY <1>11, <3>3, <3>4, <3>6, <3>7 DEF Chosen
  <2>5. CASE nums # 0 /\ ~(x > size \div 2)
    <3>1. c = [s EXCEPT !.a = x]
      BY <1>12, <1>17, <2>1, <2>5
    <3>2. c \in [a : Nat, n : Nat, na : Nat] /\ c.a = x /\ c.n = s.n /\ c.na = s.na
      BY <1>7, <3>1
    <3>3. 2 * x <= size
      BY <2>5
    <3>4. QED
      BY <1>7, <1>11, <1>14, <1>15, <2>2, <3>2, <3>3 DEF Chosen
  <2>6. QED
    BY <2>3, <2>4, <2>5
<1>18. QED
  BY <1>16, <1>17

\* computesizes chooses the largest power of two of which more than half is in use.
LEMMA ComputeSizesFacts ==
    ASSUME NEW used
    PROVE  Chosen(used, MaxBits + 1, ComputeSizes(used))
<1> DEFINE N == MaxBits + 1
           S == [a : Nat, n : Nat, na : Nat]
           zero == [a |-> 0, n |-> 0, na |-> 0]
           f(loop) == [lg \in 0..N |-> IF lg = 0 THEN zero ELSE Choose(used, loop[lg - 1], lg)]
           loop == CHOOSE loop : loop = f(loop)
           G == [lg \in 1..N |-> [s \in S |-> Choose(used, s, lg)]]
<1>1. ComputeSizes(used) = loop[N]
  BY Zenon DEF ComputeSizes, Choose
<1>2. N \in Nat /\ zero \in S
  BY TableAssumption
<1>3. \A lg \in 1..N : \A s \in S : Choose(used, s, lg) \in S
  <2> SUFFICES ASSUME NEW lg \in 1..N, NEW s \in S
               PROVE  Choose(used, s, lg) \in S
    OBVIOUS
  <2>1. lg - 1 \in Nat
    BY <1>2
  <2>2. twoto[lg - 1] \in Nat /\ Nums(used, lg - 1) \in Nat
    BY <2>1, PowersGrow, SlicesAdd
  <2>3. PICK a, size \in Nat : a = s.a + Nums(used, lg - 1) /\ size = twoto[lg - 1]
    BY <2>2
  <2>4. [a |-> a, n |-> size, na |-> a] \in S /\ [s EXCEPT !.a = a] \in S
    BY <2>3
  <2>5. QED
    BY <2>3, <2>4 DEF Choose
<1> HIDE DEF S, zero, N
<1>4. Rounds(1..N, S, G) /\ \A lg \in 1..N : \A s \in S : G[lg][s] = Choose(used, s, lg)
  BY <1>3 DEF Rounds
<1> HIDE DEF G, f
<1>5. PICK u : Passes(N, S, zero, G, u)
  BY <1>2, <1>4, Iterates
<1>6. u \in [0..N -> S] /\ u[0] = zero
  BY <1>5 DEF Passes
<1>7. \A lg \in 1..N : u[lg] = Choose(used, u[lg - 1], lg)
  <2>1. \A lg \in 1..N : lg - 1 \in 0..N /\ u[lg - 1] \in S
    BY <1>2, <1>6
  <2>2. QED
    BY <1>4, <1>5, <2>1, Zenon DEF Passes, Follows
<1>8. u = f(u)
  <2>1. \A lg \in 0..N : lg = 0 \/ lg \in 1..N
    BY <1>2
  <2>2. \A lg \in 0..N : u[lg] = IF lg = 0 THEN zero ELSE Choose(used, u[lg - 1], lg)
    BY <1>6, <1>7, <2>1
  <2>3. QED
    BY <1>6, <2>2 DEF f
<1>9. loop = f(loop)
  BY <1>8, Zenon
<1> DEFINE at == loop
<1>10. \A lg \in 0..N : at[lg] = IF lg = 0 THEN zero ELSE Choose(used, at[lg - 1], lg)
  BY <1>9 DEF f
<1> HIDE DEF loop, at
<1> DEFINE T == {lg \in 0..N : Chosen(used, lg, at[lg])}
<1>11. 0 \in T
  <2>1. 0 \in 0..N
    BY <1>2
  <2>2. at[0] = zero
    BY <1>10, <2>1
  <2>3. Below(used, 0) = 0
    BY BelowFacts
  <2>4. zero.a = 0 /\ zero.n = 0 /\ zero.na = 0 /\ zero \in [a : Nat, n : Nat, na : Nat]
    BY DEF zero
  <2>5. Chosen(used, 0, zero)
    BY <2>3, <2>4 DEF Chosen
  <2>6. QED
    BY <2>1, <2>2, <2>5
<1>12. ASSUME NEW lg \in 1..N, lg - 1 \in T
       PROVE  lg \in T
  <2>1. lg \in Nat /\ lg # 0 /\ lg \in 0..N
    BY <1>2
  <2>2. at[lg] = Choose(used, at[lg - 1], lg)
    BY <1>10, <2>1
  <2>3. Chosen(used, lg - 1, at[lg - 1])
    BY <1>12
  <2>4. Chosen(used, lg, at[lg])
    BY <2>1, <2>2, <2>3, Chooses
  <2>5. QED
    BY <2>1, <2>4
<1> HIDE DEF T
<1>13. N \in T
  <2>1. 0..N \subseteq T
    BY <1>2, <1>11, <1>12, StepsTo
  <2>2. QED
    BY <1>2, <2>1
<1>14. Chosen(used, N, at[N])
  BY <1>13 DEF T
<1>15. QED
  BY <1>1, <1>14 DEF at, N

\* A table has no more keys in its nodes than it has nodes.
LEMMA KeysFinite ==
    ASSUME NEW h, NEW t, Good(h, t)
    PROVE  IsFiniteSet(KeysOf(t)) /\ Cardinality(KeysOf(t)) \in Nat /\ Cardinality(KeysOf(t)) <= Len(t.node)
<1> DEFINE K == {t.node[i].key : i \in Ids(t.node)}
           f == [i \in Ids(t.node) |-> t.node[i].key]
<1>1. PICK n \in Nat : n = Len(t.node) /\ Ids(t.node) = 1..n
  BY GoodFacts DEF Ids
<1>2. IsFiniteSet(1..n) /\ Cardinality(1..n) = n
  BY FS_Interval
<1>3. f \in Surjection(1..n, K)
  BY <1>1, Zenon DEF Surjection
<1> HIDE DEF K, f
<1>4. IsFiniteSet(K) /\ Cardinality(K) <= n
  BY <1>2, <1>3, FS_Surjection
<1>5. KeysOf(t) \in SUBSET K
  BY DEF KeysOf, K
<1>6. IsFiniteSet(KeysOf(t)) /\ Cardinality(KeysOf(t)) <= Cardinality(K)
  BY <1>4, <1>5, FS_Subset
<1>7. Cardinality(KeysOf(t)) \in Nat /\ Cardinality(K) \in Nat
  BY <1>4, <1>6, FS_CardinalityType
<1>8. QED
  BY <1>1, <1>4, <1>6, <1>7

\* rehash counts the new key and every key that has a value.
LEMMA InUseFacts ==
    ASSUME NEW h, NEW t, Good(h, t), NEW k \in Keys
    PROVE  /\ InUse(t, k) \subseteq Keys /\ IsFiniteSet(InUse(t, k)) /\ k \in InUse(t, k)
           /\ \A j \in Keys : (\E x \in Keys : Found(t, j, x)) => j \in InUse(t, k)
<1> DEFINE A == {j \in Ints : InArray(t, j) /\ t.array[j] # Nil}
           B == {t.node[i].key : i \in {j \in 1..Len(t.node) : t.node[j].val # Nil}}
<1>1. InUse(t, k) = A \cup B \cup {k}
  BY DEF InUse
<1>2. Linked(t.node) /\ Len(t.array) \in Nat /\ Len(t.array) <= MaxKey
  BY GoodFacts DEF Good
<1>3. B \in SUBSET KeysOf(t)
  BY <1>2 DEF KeysOf, Ids, Linked
<1>4. KeysOf(t) \subseteq Keys
  BY <1>2, LinkedFacts DEF KeysOf
<1>5. A \in SUBSET (1..MaxKey)
  BY DEF Ints
<1> HIDE DEF A, B
<1>6. IsFiniteSet(A)
  <2>1. IsFiniteSet(1..MaxKey)
    BY TableAssumption, FS_Interval
  <2>2. QED
    BY <1>5, <2>1, FS_Subset
<1>7. IsFiniteSet(B)
  BY <1>3, KeysFinite, FS_Subset
<1>8. IsFiniteSet(InUse(t, k))
  <2>1. IsFiniteSet(A \cup B)
    BY <1>6, <1>7, FS_Union
  <2>2. QED
    BY <1>1, <2>1, FS_AddElement
<1>9. InUse(t, k) \subseteq Keys /\ k \in InUse(t, k)
  BY <1>1, <1>3, <1>4, <1>5 DEF Keys, Ints
<1>10. ASSUME NEW j \in Keys, NEW x \in Keys, Found(t, j, x)
       PROVE  j \in InUse(t, k)
  <2>1. x # Nil
    BY TableAssumption DEF Keys
  <2>2. CASE InArray(t, j)
    BY <1>1, <1>10, <2>1, <2>2 DEF Found, InArray, A
  <2>3. CASE ~InArray(t, j)
    BY <1>1, <1>10, <2>1, <2>3 DEF Found, Ids, B
  <2>4. QED
    BY <2>2, <2>3
<1>11. QED
  BY <1>8, <1>9, <1>10

\* What the array part does not take is left.
LEMMA Leaves ==
    ASSUME NEW used, used \subseteq Keys, IsFiniteSet(used), NEW n \in Nat, n <= twoto[MaxBits]
    PROVE  /\ Under(used, n) = used \cap (1..n)
           /\ Cardinality(used) - Below(used, n) = Cardinality(used \ (1..n))
           /\ IsFiniteSet(used \ (1..n)) /\ Cardinality(used \ (1..n)) \in Nat
<1>1. twoto[MaxBits] \in Nat /\ twoto[MaxBits] <= MaxKey /\ MaxKey \in Nat
  BY PowersGrow, TableAssumption
<1>2. Under(used, n) = used \cap (1..n)
  BY <1>1 DEF Under, Candidates, Ints
<1> DEFINE A == used \cap (1..n)
           B == used \ (1..n)
<1>3. A \in SUBSET used /\ B \in SUBSET used /\ used = A \cup B /\ A \cap B = {}
  OBVIOUS
<1> HIDE DEF A, B
<1>4. IsFiniteSet(A) /\ IsFiniteSet(B)
  BY <1>3, FS_Subset
<1>5. Cardinality(A) \in Nat /\ Cardinality(B) \in Nat
  BY <1>4, FS_CardinalityType
<1>6. Cardinality(A \cup B) = Cardinality(A) + Cardinality(B) - Cardinality(A \cap B)
  BY <1>4, FS_Union
<1>7. Cardinality(A \cap B) = 0
  BY <1>3, FS_EmptySet
<1>8. Cardinality(used) - Cardinality(A) = Cardinality(B)
  BY <1>3, <1>5, <1>6, <1>7
<1>9. QED
  BY <1>2, <1>4, <1>5, <1>8 DEF A, B, Below

\* Rehashing for a key that has no cell makes room for it.
LEMMA RehashFacts ==
    ASSUME hash \in [Keys -> Nat], NEW t, Good(hash, t), NEW k \in Keys, ~HasCell(t, k)
    PROVE  LET used == InUse(t, k)
               n == ComputeSizes(used).n
               u == Rehash(t, k)
           IN  /\ Resized(t, u, n, Cardinality(used \ (1..n)))
               /\ HasCell(u, k) \/ HasRoom(u, k)
<1>1. PICK used : used = InUse(t, k)
  OBVIOUS
<1>2. PICK s : s = ComputeSizes(used)
  OBVIOUS
<1>3. /\ used \subseteq Keys /\ IsFiniteSet(used) /\ k \in used
      /\ \A j \in Keys : (\E x \in Keys : Found(t, j, x)) => j \in used
  BY <1>1, InUseFacts
<1>4. MaxBits \in Nat /\ twoto[MaxBits] <= MaxKey /\ twoto[MaxBits] \in Nat /\ MaxKey \in Nat
  BY TableAssumption, PowersGrow
<1>5. Chosen(used, MaxBits + 1, s)
  BY <1>2, ComputeSizesFacts
<1>6. s.n \in Nat /\ s.na = Below(used, s.n) /\ s.n <= twoto[MaxBits]
  <2>1. s.n \in Nat /\ s.na = Below(used, s.n)
    BY <1>5 DEF Chosen
  <2>2. s.n = 0 \/ \E l \in 0..(MaxBits + 1) - 1 : s.n = twoto[l]
    BY <1>5 DEF Chosen
  <2>3. \A l \in 0..(MaxBits + 1) - 1 : l \in Nat /\ l <= MaxBits
    BY <1>4
  <2>4. QED
    BY <1>4, <2>1, <2>2, <2>3, PowersGrow
<1>7. PICK n \in Nat : n = s.n
  BY <1>6
<1>8. /\ Cardinality(used) - Below(used, n) = Cardinality(used \ (1..n))
      /\ IsFiniteSet(used \ (1..n)) /\ Cardinality(used \ (1..n)) \in Nat
  BY <1>3, <1>6, <1>7, Leaves
<1>9. PICK nh \in Nat : nh = Cardinality(used \ (1..n))
  BY <1>8
<1>10. PICK u : u = Rehash(t, k)
  OBVIOUS
<1>11. u = Resize(t, n, nh)
  BY <1>1, <1>2, <1>6, <1>7, <1>8, <1>9, <1>10 DEF Rehash
<1>12. Moved(t, n) \subseteq used \ (1..n)
  <2>1. n <= MaxKey /\ MaxKey \in Nat
    BY <1>4, <1>6, <1>7
  <2>2. \A j \in 1..n : j \in Ints /\ j <= n
    BY <2>1 DEF Ints
  <2>3. QED
    BY <1>3, <2>2 DEF Moved
<1>13. NodeSize(nh) \in Nat /\ NodeSize(nh) >= nh
  BY NodeSizeFacts
<1>14. n <= MaxKey
  BY <1>4, <1>6, <1>7
<1>15. Resized(t, u, n, nh)
  BY <1>8, <1>9, <1>11, <1>12, <1>13, <1>14, ResizeFacts
<1>16. Good(hash, u) /\ Len(u.array) = n /\ Len(u.node) = NodeSize(nh) /\ KeysOf(u) \subseteq Moved(t, n)
  BY <1>15 DEF Resized
<1>17. HasCell(u, k) \/ HasRoom(u, k)
  <2> SUFFICES ASSUME ~HasCell(u, k)
               PROVE  HasRoom(u, k)
    OBVIOUS
  <2>1. ~InArray(u, k) /\ \A i \in Ids(u.node) : u.node[i].key # k
    BY <1>16, GetIs
  <2>2. k \notin KeysOf(u)
    BY <2>1 DEF KeysOf
  <2>3. k \notin 1..n
    BY <1>14, <1>16, <2>1, TableAssumption DEF InArray, Ints
  <2>4. KeysOf(u) \subseteq used \ (1..n) /\ k \in used \ (1..n)
    BY <1>3, <1>12, <1>16, <2>3
  <2>5. Cardinality(used \ (1..n)) <= Len(u.node)
    BY <1>9, <1>13, <1>16
  <2>6. FreePos(u) # 0
    BY <1>8, <1>16, <2>2, <2>4, <2>5, FewKeys
  <2>7. FreePos(u) \in Ids(u.node)
    BY <1>16, <2>6, FreePosFacts
  <2>8. u.node # <<>>
    BY <2>7 DEF Ids
  <2>9. QED
    BY <2>6, <2>8 DEF HasRoom
<1>18. QED
  BY <1>1, <1>2, <1>7, <1>9, <1>10, <1>15, <1>17

\* luaH_set stores the value, and nothing else is lost.
Sets(t, u, k, v) ==
    /\ Good(hash, u) /\ Found(u, k, v)
    /\ \A j \in Keys : j # k => \A x : Found(t, j, x) => Found(u, j, x)

\* luaH_set stores the value under the key and loses no other, also where the table has
\* to grow first.
LEMMA SetKeySets ==
    ASSUME hash \in [Keys -> Nat], NEW t, Good(hash, t), NEW k \in Keys, NEW v \in Keys \cup {Nil}
    PROVE  Sets(t, SetKey(t, k, v), k, v)
<1>1. CASE HasCell(t, k) \/ HasRoom(t, k)
  <2>1. SetKey(t, k, v) = Put(t, k, v)
    BY <1>1 DEF SetKey
  <2>2. Stored(hash, t, Put(t, k, v), k, v)
    BY <1>1, PutStores
  <2>3. QED
    BY <2>1, <2>2 DEF Stored, Sets
<1>2. CASE ~(HasCell(t, k) \/ HasRoom(t, k))
  <2>1. PICK u : u = Rehash(t, k)
    OBVIOUS
  <2>2. SetKey(t, k, v) = Put(u, k, v)
    BY <1>2, <2>1 DEF SetKey
  <2>3. PICK n, nh : Resized(t, u, n, nh) /\ (HasCell(u, k) \/ HasRoom(u, k))
    BY <1>2, <2>1, RehashFacts
  <2>4. Stored(hash, u, Put(u, k, v), k, v)
    BY <2>3, PutStores DEF Resized
  <2>5. QED
    BY <2>2, <2>3, <2>4 DEF Stored, Sets, Resized
<1>3. QED
  BY <1>1, <1>2

\* A new table is well-formed and holds nothing.
LEMMA NewTableGood ==
    ASSUME hash \in [Keys -> Nat]
    PROVE  /\ Good(hash, NewTable)
           /\ \A j \in Keys : Found(NewTable, j, Nil)
<1>1. NewTable.array = <<>> /\ NewTable.node = <<>> /\ NewTable.free = 0 /\ Len(<<>>) = 0
  BY DEF NewTable
<1>2. Ids(<<>>) = {} /\ NewTable \in Table /\ MaxKey \in Nat
  BY TableAssumption DEF Ids, NewTable, Table
<1>3. Linked(<<>>) /\ Ending(<<>>) /\ Homed(hash, <<>>)
  BY <1>2 DEF Linked, Ending, Homed
<1>4. Good(hash, NewTable)
  BY <1>1, <1>2, <1>3 DEF Good, Sound
<1>5. \A j \in Keys : ~InArray(NewTable, j)
  BY <1>1, <1>2 DEF InArray, Ints
<1>6. QED
  BY <1>1, <1>2, <1>4, <1>5 DEF Found

\* The table of OP_SETLIST, and what it holds after its n last items.
Wide(t, last) == IF last > Len(t.array) THEN Resize(t, last, Len(t.node)) ELSE t
Item(present, i) == IF i \in present THEN i ELSE Nil
Listed(t, last, present, n, u) ==
    /\ \A i \in last - n + 1..last : Found(u, i, Item(present, i))
    /\ \A j \in Keys : j \notin last - n + 1..last => \A x : Found(t, j, x) => Found(u, j, x)

\* OP_SETLIST loses nothing by making the array part large enough.
LEMMA WideFacts ==
    ASSUME hash \in [Keys -> Nat], NEW t, Good(hash, t), NEW last \in Nat, last <= MaxKey
    PROVE  /\ Good(hash, Wide(t, last))
           /\ \A j \in Keys : \A x : Found(t, j, x) => Found(Wide(t, last), j, x)
<1>1. CASE ~(last > Len(t.array))
  BY <1>1 DEF Wide
<1>2. CASE last > Len(t.array)
  <2>1. Len(t.node) \in Nat /\ Len(t.array) \in Nat
    BY GoodFacts
  <2>2. Moved(t, last) \subseteq KeysOf(t)
    <3> SUFFICES ASSUME NEW j \in Keys, ~(j \in Ints /\ j <= last), NEW x \in Keys, Found(t, j, x)
                 PROVE  j \in KeysOf(t)
      BY DEF Moved
    <3>1. ~InArray(t, j)
      BY <1>2, <2>1, TableAssumption DEF InArray, Ints
    <3>2. x # Nil /\ j # Nil
      BY TableAssumption DEF Keys
    <3>3. QED
      BY <3>1, <3>2 DEF Found, KeysOf
  <2>3. IsFiniteSet(KeysOf(t)) /\ Cardinality(KeysOf(t)) \in Nat /\ Cardinality(KeysOf(t)) <= Len(t.node)
    BY KeysFinite
  <2>4. NodeSize(Len(t.node)) \in Nat /\ NodeSize(Len(t.node)) >= Len(t.node)
    BY <2>1, NodeSizeFacts
  <2>5. Cardinality(KeysOf(t)) <= NodeSize(Len(t.node))
    BY <2>1, <2>3, <2>4
  <2>6. Resized(t, Resize(t, last, Len(t.node)), last, Len(t.node))
    BY <2>1, <2>2, <2>3, <2>5, ResizeFacts
  <2>7. QED
    BY <1>2, <2>6 DEF Resized, Wide
<1>3. QED
  BY <1>1, <1>2

\* OP_SETLIST stores its items and loses nothing else.
LEMMA SetListStores ==
    ASSUME hash \in [Keys -> Nat], Good(hash, tab), NEW last \in Nat, last <= MaxKey, NEW present,
           SetList(last, present)
    PROVE  Good(hash, tab') /\ Listed(tab, last, present, last, tab')
<1> DEFINE S == {u \in Table : Good(hash, u)}
           new == Wide(tab, last)
           put(n, u) == SetKey(u, last - n + 1, Item(present, last - n + 1))
           f(after) == [n \in 0..last |-> IF n = 0 THEN new ELSE put(n, after[n - 1])]
           after == CHOOSE after : after = f(after)
           G == [n \in 1..last |-> [u \in S |-> put(n, u)]]
<1>1. tab' = after[last]
  BY Zenon DEF SetList, Wide, Item
<1>2. new \in S /\ Listed(tab, last, present, 0, new)
  <2>1. Good(hash, new) /\ \A j \in Keys : \A x : Found(tab, j, x) => Found(new, j, x)
    BY WideFacts
  <2>2. \A i \in last - 0 + 1..last : FALSE
    OBVIOUS
  <2>3. new \in Table
    BY <2>1 DEF Good
  <2> HIDE DEF new
  <2>4. QED
    BY <2>1, <2>2, <2>3 DEF Listed
<1>3. \A n \in 1..last : last - n + 1 \in Keys /\ last - n + 1 \in 1..last
  BY TableAssumption DEF Keys, Ints
<1>4. \A n \in 1..last : \A u \in S :
        put(n, u) \in S /\ Sets(u, put(n, u), last - n + 1, Item(present, last - n + 1))
  <2> SUFFICES ASSUME NEW n \in 1..last, NEW u \in S
               PROVE  put(n, u) \in S /\ Sets(u, put(n, u), last - n + 1, Item(present, last - n + 1))
    OBVIOUS
  <2>1. PICK k : k = last - n + 1
    OBVIOUS
  <2>2. k \in Keys /\ Item(present, k) \in Keys \cup {Nil}
    BY <1>3, <2>1 DEF Item
  <2>3. Sets(u, SetKey(u, k, Item(present, k)), k, Item(present, k))
    BY <2>2, SetKeySets
  <2>4. SetKey(u, k, Item(present, k)) \in S
    BY <2>3 DEF Sets, Good
  <2>5. QED
    BY <2>1, <2>3, <2>4
<1> HIDE DEF new, S, put
<1>5. Rounds(1..last, S, G) /\ \A n \in 1..last : \A u \in S : G[n][u] = put(n, u)
  BY <1>4 DEF Rounds
<1> HIDE DEF G, f
<1>6. PICK u : Passes(last, S, new, G, u)
  BY <1>2, <1>5, Iterates
<1>7. u \in [0..last -> S] /\ u[0] = new
  BY <1>6 DEF Passes
<1>8. \A n \in 1..last : u[n] = put(n, u[n - 1])
  <2>1. \A n \in 1..last : n - 1 \in 0..last /\ u[n - 1] \in S
    BY <1>7
  <2>2. QED
    BY <1>5, <1>6, <2>1, Zenon DEF Passes, Follows
<1>9. u = f(u)
  <2>1. \A n \in 0..last : n = 0 \/ n \in 1..last
    OBVIOUS
  <2>2. \A n \in 0..last : u[n] = IF n = 0 THEN new ELSE put(n, u[n - 1])
    BY <1>7, <1>8, <2>1
  <2>3. QED
    BY <1>7, <2>2 DEF f
<1>10. after = f(after)
  BY <1>9, Zenon
<1> DEFINE at == after
<1>11. \A n \in 0..last : at[n] = IF n = 0 THEN new ELSE put(n, at[n - 1])
  BY <1>10 DEF f
<1> HIDE DEF after, at
<1> DEFINE T == {n \in 0..last : at[n] \in S /\ Listed(tab, last, present, n, at[n])}
<1>12. 0 \in T
  <2>1. 0 \in 0..last
    OBVIOUS
  <2>2. at[0] = new
    BY <1>11, <2>1
  <2>3. QED
    BY <1>2, <2>1, <2>2
<1>13. ASSUME NEW n \in 1..last, n - 1 \in T
       PROVE  n \in T
  <2>1. PICK k, x, y : k = last - n + 1 /\ x = at[n - 1] /\ y = at[n]
    OBVIOUS
  <2>2. n \in 0..last /\ n # 0 /\ k \in Keys /\ k \in 1..last /\ last - (n - 1) + 1 = k + 1
    BY <1>3, <2>1
  <2>3. y = put(n, x)
    BY <1>11, <2>1, <2>2
  <2>4. x \in S /\ Listed(tab, last, present, n - 1, x)
    BY <1>13, <2>1
  <2>5. y \in S /\ Sets(x, y, k, Item(present, k))
    BY <1>4, <2>1, <2>3, <2>4
  <2>6. \A i \in k..last : i = k \/ i \in k + 1..last
    BY <2>2
  <2>7. \A i \in k + 1..last : i \in Keys /\ i # k
    BY <2>2, TableAssumption DEF Keys, Ints
  <2>8. k \in k..last /\ \A i \in k + 1..last : i \in k..last
    BY <2>2
  <2>9. /\ \A i \in k + 1..last : Found(x, i, Item(present, i))
        /\ \A j \in Keys : j \notin k + 1..last => \A z : Found(tab, j, z) => Found(x, j, z)
    BY <2>2, <2>4 DEF Listed
  <2>10. /\ \A i \in k..last : Found(y, i, Item(present, i))
         /\ \A j \in Keys : j \notin k..last => \A z : Found(tab, j, z) => Found(y, j, z)
    BY <2>5, <2>6, <2>7, <2>8, <2>9 DEF Sets
  <2>11. Listed(tab, last, present, n, y)
    BY <2>1, <2>10 DEF Listed
  <2>12. QED
    BY <2>1, <2>2, <2>5, <2>11
<1> HIDE DEF T
<1>14. last \in T
  <2>1. 0..last \subseteq T
    BY <1>12, <1>13, StepsTo
  <2>2. QED
    BY <2>1
<1>15. QED
  BY <1>1, <1>14 DEF at, T, S

-----------------------------------------------------------------------------

\* The table is good and holds the program's assignments.
IInv ==
    /\ hash \in Hashes
    /\ content \in [Keys -> Keys \cup {Nil}]
    /\ Good(hash, tab)
    /\ \A k \in Keys : Found(tab, k, content[k]) /\ content[k] \in {k, Nil}

\* The invariant holds of a new table.
LEMMA InitGood == Init => IInv
<1> SUFFICES ASSUME Init
             PROVE  IInv
  OBVIOUS
<1>1. hash \in Hashes /\ hash \in [Keys -> Nat] /\ content = [k \in Keys |-> Nil]
  BY TableAssumption DEF Init
<1>2. PICK s \in Creates : tab = Resize(NewTable, s[1], s[2])
  BY DEF Init
<1>3. PICK n, nh : n = s[1] /\ nh = s[2]
  OBVIOUS
<1>4. n \in Nat /\ n <= MaxKey /\ nh \in Nat
  <2>1. s \in (0..twoto[MaxBits]) \X Nat
    BY TableAssumption
  <2>2. MaxBits \in Nat /\ twoto[MaxBits] <= MaxKey /\ twoto[MaxBits] \in Nat /\ MaxKey \in Nat
    BY PowersGrow, TableAssumption
  <2>3. QED
    BY <1>3, <2>1, <2>2
<1>5. Good(hash, NewTable) /\ \A j \in Keys : Found(NewTable, j, Nil)
  BY <1>1, NewTableGood
<1>6. Moved(NewTable, n) \subseteq {}
  <2> SUFFICES ASSUME NEW j \in Keys, NEW x \in Keys, Found(NewTable, j, x)
               PROVE  FALSE
    BY DEF Moved
  <2>1. x = Nil
    BY <1>5, FoundOnce
  <2>2. QED
    BY <2>1, TableAssumption DEF Keys
<1>7. IsFiniteSet({}) /\ Cardinality({}) = 0
  BY FS_EmptySet
<1>8. NodeSize(nh) \in Nat /\ NodeSize(nh) >= nh
  BY <1>4, NodeSizeFacts
<1>9. Cardinality({}) <= NodeSize(nh)
  BY <1>7, <1>8
<1>10. Resized(NewTable, Resize(NewTable, n, nh), n, nh)
  BY <1>1, <1>4, <1>5, <1>6, <1>7, <1>9, ResizeFacts
<1>11. Good(hash, tab) /\ \A j \in Keys : Found(tab, j, Nil)
  BY <1>2, <1>3, <1>5, <1>10 DEF Resized
<1>12. QED
  BY <1>1, <1>11 DEF IInv

\* Every assignment and every constructor preserves the invariant.
LEMMA NextGood == IInv /\ [Next]_vars => IInv'
<1> SUFFICES ASSUME IInv, [Next]_vars
             PROVE  IInv'
  OBVIOUS
<1>1. /\ hash \in Hashes /\ hash \in [Keys -> Nat] /\ content \in [Keys -> Keys \cup {Nil}]
      /\ Good(hash, tab) /\ \A k \in Keys : Found(tab, k, content[k]) /\ content[k] \in {k, Nil}
  BY TableAssumption DEF IInv
<1>2. ASSUME NEW k \in Keys, Assign(k)
      PROVE  IInv'
  <2>1. PICK v \in {k, Nil} : tab' = SetKey(tab, k, v) /\ content' = [content EXCEPT ![k] = v]
    BY <1>2 DEF Assign
  <2>2. hash' = hash
    BY <1>2 DEF Assign
  <2>3. Sets(tab, tab', k, v)
    BY <1>1, <2>1, SetKeySets
  <2>4. content'[k] = v /\ \A j \in Keys : j # k => content'[j] = content[j]
    BY <1>1, <2>1
  <2>5. content' \in [Keys -> Keys \cup {Nil}]
    BY <1>1, <2>1
  <2>6. \A j \in Keys : Found(tab', j, content'[j]) /\ content'[j] \in {j, Nil}
    BY <1>1, <2>3, <2>4 DEF Sets
  <2>7. Good(hash', tab')
    BY <2>2, <2>3 DEF Sets
  <2>8. QED
    BY <1>1, <2>2, <2>5, <2>6, <2>7 DEF IInv
<1>3. ASSUME NEW c \in Constructors, SetList(c[1], c[2])
      PROVE  IInv'
  <2>1. PICK last, present : last = c[1] /\ present = c[2]
    OBVIOUS
  <2>2. last \in Nat /\ last <= MaxKey /\ MaxKey \in Nat
    <3>1. twoto[MaxBits] <= MaxKey /\ twoto[MaxBits] \in Nat /\ MaxKey \in Nat
      BY PowersGrow, TableAssumption
    <3>2. last \in 1..twoto[MaxBits]
      BY <2>1, TableAssumption
    <3>3. QED
      BY <3>1, <3>2
  <2>3. SetList(last, present)
    BY <1>3, <2>1
  <2>4. Good(hash, tab') /\ Listed(tab, last, present, last, tab')
    BY <1>1, <2>2, <2>3, SetListStores
  <2>5. /\ content' = [k \in Keys |-> IF k \notin 1..last THEN content[k] ELSE IF k \in present THEN k ELSE Nil]
        /\ hash' = hash
    BY <2>3 DEF SetList
  <2>6. last - last + 1..last = 1..last
    BY <2>2
  <2>7. \A i \in 1..last : i \in Keys
    BY <2>2 DEF Keys, Ints
  <2>8. /\ \A i \in 1..last : Found(tab', i, Item(present, i))
        /\ \A j \in Keys : j \notin 1..last => \A x : Found(tab, j, x) => Found(tab', j, x)
    BY <2>4, <2>6 DEF Listed
  <2>9. \A j \in Keys : Found(tab', j, content'[j]) /\ content'[j] \in {j, Nil}
    BY <1>1, <2>5, <2>8 DEF Item
  <2>10. content' \in [Keys -> Keys \cup {Nil}]
    BY <1>1, <2>5
  <2>11. QED
    BY <1>1, <2>4, <2>5, <2>9, <2>10 DEF IInv
<1>4. CASE UNCHANGED vars
  BY <1>1, <1>4 DEF vars, IInv, Good, Found, InArray, Ids, Sound, Linked, Homed, Ending
<1>5. QED
  BY <1>2, <1>3, <1>4 DEF Next

\* Every table the program can build is well-formed, and holds under every key exactly
\* what was last assigned to it, for any keys, hash values and sizes.
THEOREM Invariant == Spec => []IInv
<1>1. QED
  BY InitGood, NextGood, PTL DEF Spec

\* What the invariant says of what luaH_get finds.
LEMMA GetContent ==
    ASSUME IInv
    PROVE  \A k \in Keys : Get(tab, k) = content[k]
<1>1. hash \in [Keys -> Nat] /\ Good(hash, tab) /\ \A k \in Keys : Found(tab, k, content[k])
  BY TableAssumption DEF IInv
<1>2. QED
  BY <1>1, GetOf

\* luaH_get (ltable.cpp:481) finds under every key what the program last assigned to it,
\* whatever collisions, freed cells and growing have moved.
THEOREM FindsAssigned == Spec => []LooksUp
<1>1. IInv => LooksUp
  BY GetContent DEF LooksUp
<1>2. QED
  BY <1>1, Invariant, PTL

\* The table and its chains are well-formed, every walk over a chain ends, and luaH_resize
\* (ltable.cpp:304) never runs out of nodes while it inserts the old entries again.
THEOREM TableCorrect == Spec => []TypeOK
<1>1. ASSUME IInv
      PROVE  TypeOK
  <2>1. /\ hash \in Hashes /\ content \in [Keys -> Keys \cup {Nil}] /\ Good(hash, tab)
        /\ \A k \in Keys : Found(tab, k, content[k]) /\ content[k] \in {k, Nil}
    BY <1>1 DEF IInv
  <2>2. /\ tab.array \in Seq(Keys \cup {Nil}) /\ Len(tab.array) \in Nat /\ Len(tab.array) <= MaxKey
        /\ tab.node \in Seq(Node) /\ tab.free \in 0..Len(tab.node) /\ Linked(tab.node) /\ Ending(tab.node)
    BY <2>1, GoodFacts DEF Good
  <2>3. \A i \in 1..Len(tab.array) : tab.array[i] \in Ints \cup {Nil}
    <3> SUFFICES ASSUME NEW i \in 1..Len(tab.array)
                 PROVE  tab.array[i] \in Ints \cup {Nil}
      OBVIOUS
    <3>1. i \in Ints /\ i \in Keys /\ InArray(tab, i)
      BY <2>2, TableAssumption DEF Ints, Keys, InArray
    <3>2. tab.array[i] = content[i]
      BY <2>1, <3>1 DEF Found
    <3>3. QED
      BY <2>1, <3>1, <3>2
  <2>4. tab.array \in Seq(Ints \cup {Nil})
    BY <2>2, <2>3
  <2>5. ASSUME NEW i \in 1..Len(tab.node)
        PROVE  tab.node[i].next \in 0..Len(tab.node) /\ Walk(tab.node, i)[Len(tab.node)] = 0
    <3>1. i \in Ids(tab.node)
      BY DEF Ids
    <3>2. WalkIs(tab.node, i, Walk(tab.node, i))
      BY <2>2, <3>1, WalkFacts
    <3>3. QED
      BY <2>2, <3>1, <3>2, WalkEnds DEF Linked
  <2>6. QED
    BY <2>1, <2>2, <2>4, <2>5 DEF TypeOK
<1>2. QED
  BY <1>1, Invariant, PTL

\* The step GrowsToHalfFull is about.
LEMMA Grows == IInv /\ [Next]_vars =>
    \A k \in Keys :
         ~HasCell(tab, k) /\ ~HasRoom(tab, k) /\ Assign(k) =>
           LET used == InUse(tab, k)
               full == {n \in {twoto[lg] : lg \in 0..MaxBits} :
                          2 * Cardinality(used \cap 1..n) > n}
           IN  /\ Len(tab'.array) = (IF full = {} THEN 0 ELSE Max(full))
               /\ Len(tab'.node) >= Cardinality(used \ (1..Len(tab'.array)))
<1> SUFFICES ASSUME IInv, NEW k \in Keys, ~HasCell(tab, k), ~HasRoom(tab, k), Assign(k)
             PROVE  LET used == InUse(tab, k)
                        full == {n \in {twoto[lg] : lg \in 0..MaxBits} :
                                   2 * Cardinality(used \cap 1..n) > n}
                    IN  /\ Len(tab'.array) = (IF full = {} THEN 0 ELSE Max(full))
                        /\ Len(tab'.node) >= Cardinality(used \ (1..Len(tab'.array)))
  OBVIOUS
<1> DEFINE used == InUse(tab, k)
           full == {n \in {twoto[lg] : lg \in 0..MaxBits} : 2 * Cardinality(used \cap 1..n) > n}
<1>1. hash \in [Keys -> Nat] /\ Good(hash, tab)
  BY TableAssumption DEF IInv
<1>2. PICK v \in {k, Nil} : tab' = SetKey(tab, k, v)
  BY DEF Assign
<1>3. PICK s, u : s = ComputeSizes(used) /\ u = Rehash(tab, k)
  OBVIOUS
<1>4. PICK n : n = s.n
  OBVIOUS
<1>5. tab' = Put(u, k, v)
  BY <1>2, <1>3 DEF SetKey
<1>6. Resized(tab, u, n, Cardinality(used \ (1..n))) /\ (HasCell(u, k) \/ HasRoom(u, k))
  BY <1>1, <1>3, <1>4, RehashFacts
<1>7. Stored(hash, u, tab', k, v)
  BY <1>1, <1>5, <1>6, PutStores DEF Resized
<1>8. Len(tab'.array) = n /\ Len(tab'.node) = NodeSize(Cardinality(used \ (1..n)))
  BY <1>6, <1>7 DEF Resized, Stored
<1>9. used \subseteq Keys /\ IsFiniteSet(used)
  BY <1>1, InUseFacts
<1>10. MaxBits \in Nat
  BY TableAssumption
<1> HIDE DEF used
<1>11. /\ n \in Nat /\ s.na = Below(used, n)
       /\ n = 0 \/ \E l \in 0..MaxBits : n = twoto[l] /\ 2 * s.na > n
       /\ \A l \in 0..MaxBits : 2 * Below(used, twoto[l]) > twoto[l] => twoto[l] <= n
  <2>1. Chosen(used, MaxBits + 1, s)
    BY <1>3, ComputeSizesFacts
  <2>2. (MaxBits + 1) - 1 = MaxBits
    BY <1>10
  <2>3. /\ s.n \in Nat /\ s.na = Below(used, s.n)
        /\ s.n = 0 \/ \E l \in 0..MaxBits : s.n = twoto[l] /\ 2 * s.na > twoto[l]
        /\ \A l \in 0..MaxBits : 2 * Below(used, twoto[l]) > twoto[l] => twoto[l] <= s.n
    BY <2>1, <2>2 DEF Chosen
  <2>4. QED
    BY <1>4, <2>3
<1>12. \A l \in 0..MaxBits : twoto[l] \in Nat /\ twoto[l] <= twoto[MaxBits]
  BY <1>10, PowersGrow
<1>13. \A l \in 0..MaxBits : Cardinality(used \cap 1..twoto[l]) = Below(used, twoto[l])
  BY <1>9, <1>12, Leaves DEF Below
<1>14. n <= twoto[MaxBits] /\ twoto[MaxBits] \in Nat
  BY <1>10, <1>11, <1>12, PowersGrow
<1>15. \A x : x \in full <=> \E l \in 0..MaxBits : x = twoto[l] /\ 2 * Below(used, twoto[l]) > twoto[l]
  BY <1>13
<1> HIDE DEF full
<1>16. \A x \in full : x \in Nat /\ x # 0 /\ x <= n
  <2>1. \A l \in 0..MaxBits : l \in Nat
    BY <1>10
  <2>2. \A l \in 0..MaxBits : twoto[l] >= 1
    BY <2>1, PowersGrow
  <2>3. QED
    BY <1>11, <1>12, <1>15, <2>2
<1>17. n # 0 => n \in full
  BY <1>11, <1>15
<1>18. n = IF full = {} THEN 0 ELSE Max(full)
  <2>1. CASE full = {}
    BY <1>17, <2>1
  <2>2. CASE full # {}
    <3>1. full \in SUBSET (0..n)
      BY <1>11, <1>16
    <3>2. Max(full) \in full /\ \A x \in full : x <= Max(full)
      BY <1>11, <2>2, <3>1, GreatestOne
    <3>3. PICK m : m = Max(full)
      OBVIOUS
    <3>4. m \in Nat /\ m # 0 /\ m <= n
      BY <1>16, <3>2, <3>3
    <3>5. n \in full
      BY <1>11, <1>17, <3>4
    <3>6. n <= m
      BY <3>2, <3>3, <3>5
    <3>7. QED
      BY <1>11, <2>2, <3>3, <3>4, <3>6
  <2>3. QED
    BY <2>1, <2>2
<1>19. Cardinality(used \ (1..n)) \in Nat
  BY <1>9, <1>11, <1>14, Leaves
<1>20. NodeSize(Cardinality(used \ (1..n))) >= Cardinality(used \ (1..n))
  BY <1>19, NodeSizeFacts
<1>21. QED
  BY <1>8, <1>18, <1>20 DEF full, used

\* rehash (ltable.cpp:343) makes the array part the largest power of two of which more
\* than half is in use, and the hash part large enough for the other keys.
THEOREM GrowsRight == Spec => GrowsToHalfFull
<1>1. QED
  BY Invariant, Grows, PTL DEF Spec, GrowsToHalfFull

-----------------------------------------------------------------------------

\* Boundaries, and ends between which there is one.
Border(t, n) == (n = 0 \/ GetInt(t, n) # Nil) /\ GetInt(t, n + 1) = Nil
Lower(t, e) == /\ e \in Nat \X Nat /\ e[1] < e[2]
               /\ e[1] = 0 \/ GetInt(t, e[1]) # Nil
Ends(t, e) == Lower(t, e) /\ GetInt(t, e[2]) = Nil

\* The binary searches of luaH_getn and unbound_search end at a boundary.
LEMMA HalveFinds ==
    ASSUME NEW t, NEW low, NEW high, Ends(t, <<low, high>>)
    PROVE  Halve(t, low, high) \in Nat /\ Border(t, Halve(t, low, high))
<1> DEFINE N == high - low
           S == {e \in Nat \X Nat : Ends(t, e)}
           half(e) == IF e[2] - e[1] <= 1 THEN e
                      ELSE IF GetInt(t, (e[1] + e[2]) \div 2) = Nil
                           THEN <<e[1], (e[1] + e[2]) \div 2>> ELSE <<(e[1] + e[2]) \div 2, e[2]>>
           f(ends) == [n \in 0..N |-> IF n = 0 THEN <<low, high>> ELSE half(ends[n - 1])]
           ends == CHOOSE ends : ends = f(ends)
           G == [n \in 1..N |-> [e \in S |-> half(e)]]
<1>1. Halve(t, low, high) = ends[N][1]
  BY Zenon DEF Halve
<1>2. low \in Nat /\ high \in Nat /\ low < high
  BY DEF Ends, Lower
<1>3. N \in Nat /\ N >= 1 /\ <<low, high>> \in S
  BY <1>2
<1>4. \A e \in S : half(e) \in S
                   /\ (e[2] - e[1] <= 1 \/ half(e)[2] - half(e)[1] <= (e[2] - e[1]) - 1)
  <2> SUFFICES ASSUME NEW e \in S
               PROVE  half(e) \in S
                      /\ (e[2] - e[1] <= 1 \/ half(e)[2] - half(e)[1] <= (e[2] - e[1]) - 1)
    OBVIOUS
  <2>1. PICK x, y \in Nat : x = e[1] /\ y = e[2] /\ e = <<x, y>>
    OBVIOUS
  <2>2. x < y /\ (x = 0 \/ GetInt(t, x) # Nil) /\ GetInt(t, y) = Nil
    BY <2>1 DEF Ends, Lower
  <2>3. CASE y - x <= 1
    BY <2>1, <2>3
  <2>4. CASE ~(y - x <= 1)
    <3>1. PICK m : m = (x + y) \div 2
      OBVIOUS
    <3>2. m \in Nat /\ x < m /\ m < y
      BY <2>2, <2>4, <3>1
    <3>3. CASE GetInt(t, m) = Nil
      <4>1. half(e) = <<x, m>>
        BY <2>1, <2>4, <3>1, <3>3
      <4>2. <<x, m>> \in S
        BY <2>2, <3>2, <3>3 DEF Ends, Lower
      <4>3. QED
        BY <2>1, <3>2, <4>1, <4>2
    <3>4. CASE GetInt(t, m) # Nil
      <4>1. half(e) = <<m, y>>
        BY <2>1, <2>4, <3>1, <3>4
      <4>2. <<m, y>> \in S
        BY <2>2, <3>2, <3>4 DEF Ends, Lower
      <4>3. QED
        BY <2>1, <3>2, <4>1, <4>2
    <3>5. QED
      BY <3>3, <3>4
  <2>5. QED
    BY <2>1, <2>3, <2>4
<1> HIDE DEF N, half
<1>5. Rounds(1..N, S, G) /\ \A n \in 1..N : \A e \in S : G[n][e] = half(e)
  BY <1>4 DEF Rounds
<1>6. \A e \in S : e[1] \in Nat /\ e[2] \in Nat /\ e[1] < e[2] /\ Ends(t, e)
  BY DEF Ends, Lower
<1> HIDE DEF G, f, S
<1>7. PICK u : Passes(N, S, <<low, high>>, G, u)
  BY <1>3, <1>5, Iterates
<1>8. u \in [0..N -> S] /\ u[0] = <<low, high>>
  BY <1>7 DEF Passes
<1>9. \A n \in 1..N : u[n] = half(u[n - 1])
  <2>1. \A n \in 1..N : n - 1 \in 0..N /\ u[n - 1] \in S
    BY <1>3, <1>8
  <2>2. QED
    BY <1>5, <1>7, <2>1, Zenon DEF Passes, Follows
<1>10. u = f(u)
  <2>1. \A n \in 0..N : n = 0 \/ n \in 1..N
    BY <1>3
  <2>2. \A n \in 0..N : u[n] = IF n = 0 THEN <<low, high>> ELSE half(u[n - 1])
    BY <1>8, <1>9, <2>1
  <2>3. QED
    BY <1>8, <2>2 DEF f
<1>11. ends = f(ends)
  BY <1>10, Zenon
<1> DEFINE at == ends
<1>12. \A n \in 0..N : at[n] = IF n = 0 THEN <<low, high>> ELSE half(at[n - 1])
  BY <1>11 DEF f
<1> HIDE DEF ends, at
<1> DEFINE T == {n \in 0..N : at[n] \in S /\ (at[n][2] - at[n][1] <= 1 \/ at[n][2] - at[n][1] <= N - n)}
<1>13. 0 \in T
  <2>1. 0 \in 0..N
    BY <1>3
  <2>2. at[0] = <<low, high>>
    BY <1>12, <2>1
  <2>3. high - low <= N - 0
    BY <1>2 DEF N
  <2>4. at[0][1] = low /\ at[0][2] = high
    BY <2>2
  <2>5. QED
    BY <1>3, <2>1, <2>2, <2>3, <2>4
<1>14. ASSUME NEW n \in 1..N, n - 1 \in T
       PROVE  n \in T
  <2>1. n \in 0..N /\ n # 0
    BY <1>3
  <2>2. PICK x, y : x = at[n - 1] /\ y = at[n]
    OBVIOUS
  <2>3. y = half(x)
    BY <1>12, <2>1, <2>2
  <2>4. x \in S /\ (x[2] - x[1] <= 1 \/ x[2] - x[1] <= N - (n - 1))
    BY <1>14, <2>2
  <2>5. y \in S /\ (x[2] - x[1] <= 1 \/ y[2] - y[1] <= (x[2] - x[1]) - 1)
    BY <1>4, <2>3, <2>4
  <2>6. x[2] - x[1] <= 1 => y = x
    BY <2>3 DEF half
  <2>7. y[2] - y[1] <= 1 \/ y[2] - y[1] <= N - n
    BY <1>3, <1>6, <2>4, <2>5, <2>6
  <2>8. QED
    BY <2>1, <2>2, <2>5, <2>7
<1> HIDE DEF T
<1>15. N \in T
  <2>1. 0..N \subseteq T
    BY <1>3, <1>13, <1>14, StepsTo
  <2>2. QED
    BY <1>3, <2>1
<1>16. PICK e : e = at[N]
  OBVIOUS
<1>17. e \in S /\ (e[2] - e[1] <= 1 \/ e[2] - e[1] <= N - N)
  BY <1>15, <1>16 DEF T
<1>18. e[1] \in Nat /\ e[2] = e[1] + 1 /\ Ends(t, e)
  BY <1>3, <1>6, <1>17
<1>19. Border(t, e[1])
  BY <1>18 DEF Border, Ends, Lower
<1>20. QED
  BY <1>1, <1>16, <1>18, <1>19 DEF at

\* So does the linear search.
LEMMA FirstBorderFinds ==
    ASSUME NEW t
    PROVE  Border(t, FirstBorder(t))
<1> DEFINE gaps == {i \in 0..MaxKey : GetInt(t, i + 1) = Nil}
<1>1. MaxKey \in Nat
  BY TableAssumption
<1>2. MaxKey \in gaps
  BY <1>1 DEF GetInt, Ints
<1>3. gaps \in SUBSET Nat
  BY <1>1
<1>4. Min(gaps) \in gaps /\ \A i \in gaps : Min(gaps) <= i
  <2> HIDE DEF gaps
  <2>1. QED
    BY <1>2, <1>3, LeastOne
<1>5. PICK n : n = Min(gaps)
  OBVIOUS
<1>6. n \in 0..MaxKey /\ GetInt(t, n + 1) = Nil /\ \A i \in gaps : n <= i
  BY <1>4, <1>5
<1>7. n = 0 \/ GetInt(t, n) # Nil
  <2> SUFFICES ASSUME n # 0, GetInt(t, n) = Nil
               PROVE  FALSE
    OBVIOUS
  <2>1. n - 1 \in 0..MaxKey /\ (n - 1) + 1 = n
    BY <1>1, <1>6
  <2>2. n - 1 \in gaps
    BY <2>1
  <2>3. n <= n - 1
    BY <1>6, <2>2
  <2>4. QED
    BY <1>6, <2>3
<1>8. FirstBorder(t) = n
  BY <1>5 DEF FirstBorder
<1>9. QED
  BY <1>6, <1>7, <1>8 DEF Border

\* So does unbound_search, also where the doubling leaves the integers.
LEMMA UnboundSearchFinds ==
    ASSUME NEW t, NEW start \in Nat, start = 0 \/ GetInt(t, start) # Nil
    PROVE  Border(t, UnboundSearch(t, start))
<1> DEFINE S == {e \in Nat \X Nat : Lower(t, e)}
           double(e) == IF GetInt(t, e[2]) = Nil \/ 2 * e[2] > MaxInt THEN e ELSE <<e[2], 2 * e[2]>>
           f(ends) == [n \in 0..MaxInt |-> IF n = 0 THEN <<start, start + 1>> ELSE double(ends[n - 1])]
           ends == CHOOSE ends : ends = f(ends)
           G == [n \in 1..MaxInt |-> [e \in S |-> double(e)]]
           N == MaxInt
<1>1. UnboundSearch(t, start) =
         IF GetInt(t, ends[N][2]) = Nil THEN Halve(t, ends[N][1], ends[N][2]) ELSE FirstBorder(t)
  BY Zenon DEF UnboundSearch
<1>2. N \in Nat /\ <<start, start + 1>> \in S
  BY TableAssumption DEF Lower
<1>3. \A e \in S : double(e) \in S
  <2> SUFFICES ASSUME NEW e \in S
               PROVE  double(e) \in S
    OBVIOUS
  <2>1. PICK x, y \in Nat : x = e[1] /\ y = e[2] /\ e = <<x, y>>
    OBVIOUS
  <2>2. x < y
    BY <2>1 DEF Lower
  <2>3. GetInt(t, y) # Nil => <<y, 2 * y>> \in S
    BY <2>2 DEF Lower
  <2>4. QED
    BY <2>1, <2>3
<1> HIDE DEF double, N, S
<1>4. Rounds(1..N, S, G) /\ \A n \in 1..N : \A e \in S : G[n][e] = double(e)
  BY <1>3 DEF Rounds, N
<1> HIDE DEF G, f
<1>5. PICK u : Passes(N, S, <<start, start + 1>>, G, u)
  BY <1>2, <1>4, Iterates
<1>6. u \in [0..N -> S] /\ u[0] = <<start, start + 1>>
  BY <1>5 DEF Passes
<1>7. \A n \in 1..N : u[n] = double(u[n - 1])
  <2>1. \A n \in 1..N : n - 1 \in 0..N /\ u[n - 1] \in S
    BY <1>2, <1>6
  <2>2. QED
    BY <1>4, <1>5, <2>1, Zenon DEF Passes, Follows
<1>8. u = f(u)
  <2>1. \A n \in 0..N : n = 0 \/ n \in 1..N
    BY <1>2
  <2>2. \A n \in 0..N : u[n] = IF n = 0 THEN <<start, start + 1>> ELSE double(u[n - 1])
    BY <1>6, <1>7, <2>1
  <2>3. QED
    BY <1>6, <2>2 DEF f, N
<1>9. ends = f(ends)
  BY <1>8, Zenon
<1> DEFINE at == ends
<1>10. \A n \in 0..N : at[n] = IF n = 0 THEN <<start, start + 1>> ELSE double(at[n - 1])
  BY <1>9 DEF f, N
<1> HIDE DEF ends, at
<1> DEFINE T == {n \in 0..N : at[n] \in S}
<1>11. 0 \in T /\ \A n \in 1..N : n - 1 \in T => n \in T
  <2>1. 0 \in 0..N /\ \A n \in 1..N : n \in 0..N /\ n # 0
    BY <1>2
  <2>2. 0 \in T
    BY <1>2, <1>10, <2>1
  <2>3. \A n \in 1..N : n - 1 \in T => n \in T
    BY <1>3, <1>10, <2>1
  <2>4. QED
    BY <2>2, <2>3
<1> HIDE DEF T
<1>12. N \in T
  <2>1. 0..N \subseteq T
    BY <1>2, <1>11, StepsTo
  <2>2. QED
    BY <1>2, <2>1
<1>13. PICK x, y \in Nat : x = at[N][1] /\ y = at[N][2] /\ at[N] = <<x, y>> /\ Lower(t, <<x, y>>)
  <2>1. PICK e : e = at[N]
    OBVIOUS
  <2>2. e \in Nat \X Nat /\ Lower(t, e)
    BY <1>12, <2>1 DEF T, S
  <2>3. PICK x, y \in Nat : e = <<x, y>>
    BY <2>2
  <2>4. QED
    BY <2>1, <2>2, <2>3
<1>14. CASE GetInt(t, y) = Nil
  <2>1. Ends(t, <<x, y>>)
    BY <1>13, <1>14 DEF Ends
  <2>2. Border(t, Halve(t, x, y))
    BY <2>1, HalveFinds
  <2>3. QED
    BY <1>1, <1>13, <1>14, <2>2 DEF at
<1>15. CASE GetInt(t, y) # Nil
  BY <1>1, <1>13, <1>15, FirstBorderFinds DEF at
<1>16. QED
  BY <1>14, <1>15

\* luaH_getn (ltable.cpp:560) returns a boundary of every table the program can build.
THEOREM LengthRight == Spec => []LengthIsBorder
<1>1. ASSUME IInv
      PROVE  LengthIsBorder
  <2>1. PICK j : j = Len(tab.array)
    OBVIOUS
  <2>2. /\ Good(hash, tab) /\ hash \in [Keys -> Nat] /\ j \in Nat /\ j <= MaxKey /\ MaxKey \in Nat
    BY <1>1, <2>1, GoodFacts, TableAssumption DEF IInv, Good
  <2>3. j > 0 => GetInt(tab, j) = tab.array[j]
    BY <2>1, <2>2 DEF GetInt, Get, InArray, Ints
  <2>4. CASE j > 0 /\ tab.array[j] = Nil
    <3>1. Ends(tab, <<0, j>>)
      BY <2>2, <2>3, <2>4 DEF Ends, Lower
    <3>2. GetN(tab) = Halve(tab, 0, j)
      BY <2>1, <2>4 DEF GetN
    <3>3. Border(tab, GetN(tab))
      BY <3>1, <3>2, HalveFinds
    <3>4. QED
      BY <3>3 DEF Border, LengthIsBorder
  <2>5. CASE ~(j > 0 /\ tab.array[j] = Nil) /\ tab.node = <<>>
    <3>1. GetN(tab) = j
      BY <2>1, <2>5 DEF GetN
    <3>2. GetInt(tab, j + 1) = Nil
      BY <2>1, <2>2, <2>5 DEF GetInt, Get, InArray, NodeOf
    <3>3. j = 0 \/ GetInt(tab, j) # Nil
      BY <2>2, <2>3, <2>5
    <3>4. QED
      BY <3>1, <3>2, <3>3 DEF LengthIsBorder
  <2>6. CASE ~(j > 0 /\ tab.array[j] = Nil) /\ tab.node # <<>>
    <3>1. GetN(tab) = UnboundSearch(tab, j)
      BY <2>1, <2>6 DEF GetN
    <3>2. j = 0 \/ GetInt(tab, j) # Nil
      BY <2>2, <2>3, <2>6
    <3>3. Border(tab, GetN(tab))
      BY <2>2, <3>1, <3>2, UnboundSearchFinds
    <3>4. QED
      BY <3>3 DEF Border, LengthIsBorder
  <2>7. QED
    BY <2>4, <2>5, <2>6
<1>2. QED
  BY <1>1, Invariant, PTL

\* The slots of a table with a value, by their indexes.
Total(t) == Len(t.array) + Len(t.node)
Live(t) == {i \in 1..Total(t) : Slot(t, i).val # Nil}

\* Every slot with a value has a key of its own, whose index findindex computes.
LEMMA SlotFacts ==
    ASSUME hash \in [Keys -> Nat], NEW t, Good(hash, t)
    PROVE  /\ Total(t) \in Nat
           /\ \A i \in Live(t) : /\ Slot(t, i).key \in Keys /\ Slot(t, i).val \in Keys
                                 /\ Found(t, Slot(t, i).key, Slot(t, i).val)
                                 /\ FindIndex(t, Slot(t, i).key) = i
           /\ \A k \in Keys : /\ FindIndex(t, k) \in 0..Total(t)
                              /\ \A x \in Keys : Found(t, k, x) =>
                                   FindIndex(t, k) \in Live(t) /\ Slot(t, FindIndex(t, k)).key = k
<1> DEFINE A == Len(t.array)
           N == Len(t.node)
           d == t.node
<1>1. /\ A \in Nat /\ N \in Nat /\ t.array \in Seq(Keys \cup {Nil}) /\ Linked(d) /\ A <= MaxKey
      /\ Sound(hash, d) /\ Nil \notin Keys /\ MaxKey \in Nat
      /\ Total(t) = A + N /\ Ids(d) = 1..N
  BY GoodFacts, TableAssumption DEF Good, Keys, Total, Ids
<1>2. \A k : InArray(t, k) => k \in 1..A /\ k \in Keys
  BY <1>1 DEF InArray, Ints, Keys
<1>3. \A k \in 1..A : InArray(t, k) /\ k # Nil
  BY <1>1, TableAssumption DEF InArray, Ints
<1>4. \A k \in Keys : /\ \A i \in Ids(d) : d[i].key = k => NodeOf(t, k) = i
                      /\ (\A i \in Ids(d) : d[i].key # k) => NodeOf(t, k) = 0
  BY <1>1, NodeOfFacts
<1>5. \A i \in 1..A : Slot(t, i).key = i /\ Slot(t, i).val = t.array[i]
  BY <1>1 DEF Slot, Entry
<1>6. \A i \in Ids(d) : /\ A + i \in 1..Total(t) /\ ~(A + i <= A) /\ (A + i) - A = i
                        /\ Slot(t, A + i).key = d[i].key /\ Slot(t, A + i).val = d[i].val
  <2> SUFFICES ASSUME NEW i \in Ids(d)
               PROVE  /\ A + i \in 1..Total(t) /\ ~(A + i <= A) /\ (A + i) - A = i
                      /\ Slot(t, A + i).key = d[i].key /\ Slot(t, A + i).val = d[i].val
    OBVIOUS
  <2>1. A + i \in 1..Total(t) /\ ~(A + i <= A) /\ (A + i) - A = i
    <3> HIDE DEF A, N, d
    <3>1. QED
      BY <1>1
  <2>2. QED
    BY <2>1 DEF Slot, Entry
<1>7. \A i \in 1..Total(t) : i \in 1..A \/ \E j \in Ids(d) : i = A + j
  <2> SUFFICES ASSUME NEW i \in 1..Total(t), i \notin 1..A
               PROVE  \E j \in Ids(d) : i = A + j
    OBVIOUS
  <2>1. i - A \in Ids(d) /\ i = A + (i - A)
    <3> HIDE DEF A, N, d
    <3>1. QED
      BY <1>1
  <2>2. QED
    BY <2>1
<1>8. \A j \in Ids(d) : /\ d[j].key \in Keys \cup {Nil} /\ d[j].val \in Keys \cup {Nil}
                        /\ d[j].key = Nil => d[j].val = Nil
                        /\ ~InArray(t, d[j].key)
  <2>1. \A j \in Ids(d) : ~InArray(t, d[j].key)
    BY DEF Good
  <2>2. QED
    BY <1>1, <2>1, LinkedFacts DEF Linked
<1>9. \A k : InArray(t, k) => FindIndex(t, k) = k
  BY <1>2, <1>3 DEF FindIndex
<1>10. \A k \in Keys : ~InArray(t, k) => FindIndex(t, k) = A + NodeOf(t, k)
  BY <1>1 DEF FindIndex
<1> HIDE DEF A, N, d
<1>11. ASSUME NEW i \in Live(t)
       PROVE  /\ Slot(t, i).key \in Keys /\ Slot(t, i).val \in Keys
              /\ Found(t, Slot(t, i).key, Slot(t, i).val)
              /\ FindIndex(t, Slot(t, i).key) = i
  <2>1. i \in 1..Total(t) /\ Slot(t, i).val # Nil
    BY DEF Live
  <2>2. CASE i \in 1..A
    <3>1. Slot(t, i).key = i /\ Slot(t, i).val = t.array[i] /\ InArray(t, i) /\ i \in Keys
      BY <1>2, <1>3, <1>5, <2>2
    <3>2. t.array[i] \in Keys
      BY <1>1, <2>1, <2>2, <3>1 DEF A
    <3>3. QED
      BY <1>9, <3>1, <3>2 DEF Found
  <2>3. ASSUME NEW j \in Ids(d), i = A + j
        PROVE  /\ Slot(t, i).key \in Keys /\ Slot(t, i).val \in Keys
               /\ Found(t, Slot(t, i).key, Slot(t, i).val)
               /\ FindIndex(t, Slot(t, i).key) = i
    <3>1. Slot(t, i).key = d[j].key /\ Slot(t, i).val = d[j].val
      BY <1>6, <2>3
    <3>2. d[j].key \in Keys /\ d[j].val \in Keys /\ ~InArray(t, d[j].key)
      BY <1>8, <2>1, <3>1
    <3>3. NodeOf(t, d[j].key) = j
      BY <1>4, <3>2
    <3>4. FindIndex(t, d[j].key) = i
      BY <1>10, <2>3, <3>2, <3>3
    <3>5. Found(t, d[j].key, d[j].val)
      BY <3>2 DEF Found, d
    <3>6. QED
      BY <3>1, <3>2, <3>4, <3>5
  <2>4. QED
    BY <1>7, <2>1, <2>2, <2>3
<1>12. ASSUME NEW k \in Keys
       PROVE  /\ FindIndex(t, k) \in 0..Total(t)
              /\ \A x \in Keys : Found(t, k, x) =>
                   FindIndex(t, k) \in Live(t) /\ Slot(t, FindIndex(t, k)).key = k
  <2>1. CASE InArray(t, k)
    <3>1. FindIndex(t, k) = k /\ k \in 1..A
      BY <1>2, <1>9, <2>1
    <3>2. k \in 1..Total(t)
      BY <1>1, <3>1
    <3>3. Slot(t, k).key = k /\ Slot(t, k).val = t.array[k]
      BY <1>5, <3>1
    <3>4. \A x \in Keys : Found(t, k, x) => k \in Live(t)
      BY <1>1, <2>1, <3>2, <3>3 DEF Found, Live
    <3>5. k \in 0..Total(t)
      BY <1>1, <3>2
    <3>6. QED
      BY <3>1, <3>3, <3>4, <3>5
  <2>2. ASSUME ~InArray(t, k), NEW j \in Ids(d), d[j].key = k
        PROVE  /\ FindIndex(t, k) \in 0..Total(t)
               /\ \A x \in Keys : Found(t, k, x) =>
                    FindIndex(t, k) \in Live(t) /\ Slot(t, FindIndex(t, k)).key = k
    <3>1. FindIndex(t, k) = A + j
      BY <1>4, <1>10, <2>2
    <3>2. A + j \in 1..Total(t) /\ Slot(t, A + j).key = k /\ Slot(t, A + j).val = d[j].val
      BY <1>6, <2>2
    <3>3. Found(t, k, d[j].val)
      BY <2>2 DEF Found, d
    <3>4. \A x \in Keys : Found(t, k, x) => x = d[j].val
      BY <3>3, FoundOnce
    <3>5. \A x \in Keys : Found(t, k, x) => A + j \in Live(t)
      BY <1>1, <3>2, <3>4 DEF Live
    <3>6. A + j \in 0..Total(t)
      BY <1>1, <3>2
    <3>7. QED
      BY <3>1, <3>2, <3>5, <3>6
  <2>3. ASSUME ~InArray(t, k), \A j \in Ids(d) : d[j].key # k
        PROVE  /\ FindIndex(t, k) \in 0..Total(t)
               /\ \A x \in Keys : Found(t, k, x) =>
                    FindIndex(t, k) \in Live(t) /\ Slot(t, FindIndex(t, k)).key = k
    <3>1. FindIndex(t, k) = A + 0
      BY <1>4, <1>10, <2>3
    <3>2. A + 0 \in 0..Total(t)
      BY <1>1
    <3>3. \A x \in Keys : ~Found(t, k, x)
      BY <1>1, <2>3 DEF Found, d
    <3>4. QED
      BY <3>1, <3>2, <3>3
  <2>4. QED
    BY <2>1, <2>2, <2>3
<1>13. Total(t) \in Nat
  BY <1>1
<1>14. QED
  BY <1>11, <1>12, <1>13

\* luaH_next returns the key of the first slot with a value after that of its argument,
\* which need not have a value any more.
LEMMA NextKeyFacts ==
    ASSUME hash \in [Keys -> Nat], NEW t, Good(hash, t), NEW k \in Keys \cup {Nil}
    PROVE  \/ NextKey(t, k) = Nil /\ \A i \in Live(t) : i <= FindIndex(t, k)
           \/ /\ NextKey(t, k) \in Keys
              /\ FindIndex(t, NextKey(t, k)) \in Live(t)
              /\ Slot(t, FindIndex(t, NextKey(t, k))).key = NextKey(t, k)
              /\ FindIndex(t, k) < FindIndex(t, NextKey(t, k))
              /\ \A i \in Live(t) : FindIndex(t, k) < i => FindIndex(t, NextKey(t, k)) <= i
<1>1. PICK p : p = FindIndex(t, k)
  OBVIOUS
<1>2. Total(t) \in Nat /\ p \in 0..Total(t)
  <2>1. CASE k = Nil
    BY <1>1, <2>1, SlotFacts DEF FindIndex
  <2>2. CASE k \in Keys
    BY <1>1, <2>2, SlotFacts
  <2>3. QED
    BY <2>1, <2>2
<1> DEFINE ahead == {i \in p + 1..Total(t) : Slot(t, i).val # Nil}
<1>3. NextKey(t, k) = IF ahead = {} THEN Nil ELSE Slot(t, Min(ahead)).key
  BY <1>1 DEF NextKey, Total
<1>4. \A i \in Live(t) : i \in Nat /\ (i <= p \/ i \in ahead)
  BY <1>2 DEF Live
<1>5. \A i \in ahead : i \in Live(t) /\ p < i /\ i \in Nat
  BY <1>2 DEF Live
<1> HIDE DEF ahead
<1>6. CASE ahead = {}
  BY <1>1, <1>3, <1>4, <1>6
<1>7. CASE ahead # {}
  <2>1. ahead \in SUBSET Nat
    BY <1>5
  <2>2. Min(ahead) \in ahead /\ \A i \in ahead : Min(ahead) <= i
    BY <1>7, <2>1, LeastOne
  <2>3. PICK m : m = Min(ahead)
    OBVIOUS
  <2>4. m \in Live(t) /\ p < m /\ \A i \in ahead : m <= i
    BY <1>5, <2>2, <2>3
  <2>5. NextKey(t, k) = Slot(t, m).key
    BY <1>3, <1>7, <2>3
  <2>6. Slot(t, m).key \in Keys /\ FindIndex(t, Slot(t, m).key) = m
    BY <2>4, SlotFacts
  <2>7. \A i \in Live(t) : p < i => i \in ahead
    BY <1>2, <1>4
  <2>8. QED
    BY <1>1, <2>4, <2>5, <2>6, <2>7
<1>8. QED
  BY <1>6, <1>7

\* The keys a traversal has given: in the order of their indexes, none left out.
Last(s) == IF s = <<>> THEN Nil ELSE s[Len(s)]
Seen(t, s) ==
    /\ s \in Seq(Keys)
    /\ \A i \in 1..Len(s) : FindIndex(t, s[i]) \in Live(t) /\ Slot(t, FindIndex(t, s[i])).key = s[i]
    /\ \A i, j \in 1..Len(s) : i < j => FindIndex(t, s[i]) < FindIndex(t, s[j])
    /\ \A q \in Live(t) : q <= FindIndex(t, Last(s)) => \E i \in 1..Len(s) : FindIndex(t, s[i]) = q
    /\ Len(s) <= FindIndex(t, Last(s))

Visit(t, s) == IF NextKey(t, Last(s)) = Nil THEN s ELSE Append(s, NextKey(t, Last(s)))

\* One round of a traversal sees one slot more, or it has seen all that have a value.
LEMMA Visits ==
    ASSUME hash \in [Keys -> Nat], NEW t, Good(hash, t), NEW s, Seen(t, s)
    PROVE  /\ Seen(t, Visit(t, s))
           /\ \/ Visit(t, s) = s /\ \A i \in Live(t) : i <= FindIndex(t, Last(s))
              \/ Len(Visit(t, s)) = Len(s) + 1
<1>1. PICK k, p : k = Last(s) /\ p = FindIndex(t, k)
  OBVIOUS
<1>2. s \in Seq(Keys) /\ Len(s) \in Nat
  BY DEF Seen
<1>3. k \in Keys \cup {Nil}
  <2>1. s # <<>> => Len(s) \in 1..Len(s)
    BY <1>2
  <2>2. s # <<>> => s[Len(s)] \in Keys
    BY <1>2, <2>1
  <2>3. QED
    BY <1>1, <2>2 DEF Last
<1>4. PICK z : z = NextKey(t, k)
  OBVIOUS
<1>5. \/ z = Nil /\ \A i \in Live(t) : i <= p
      \/ /\ z \in Keys /\ FindIndex(t, z) \in Live(t) /\ Slot(t, FindIndex(t, z)).key = z
         /\ p < FindIndex(t, z)
         /\ \A i \in Live(t) : p < i => FindIndex(t, z) <= i
  BY <1>1, <1>3, <1>4, NextKeyFacts
<1>6. CASE z = Nil
  <2>1. Visit(t, s) = s
    BY <1>1, <1>4, <1>6 DEF Visit
  <2>2. z \notin Keys
    BY <1>6, TableAssumption DEF Keys
  <2>3. QED
    BY <1>1, <1>5, <2>1, <2>2
<1>7. CASE z # Nil
  <2>1. z \in Keys /\ FindIndex(t, z) \in Live(t) /\ Slot(t, FindIndex(t, z)).key = z
        /\ p < FindIndex(t, z) /\ \A i \in Live(t) : p < i => FindIndex(t, z) <= i
    BY <1>5, <1>7
  <2>2. PICK r : r = Append(s, z)
    OBVIOUS
  <2>3. Visit(t, s) = r
    BY <1>1, <1>4, <1>7, <2>2 DEF Visit
  <2>4. r \in Seq(Keys) /\ Len(r) = Len(s) + 1 /\ r[Len(s) + 1] = z
        /\ \A i \in 1..Len(s) : r[i] = s[i]
    BY <1>2, <2>1, <2>2
  <2>5. /\ \A i \in 1..Len(r) : i = Len(s) + 1 \/ i \in 1..Len(s)
        /\ Len(s) + 1 \in 1..Len(r) /\ \A i \in 1..Len(s) : i \in 1..Len(r) /\ i # Len(s) + 1
    BY <1>2, <2>4
  <2>6. Last(r) = z
    <3>1. r # <<>>
      BY <1>2, <2>4
    <3>2. QED
      BY <2>4, <3>1 DEF Last
  <2>7. PICK q : q = FindIndex(t, z)
    OBVIOUS
  <2>8. /\ \A i \in Live(t) : i \in Nat
        /\ q \in Live(t) /\ p \in Nat /\ p < q /\ \A i \in Live(t) : p < i => q <= i
    <3>1. Total(t) \in Nat /\ \A x \in Keys : FindIndex(t, x) \in 0..Total(t)
      BY SlotFacts
    <3>2. k = Nil => p = 0
      BY <1>1 DEF FindIndex
    <3>3. p \in Nat
      BY <1>1, <1>3, <3>1, <3>2
    <3>4. QED
      BY <2>1, <2>7, <3>3 DEF Live
  <2>9. /\ \A i \in 1..Len(s) : FindIndex(t, s[i]) \in Live(t) /\ Slot(t, FindIndex(t, s[i])).key = s[i]
        /\ \A i, j \in 1..Len(s) : i < j => FindIndex(t, s[i]) < FindIndex(t, s[j])
        /\ \A x \in Live(t) : x <= p => \E i \in 1..Len(s) : FindIndex(t, s[i]) = x
        /\ Len(s) <= p
    BY <1>1 DEF Seen
  <2>10. \A i \in 1..Len(s) : FindIndex(t, s[i]) <= p
    <3> SUFFICES ASSUME NEW i \in 1..Len(s)
                 PROVE  FindIndex(t, s[i]) <= p
      OBVIOUS
    <3>1. s # <<>> /\ Len(s) \in 1..Len(s)
      BY <1>2
    <3>2. p = FindIndex(t, s[Len(s)])
      BY <1>1, <3>1 DEF Last
    <3>3. i = Len(s) \/ i < Len(s)
      BY <1>2
    <3>4. FindIndex(t, s[i]) \in Nat
      BY <2>8, <2>9
    <3>5. CASE i = Len(s)
      BY <2>8, <3>2, <3>5
    <3>6. CASE i < Len(s)
      <4>1. FindIndex(t, s[i]) < FindIndex(t, s[Len(s)])
        BY <2>9, <3>1, <3>6
      <4>2. QED
        BY <2>8, <3>2, <3>4, <4>1
    <3>7. QED
      BY <3>3, <3>5, <3>6
  <2>11. \A i \in 1..Len(r) : FindIndex(t, r[i]) \in Live(t) /\ Slot(t, FindIndex(t, r[i])).key = r[i]
    BY <2>1, <2>4, <2>5, <2>9
  <2>12. \A i, j \in 1..Len(r) : i < j => FindIndex(t, r[i]) < FindIndex(t, r[j])
    <3> SUFFICES ASSUME NEW i \in 1..Len(r), NEW j \in 1..Len(r), i < j
                 PROVE  FindIndex(t, r[i]) < FindIndex(t, r[j])
      OBVIOUS
    <3>1. i \in 1..Len(s)
      BY <1>2, <2>4
    <3>2. CASE j \in 1..Len(s)
      BY <2>4, <2>9, <3>1, <3>2
    <3>3. CASE j = Len(s) + 1
      <4>1. FindIndex(t, r[i]) <= p /\ FindIndex(t, r[i]) \in Nat /\ FindIndex(t, r[j]) = q /\ q \in Nat
        BY <2>4, <2>7, <2>8, <2>9, <2>10, <3>1, <3>3
      <4>2. QED
        BY <2>8, <4>1
    <3>4. QED
      BY <2>5, <3>2, <3>3
  <2>13. \A x \in Live(t) : x <= q => \E i \in 1..Len(r) : FindIndex(t, r[i]) = x
    <3> SUFFICES ASSUME NEW x \in Live(t), x <= q
                 PROVE  \E i \in 1..Len(r) : FindIndex(t, r[i]) = x
      OBVIOUS
    <3>1. CASE x <= p
      BY <2>4, <2>5, <2>9, <3>1
    <3>2. CASE ~(x <= p)
      <4>1. q <= x
        BY <2>8, <3>2
      <4>2. x = q
        BY <2>8, <4>1
      <4>3. QED
        BY <2>4, <2>5, <2>7, <4>2
    <3>3. QED
      BY <3>1, <3>2
  <2>14. Len(r) <= q
    BY <1>2, <2>4, <2>8, <2>9
  <2>15. Seen(t, r)
    BY <2>4, <2>6, <2>7, <2>11, <2>12, <2>13, <2>14 DEF Seen
  <2>16. QED
    BY <2>3, <2>4, <2>15
<1>8. QED
  BY <1>6, <1>7

\* A traversal of as many rounds as there are slots, and one more, has seen them all.
Traversal(t) ==
    LET visit[n \in 0 .. Len(t.array) + Len(t.node) + 1] ==
          IF n = 0 THEN <<>> ELSE Visit(t, visit[n - 1])
    IN  visit[Len(t.array) + Len(t.node) + 1]

\* A traversal with as many rounds as there are slots, and one more, has seen all.
LEMMA TraversalSees ==
    ASSUME hash \in [Keys -> Nat], NEW t, Good(hash, t)
    PROVE  /\ Seen(t, Traversal(t))
           /\ \A i \in Live(t) : i <= FindIndex(t, Last(Traversal(t)))
<1> DEFINE N == Len(t.array) + Len(t.node) + 1
           S == {s \in Seq(Keys) : Seen(t, s)}
           f(visit) == [n \in 0..N |-> IF n = 0 THEN <<>> ELSE Visit(t, visit[n - 1])]
           visit == CHOOSE visit : visit = f(visit)
           G == [n \in 1..N |-> [s \in S |-> Visit(t, s)]]
<1>1. Traversal(t) = visit[N]
  BY Zenon DEF Traversal
<1>2. N \in Nat /\ N = Total(t) + 1 /\ Total(t) \in Nat
  <2>1. PICK a, b \in Nat : a = Len(t.array) /\ b = Len(t.node)
    BY GoodFacts
  <2>2. Total(t) = a + b /\ N = a + b + 1
    BY <2>1 DEF Total
  <2> HIDE DEF N
  <2>3. QED
    BY <2>2
<1>3. <<>> \in S
  <2>1. <<>> \in Seq(Keys) /\ Len(<<>>) = 0 /\ Last(<<>>) = Nil
    BY DEF Last
  <2>2. FindIndex(t, Nil) = 0
    BY DEF FindIndex
  <2>3. \A q \in Live(t) : ~(q <= 0)
    BY DEF Live
  <2>4. QED
    BY <2>1, <2>2, <2>3 DEF Seen
<1>4. \A s \in S : /\ Visit(t, s) \in S
                   /\ \/ Visit(t, s) = s /\ \A i \in Live(t) : i <= FindIndex(t, Last(s))
                      \/ Len(Visit(t, s)) = Len(s) + 1
  <2> SUFFICES ASSUME NEW s \in S
               PROVE  /\ Visit(t, s) \in S
                      /\ \/ Visit(t, s) = s /\ \A i \in Live(t) : i <= FindIndex(t, Last(s))
                         \/ Len(Visit(t, s)) = Len(s) + 1
    OBVIOUS
  <2>1. /\ Seen(t, Visit(t, s))
        /\ \/ Visit(t, s) = s /\ \A i \in Live(t) : i <= FindIndex(t, Last(s))
           \/ Len(Visit(t, s)) = Len(s) + 1
    BY Visits
  <2>2. Visit(t, s) \in Seq(Keys)
    BY <2>1 DEF Seen
  <2>3. QED
    BY <2>1, <2>2
<1> HIDE DEF N
<1>5. Rounds(1..N, S, G) /\ \A n \in 1..N : \A s \in S : G[n][s] = Visit(t, s)
  BY <1>4 DEF Rounds
<1>6. \A s \in S : Seen(t, s) /\ Len(s) \in Nat
  OBVIOUS
<1> HIDE DEF S, G, f
<1>7. PICK u : Passes(N, S, <<>>, G, u)
  BY <1>2, <1>3, <1>5, Iterates
<1>8. u \in [0..N -> S] /\ u[0] = <<>>
  BY <1>7 DEF Passes
<1>9. \A n \in 1..N : u[n] = Visit(t, u[n - 1])
  <2>1. \A n \in 1..N : n - 1 \in 0..N /\ u[n - 1] \in S
    BY <1>2, <1>8
  <2>2. QED
    BY <1>5, <1>7, <2>1, Zenon DEF Passes, Follows
<1>10. u = f(u)
  <2>1. \A n \in 0..N : n = 0 \/ n \in 1..N
    BY <1>2
  <2>2. \A n \in 0..N : u[n] = IF n = 0 THEN <<>> ELSE Visit(t, u[n - 1])
    BY <1>8, <1>9, <2>1
  <2>3. QED
    BY <1>8, <2>2 DEF f
<1>11. visit = f(visit)
  BY <1>10, Zenon
<1> DEFINE at == visit
<1>12. \A n \in 0..N : at[n] = IF n = 0 THEN <<>> ELSE Visit(t, at[n - 1])
  BY <1>11 DEF f
<1> HIDE DEF visit, at
<1> DEFINE Done(s) == \A i \in Live(t) : i <= FindIndex(t, Last(s))
           T == {n \in 0..N : at[n] \in S /\ (Done(at[n]) \/ Len(at[n]) = n)}
<1> HIDE DEF Done
<1>13. 0 \in T
  <2>1. 0 \in 0..N /\ Len(<<>>) = 0
    BY <1>2
  <2>2. at[0] = <<>>
    BY <1>12, <2>1
  <2>3. QED
    BY <1>3, <2>1, <2>2
<1>14. ASSUME NEW n \in 1..N, n - 1 \in T
       PROVE  n \in T
  <2>1. n \in 0..N /\ n # 0
    BY <1>2
  <2>2. PICK x, y : x = at[n - 1] /\ y = at[n]
    OBVIOUS
  <2>3. y = Visit(t, x)
    BY <1>12, <2>1, <2>2
  <2>4. x \in S /\ (Done(x) \/ Len(x) = n - 1)
    BY <1>14, <2>2
  <2>5. y \in S /\ ((y = x /\ Done(x)) \/ Len(y) = Len(x) + 1)
    BY <1>4, <2>3, <2>4 DEF Done
  <2>6. Done(x) => Done(y)
    <3>1. CASE y = x
      BY <3>1
    <3>2. CASE y # x
      <4>1. NextKey(t, Last(x)) # Nil
        BY <2>3, <3>2 DEF Visit
      <4>2. Last(x) \in Keys \cup {Nil}
        <5>1. x \in Seq(Keys) /\ Len(x) \in Nat
          BY <1>6, <2>4 DEF Seen
        <5>2. x # <<>> => Len(x) \in 1..Len(x)
          BY <5>1
        <5>3. x # <<>> => x[Len(x)] \in Keys
          BY <5>1, <5>2
        <5>4. QED
          BY <5>3 DEF Last
      <4>3. PICK z : z = FindIndex(t, NextKey(t, Last(x)))
        OBVIOUS
      <4>4. z \in Live(t) /\ FindIndex(t, Last(x)) < z
        BY <4>1, <4>2, <4>3, NextKeyFacts
      <4>5. FindIndex(t, Last(x)) \in Nat
        <5>1. Last(x) = Nil => FindIndex(t, Last(x)) = 0
          BY DEF FindIndex
        <5>2. \A k \in Keys : FindIndex(t, k) \in 0..Total(t)
          BY SlotFacts
        <5>3. QED
          BY <1>2, <4>2, <5>1, <5>2
      <4>6. z \in Nat
        BY <4>4 DEF Live
      <4>7. ~Done(x)
        BY <4>4, <4>5, <4>6 DEF Done
      <4>8. QED
        BY <4>7
    <3>3. QED
      BY <3>1, <3>2
  <2>7. Done(y) \/ Len(y) = n
    <3>1. CASE Done(x)
      BY <2>6, <3>1
    <3>2. CASE ~Done(x)
      <4>1. Len(x) = n - 1 /\ Len(y) = Len(x) + 1
        BY <2>4, <2>5, <3>2
      <4>2. QED
        BY <1>2, <4>1
    <3>3. QED
      BY <3>1, <3>2
  <2>8. QED
    BY <2>1, <2>2, <2>5, <2>7
<1> HIDE DEF T
<1>15. N \in T
  <2>1. 0..N \subseteq T
    BY <1>2, <1>13, <1>14, StepsTo
  <2>2. QED
    BY <1>2, <2>1
<1>16. PICK s : s = at[N]
  OBVIOUS
<1>17. Seen(t, s) /\ Len(s) \in Nat /\ (Done(s) \/ Len(s) = N)
  BY <1>6, <1>15, <1>16 DEF T
<1>18. Len(s) # N
  <2> SUFFICES ASSUME Len(s) = N
               PROVE  FALSE
    OBVIOUS
  <2>1. s \in Seq(Keys) /\ s # <<>> /\ Len(s) \in 1..Len(s) /\ Len(s) <= FindIndex(t, Last(s))
    BY <1>2, <1>17 DEF Seen
  <2>2. Last(s) \in Keys
    BY <2>1 DEF Last
  <2>3. FindIndex(t, Last(s)) \in 0..Total(t)
    BY <2>2, SlotFacts
  <2>4. QED
    BY <1>2, <2>1, <2>3
<1>19. QED
  BY <1>1, <1>16, <1>17, <1>18 DEF Done, at

\* A traversal with luaH_next (ltable.cpp:169) gives every key with a value exactly once,
\* comes to an end, and can go on from every key that has a node.
THEOREM TraversalRight == Spec => []TraversalVisitsAll
<1>1. ASSUME IInv
      PROVE  TraversalVisitsAll
  <2>1. /\ Good(hash, tab) /\ hash \in [Keys -> Nat]
        /\ \A k \in Keys : Found(tab, k, content[k]) /\ content[k] \in {k, Nil}
    BY <1>1, TableAssumption DEF IInv
  <2>2. PICK seen : seen = Traversal(tab)
    OBVIOUS
  <2>3. Seen(tab, seen) /\ \A i \in Live(tab) : i <= FindIndex(tab, Last(seen))
    BY <2>1, <2>2, TraversalSees
  <2>4. /\ seen \in Seq(Keys) /\ Len(seen) \in Nat
        /\ \A i \in 1..Len(seen) : FindIndex(tab, seen[i]) \in Live(tab)
                                   /\ Slot(tab, FindIndex(tab, seen[i])).key = seen[i]
        /\ \A i, j \in 1..Len(seen) : i < j => FindIndex(tab, seen[i]) < FindIndex(tab, seen[j])
        /\ \A q \in Live(tab) : \E i \in 1..Len(seen) : FindIndex(tab, seen[i]) = q
        /\ Len(seen) <= FindIndex(tab, Last(seen))
    BY <2>3 DEF Seen
  <2>5. /\ Total(tab) \in Nat
        /\ \A i \in Live(tab) : /\ Slot(tab, i).key \in Keys /\ Slot(tab, i).val \in Keys
                                /\ Found(tab, Slot(tab, i).key, Slot(tab, i).val)
                                /\ FindIndex(tab, Slot(tab, i).key) = i
        /\ \A k \in Keys : /\ FindIndex(tab, k) \in 0..Total(tab)
                           /\ \A x \in Keys : Found(tab, k, x) =>
                                FindIndex(tab, k) \in Live(tab) /\ Slot(tab, FindIndex(tab, k)).key = k
    BY <2>1, SlotFacts
  <2>6. Nil \notin Keys
    BY TableAssumption DEF Keys
  <2>7. ASSUME NEW k \in Keys
        PROVE  content[k] # Nil <=> \E i \in 1..Len(seen) : seen[i] = k
    <3>1. ASSUME content[k] # Nil
          PROVE  \E i \in 1..Len(seen) : seen[i] = k
      <4>1. content[k] \in Keys /\ Found(tab, k, content[k])
        BY <2>1, <3>1
      <4>2. FindIndex(tab, k) \in Live(tab) /\ Slot(tab, FindIndex(tab, k)).key = k
        BY <2>5, <4>1
      <4>3. PICK i \in 1..Len(seen) : FindIndex(tab, seen[i]) = FindIndex(tab, k)
        BY <2>4, <4>2
      <4>4. seen[i] = k
        BY <2>4, <4>2, <4>3
      <4>5. QED
        BY <4>4
    <3>2. ASSUME NEW i \in 1..Len(seen), seen[i] = k
          PROVE  content[k] # Nil
      <4>1. PICK q : q = FindIndex(tab, k)
        OBVIOUS
      <4>2. q \in Live(tab) /\ Slot(tab, q).key = k
        BY <2>4, <3>2, <4>1
      <4>3. Slot(tab, q).val \in Keys /\ Found(tab, k, Slot(tab, q).val)
        BY <2>5, <4>2
      <4>4. content[k] = Slot(tab, q).val
        BY <2>1, <4>3, FoundOnce
      <4>5. QED
        BY <2>6, <4>3, <4>4
    <3>3. QED
      BY <3>1, <3>2
  <2>8. \A i, j \in 1..Len(seen) : seen[i] = seen[j] => i = j
    <3> SUFFICES ASSUME NEW i \in 1..Len(seen), NEW j \in 1..Len(seen), seen[i] = seen[j]
                 PROVE  i = j
      OBVIOUS
    <3>1. FindIndex(tab, seen[i]) \in Nat
      BY <2>4, <2>5 DEF Live
    <3>2. ~(i < j)
      <4> SUFFICES ASSUME i < j
                   PROVE  FALSE
        OBVIOUS
      <4>1. FindIndex(tab, seen[i]) < FindIndex(tab, seen[j])
        BY <2>4
      <4>2. QED
        BY <3>1, <4>1
    <3>3. ~(j < i)
      <4> SUFFICES ASSUME j < i
                   PROVE  FALSE
        OBVIOUS
      <4>1. FindIndex(tab, seen[j]) < FindIndex(tab, seen[i])
        BY <2>4
      <4>2. QED
        BY <3>1, <4>1
    <3>4. QED
      BY <2>4, <3>2, <3>3
  <2>9. Len(seen) <= Len(tab.array) + Len(tab.node)
    <3>1. Last(seen) \in Keys \cup {Nil}
      <4>1. seen # <<>> => Len(seen) \in 1..Len(seen)
        BY <2>4
      <4>2. seen # <<>> => seen[Len(seen)] \in Keys
        BY <2>4, <4>1
      <4>3. QED
        BY <4>2 DEF Last
    <3>2. FindIndex(tab, Nil) = 0
      BY DEF FindIndex
    <3>3. FindIndex(tab, Last(seen)) \in 0..Total(tab)
      BY <2>5, <3>1, <3>2
    <3>4. Len(seen) <= Total(tab)
      BY <2>4, <2>5, <3>3
    <3>5. QED
      BY <3>4 DEF Total
  <2>10. \A i \in 1..Len(tab.node) : tab.node[i].key # Nil => NodeOf(tab, tab.node[i].key) = i
    <3> SUFFICES ASSUME NEW i \in 1..Len(tab.node), tab.node[i].key # Nil
                 PROVE  NodeOf(tab, tab.node[i].key) = i
      OBVIOUS
    <3>1. Sound(hash, tab.node) /\ Linked(tab.node) /\ i \in Ids(tab.node)
      BY <2>1, GoodFacts DEF Ids
    <3>2. tab.node[i].key \in Keys
      BY <3>1, LinkedFacts
    <3>3. QED
      BY <2>1, <3>1, <3>2, NodeOfFacts
  <2>11. /\ \A k \in Keys : content[k] # Nil <=> \E i \in 1..Len(Traversal(tab)) : Traversal(tab)[i] = k
         /\ \A i, j \in 1..Len(Traversal(tab)) : Traversal(tab)[i] = Traversal(tab)[j] => i = j
         /\ Len(Traversal(tab)) <= Len(tab.array) + Len(tab.node)
         /\ \A i \in 1..Len(tab.node) : tab.node[i].key # Nil => NodeOf(tab, tab.node[i].key) = i
    BY <2>2, <2>7, <2>8, <2>9, <2>10
  <2>12. QED
    BY <2>11, Zenon DEF TraversalVisitsAll, Traversal, Visit, Last
<1>2. QED
  BY <1>1, Invariant, PTL
=============================================================================

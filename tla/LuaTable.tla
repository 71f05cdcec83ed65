------------------------------ MODULE LuaTable ------------------------------
(***************************************************************************)
(* The tables of Lua (ltable.cpp): an array part for positive integers and *)
(* a hash part, a chained scatter table whose chains run through the nodes *)
(* themselves.  Positions of nodes count from 1 and 0 is the null pointer; *)
(* the empty sequence of nodes is the shared dummynode.                    *)
(*                                                                         *)
(* Every operation is one step of a sequential program: the hazards are in *)
(* what a long sequence of operations makes of the layout.  A value stored *)
(* under a key is that key, which is enough to tell entries apart.         *)
(***************************************************************************)
EXTENDS Integers, Sequences, FiniteSetsExt

CONSTANTS MaxKey,   \* integer keys are 1..MaxKey
          Strings,  \* keys that are short strings
          Hashes,   \* the functions that may give the keys their hash values
          MaxBits,  \* the array part has at most 2^MaxBits slots (MAXBITS)
          MaxInt,   \* the largest index unbound_search doubles to (MAX_INT)
          Creates,  \* sizes <<narray, nrec>> a new table is created with
          Constructors, \* list items <<last, present>> of table constructors
          Nil

Ints == 1..MaxKey
Keys == Ints \cup Strings

twoto[n \in Nat] == IF n = 0 THEN 1 ELSE 2 * twoto[n - 1]

ASSUME TableAssumption ==
    /\ MaxKey \in Nat /\ MaxBits \in Nat /\ MaxInt \in Nat
    /\ twoto[MaxBits] < MaxInt /\ MaxInt <= MaxKey
    /\ \A k \in Ints : k # Nil /\ k \notin Strings
    /\ Nil \notin Strings
    /\ Creates \subseteq (0..twoto[MaxBits]) \X Nat
    /\ \A c \in Constructors : c[1] \in 1..twoto[MaxBits] /\ c[2] \subseteq 1..c[1]
    /\ \A f \in Hashes : f \in [Keys -> Nat]

VARIABLES tab,     \* the table: its array, its nodes, and lastfree
          hash,    \* the hash values, chosen once
          content  \* what the program has assigned (history)

vars == <<tab, hash, content>>

Node == [key : Keys \cup {Nil}, val : Keys \cup {Nil}, next : Nat]
EmptyNode == [key |-> Nil, val |-> Nil, next |-> 0]

-----------------------------------------------------------------------------
(* Looking up *)

\* mainposition: strings are masked, numbers avoid the power of two.
MainPosition(t, k) ==
    LET n == Len(t.node)
    IN  1 + (hash[k] % (IF k \in Strings \/ n = 1 THEN n ELSE n - 1))

\* gnext, again and again: at[n] is the node n steps after the i-th one, 0 past
\* the end of the chain.
Walk(node, i) ==
    LET at[n \in 0..Len(node)] ==
          IF n = 0 THEN i ELSE LET j == at[n - 1] IN IF j = 0 THEN 0 ELSE node[j].next
    IN  at

InArray(t, k) == k \in Ints /\ k <= Len(t.array)

\* The node of a key outside the array part, 0 for none.
NodeOf(t, k) ==
    IF t.node = <<>> THEN 0
    ELSE LET at == Walk(t.node, MainPosition(t, k))
             hits == {n \in 0..Len(t.node) : at[n] # 0 /\ t.node[at[n]].key = k}
         IN  IF hits = {} THEN 0 ELSE at[Min(hits)]

HasCell(t, k) == InArray(t, k) \/ NodeOf(t, k) # 0

Get(t, k) == IF InArray(t, k) THEN t.array[k]
             ELSE IF NodeOf(t, k) # 0 THEN t.node[NodeOf(t, k)].val ELSE Nil

GetInt(t, i) == IF i \in Ints THEN Get(t, i) ELSE Nil

-----------------------------------------------------------------------------
(* Storing *)

\* getfreepos: lastfree only moves down, past every node that has a key.
FreePos(t) ==
    LET free == {i \in 1..t.free : t.node[i].key = Nil}
    IN  IF free = {} THEN 0 ELSE Max(free)

Taken(t, k) == t.node[MainPosition(t, k)].val # Nil
HasRoom(t, k) == t.node # <<>> /\ (~Taken(t, k) \/ FreePos(t) # 0)

\* As it would be, had the reused cell lost its place in the chain.
PutInMainAlone(t, k, v) ==
    LET mp == MainPosition(t, k)
    IN  [t EXCEPT !.node[mp] = [key |-> k, val |-> v, next |-> 0]]

\* luaH_newkey where it need not grow the table.  A main position whose value
\* is nil keeps its place in the chain it belongs to; a colliding node that is
\* out of its own main position moves to the free one.
PutInMain(t, k, v) ==
    LET mp == MainPosition(t, k)
    IN  [t EXCEPT !.node[mp].key = k, !.node[mp].val = v]

PutInFree(t, k, v) ==
    LET mp == MainPosition(t, k)
        n == FreePos(t)
    IN  [t EXCEPT !.free = n - 1,
                  !.node[n] = [key |-> k, val |-> v, next |-> t.node[mp].next],
                  !.node[mp].next = n]

MoveColliding(t, k, v) ==
    LET mp == MainPosition(t, k)
        n == FreePos(t)
        at == Walk(t.node, MainPosition(t, t.node[mp].key))
        prev == at[Min({i \in 0..Len(t.node) : at[i] # 0 /\ t.node[at[i]].next = mp})]
    IN  [t EXCEPT !.free = n - 1,
                  !.node[prev].next = n,
                  !.node[n] = t.node[mp],
                  !.node[mp] = [key |-> k, val |-> v, next |-> 0]]

NewKey(t, k, v) ==
    LET mp == MainPosition(t, k)
    IN  IF ~Taken(t, k) THEN PutInMain(t, k, v)
        ELSE IF MainPosition(t, t.node[mp].key) # mp THEN MoveColliding(t, k, v)
        ELSE PutInFree(t, k, v)

\* Growing the table while entries are inserted again after growing it must not
\* happen; there it would be Overflow, which is no table.
Overflow == [array |-> <<>>, node |-> <<>>, free |-> -1]

\* luaH_set where the key has a cell or room.
Put(t, k, v) ==
    IF t = Overflow THEN t
    ELSE IF InArray(t, k) THEN [t EXCEPT !.array[k] = v]
    ELSE IF NodeOf(t, k) # 0 THEN [t EXCEPT !.node[NodeOf(t, k)].val = v]
    ELSE IF HasRoom(t, k) THEN NewKey(t, k, v) ELSE Overflow

-----------------------------------------------------------------------------
(* Growing *)

\* setnodevector: the least power of two, and every node free.
NodeSize(n) == IF n = 0 THEN 0
               ELSE twoto[Min({lg \in 0..n : twoto[lg] >= n})]

\* What luaH_resize inserts again: the slice the array loses, then the old nodes
\* from the last to the first.
Entry(k, v) == [key |-> k, val |-> v]
Olds(t, nasize) ==
    LET lost == IF nasize < Len(t.array) THEN Len(t.array) - nasize ELSE 0
        node(i) == t.node[lost + Len(t.node) - i + 1]
    IN  [i \in 1 .. lost + Len(t.node) |->
           IF i <= lost THEN Entry(nasize + i, t.array[nasize + i])
           ELSE Entry(node(i).key, node(i).val)]

Again(t, e) == IF e.val = Nil THEN t ELSE Put(t, e.key, e.val)

\* luaH_resize.
Resize(t, nasize, nhsize) ==
    LET new == [array |-> [i \in 1..nasize |->
                             IF i <= Len(t.array) THEN t.array[i] ELSE Nil],
                node |-> [i \in 1..NodeSize(nhsize) |-> EmptyNode],
                free |-> NodeSize(nhsize)]
        olds == Olds(t, nasize)
        after[n \in 0..Len(olds)] ==
          IF n = 0 THEN new ELSE Again(after[n - 1], olds[n])
    IN  after[Len(olds)]

\* numusearray, numusehash, countint: the keys in use, the extra one included,
\* and how many of them lie in each slice (2^(lg-1), 2^lg].
InUse(t, extra) ==
    {k \in Ints : InArray(t, k) /\ t.array[k] # Nil}
    \cup {t.node[i].key : i \in {j \in 1..Len(t.node) : t.node[j].val # Nil}}
    \cup {extra}
Candidates(used) == {k \in used \cap Ints : k <= twoto[MaxBits]}
Nums(used, lg) == Cardinality({k \in Candidates(used) : k <= twoto[lg] /\ 2 * k > twoto[lg]})

\* As it would be, had half of the slots been enough.
ComputeSizesHalf(used) ==
    LET loop[lg \in 0..MaxBits + 1] ==
          IF lg = 0 THEN [a |-> 0, n |-> 0, na |-> 0]
          ELSE LET so == loop[lg - 1]
                   a == so.a + Nums(used, lg - 1)
               IN  IF a >= twoto[lg - 1] \div 2 /\ a > 0
                   THEN [a |-> a, n |-> twoto[lg - 1], na |-> a] ELSE [so EXCEPT !.a = a]
    IN  loop[MaxBits + 1]

\* computesizes: the loop over the slices, with the elements counted so far, the
\* best size so far, and how many elements it takes.
ComputeSizes(used) ==
    LET narray == Cardinality(Candidates(used))
        loop[lg \in 0..MaxBits + 1] ==
          IF lg = 0 THEN [a |-> 0, n |-> 0, na |-> 0]
          ELSE LET so == loop[lg - 1]
                   size == twoto[lg - 1]
                   a == so.a + Nums(used, lg - 1)
               IN  IF size \div 2 >= narray \/ Nums(used, lg - 1) = 0 THEN so
                   ELSE IF a > size \div 2 THEN [a |-> a, n |-> size, na |-> a]
                   ELSE [so EXCEPT !.a = a]
    IN  loop[MaxBits + 1]

\* As it would be, had the key to insert not been counted.
RehashAsIs(t, extra) ==
    LET used == InUse(t, extra) \ {extra}
        sizes == ComputeSizes(used)
    IN  Resize(t, sizes.n, Cardinality(used) - sizes.na)

Rehash(t, extra) ==
    LET used == InUse(t, extra)
        sizes == ComputeSizes(used)
    IN  Resize(t, sizes.n, Cardinality(used) - sizes.na)

\* luaH_set, growing the table where luaH_newkey does.
SetKey(t, k, v) ==
    IF HasCell(t, k) \/ HasRoom(t, k) THEN Put(t, k, v) ELSE Put(Rehash(t, k), k, v)

-----------------------------------------------------------------------------
(* Traversal and length *)

\* As it would be, had integer keys been taken for array slots wherever they are.
FindIndexByKey(t, k) ==
    IF k = Nil THEN 0
    ELSE IF k \in Ints THEN k ELSE Len(t.array) + NodeOf(t, k)

\* findindex: array slots first, then nodes.
FindIndex(t, k) ==
    IF k = Nil THEN 0
    ELSE IF InArray(t, k) THEN k ELSE Len(t.array) + NodeOf(t, k)

Slot(t, i) ==
    IF i <= Len(t.array) THEN Entry(i, t.array[i])
    ELSE Entry(t.node[i - Len(t.array)].key, t.node[i - Len(t.array)].val)

\* luaH_next: the key of the first entry after k's index, Nil at the end.
NextKey(t, k) ==
    LET ahead == {i \in FindIndex(t, k) + 1 .. Len(t.array) + Len(t.node) :
                    Slot(t, i).val # Nil}
    IN  IF ahead = {} THEN Nil ELSE Slot(t, Min(ahead)).key

\* The halving both searches for a boundary share: the lower end is present or 0,
\* the upper end is not.
Halve(t, low, high) ==
    LET ends[n \in 0..high - low] ==
          IF n = 0 THEN <<low, high>>
          ELSE LET e == ends[n - 1]
                   m == (e[1] + e[2]) \div 2
               IN  IF e[2] - e[1] <= 1 THEN e
                   ELSE IF GetInt(t, m) = Nil THEN <<e[1], m>> ELSE <<m, e[2]>>
    IN  ends[high - low][1]

\* Linear search, for tables in which the doubling of j leaves the integers.
FirstBorder(t) == Min({i \in 0..MaxKey : GetInt(t, i + 1) = Nil})

UnboundSearch(t, start) ==
    LET ends[n \in 0..MaxInt] ==
          IF n = 0 THEN <<start, start + 1>>
          ELSE LET e == ends[n - 1]
               IN  IF GetInt(t, e[2]) = Nil \/ 2 * e[2] > MaxInt THEN e ELSE <<e[2], 2 * e[2]>>
        last == ends[MaxInt]
    IN  IF GetInt(t, last[2]) = Nil THEN Halve(t, last[1], last[2]) ELSE FirstBorder(t)

\* As it would be, had a full array part been the whole list.
GetNOfArray(t) ==
    LET j == Len(t.array)
    IN  IF j > 0 /\ t.array[j] = Nil THEN Halve(t, 0, j)
        ELSE IF j > 0 \/ t.node = <<>> THEN j ELSE UnboundSearch(t, j)

GetN(t) ==
    LET j == Len(t.array)
    IN  IF j > 0 /\ t.array[j] = Nil THEN Halve(t, 0, j)
        ELSE IF t.node = <<>> THEN j ELSE UnboundSearch(t, j)

-----------------------------------------------------------------------------
(* The program *)

NewTable == [array |-> <<>>, node |-> <<>>, free |-> 0]

\* luaH_new, and luaH_resize for OP_NEWTABLE and lua_createtable.
Init ==
    /\ hash \in Hashes
    /\ \E s \in Creates : tab = Resize(NewTable, s[1], s[2])
    /\ content = [k \in Keys |-> Nil]

\* An assignment; a key that is new gets a cell also when nil is assigned.
Assign(k) ==
    /\ \E v \in {k, Nil} : /\ tab' = SetKey(tab, k, v)
                           /\ content' = [content EXCEPT ![k] = v]
    /\ UNCHANGED hash

\* OP_SETLIST: the array part is made large enough at once, then the items are
\* stored from the last to the first; present are those that are not nil.
SetList(last, present) ==
    LET grown == IF last > Len(tab.array)
                 THEN Resize(tab, last, Len(tab.node)) ELSE tab
        item(i) == IF i \in present THEN i ELSE Nil
        after[n \in 0..last] ==
          IF n = 0 THEN grown ELSE SetKey(after[n - 1], last - n + 1, item(last - n + 1))
    IN  /\ tab' = after[last]
        /\ content' = [k \in Keys |-> IF k \notin 1..last THEN content[k]
                                      ELSE IF k \in present THEN k ELSE Nil]
        /\ UNCHANGED hash

Next ==
    \/ \E k \in Keys : Assign(k)
    \/ \E c \in Constructors : SetList(c[1], c[2])

Spec == Init /\ [][Next]_vars

-----------------------------------------------------------------------------
(* Properties *)

\* The table is well-formed, and no insertion after growing found it full.
TypeOK ==
    /\ tab.array \in Seq(Ints \cup {Nil})
    /\ tab.node \in Seq(Node)
    /\ tab.free \in 0..Len(tab.node)
    /\ \A i \in 1..Len(tab.node) : /\ tab.node[i].next \in 0..Len(tab.node)
                                   /\ Walk(tab.node, i)[Len(tab.node)] = 0
    /\ hash \in Hashes
    /\ content \in [Keys -> Keys \cup {Nil}]

\* luaH_get finds under every key exactly what the program last assigned to it,
\* wherever collisions, freed cells and growing have moved it.
LooksUp == \A k \in Keys : Get(tab, k) = content[k]

\* Growing makes the array part the largest power of two of which more than half
\* is in use (ltable.cpp:11), and leaves the hash part no smaller than the rest.
GrowsToHalfFull ==
    [][\A k \in Keys :
         ~HasCell(tab, k) /\ ~HasRoom(tab, k) /\ Assign(k) =>
           LET used == InUse(tab, k)
               full == {n \in {twoto[lg] : lg \in 0..MaxBits} :
                          2 * Cardinality(used \cap 1..n) > n}
           IN  /\ Len(tab'.array) = (IF full = {} THEN 0 ELSE Max(full))
               /\ Len(tab'.node) >= Cardinality(used \ (1..Len(tab'.array)))]_vars

\* A traversal with luaH_next, as long as cells stay where they are, gives every
\* key with a value once and comes to an end, and it can go on from every key that
\* has a cell, also where the value was cleared.
TraversalVisitsAll ==
    LET visit[n \in 0 .. Len(tab.array) + Len(tab.node) + 1] ==
          IF n = 0 THEN <<>>
          ELSE LET before == visit[n - 1]
                   k == NextKey(tab, IF before = <<>> THEN Nil ELSE before[Len(before)])
               IN  IF k = Nil THEN before ELSE Append(before, k)
        seen == visit[Len(tab.array) + Len(tab.node) + 1]
    IN  /\ \A k \in Keys : content[k] # Nil <=> \E i \in 1..Len(seen) : seen[i] = k
        /\ \A i, j \in 1..Len(seen) : seen[i] = seen[j] => i = j
        /\ Len(seen) <= Len(tab.array) + Len(tab.node)
        /\ \A i \in 1..Len(tab.node) :
              tab.node[i].key # Nil => NodeOf(tab, tab.node[i].key) = i

\* luaH_getn returns a boundary (ltable.cpp:555) of every table, whatever holes
\* the array part has, also where the doubling search would leave the integers.
LengthIsBorder ==
    LET n == GetN(tab)
    IN  (n = 0 \/ GetInt(tab, n) # Nil) /\ GetInt(tab, n + 1) = Nil
=============================================================================

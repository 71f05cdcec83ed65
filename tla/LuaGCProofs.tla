---------------------------- MODULE LuaGCProofs ----------------------------
(***************************************************************************)
(* Proofs about the garbage collector of Lua, for any objects, any stack   *)
(* size and any casts.                                                     *)
(*                                                                         *)
(* The invariant is Phase(h, {}): the heap is in order and nothing sound   *)
(* refers to what is dead (Structure); in a mark phase nothing is dead and *)
(* black objects refer to no white one (Loose); at any other time whatever *)
(* does not have the current white is still ahead of the sweep (Sweeping). *)
(* The exceptions X of Phase(g, X) are black objects whose barrier has     *)
(* still to be called.                                                     *)
(*                                                                         *)
(* Inside atomic, Marking(g, P) says that every marked object but those of *)
(* P has been visited or is gray; at its end P is empty (Finished).        *)
(*                                                                         *)
(* The loops of the code are recursive functions in the model.  Iterates   *)
(* says that such a function exists, so that its rounds can be unfolded.   *)
(***************************************************************************)
EXTENDS LuaGC, FiniteSetTheorems, WellFoundedInduction, TLAPS

\* Induction on the naturals for a set: what contains 0 and with every n also n + 1
\* contains them all.
LEMMA Steps ==
    ASSUME NEW T, 0 \in T, \A n \in Nat : n \in T => n + 1 \in T
    PROVE  Nat \subseteq T
<1> DEFINE Out == {n \in Nat : n \notin T}
<1>1. SUFFICES ASSUME Out # {}
               PROVE  FALSE
  OBVIOUS
<1>2. PICK n \in Out : \A m \in Out : ~(<<m, n>> \in OpToRel(<, Nat))
  BY <1>1, WFMin, NatLessThanWellFounded
<1>3. n \in Nat /\ n # 0
  OBVIOUS
<1>4. n - 1 \in Nat /\ n - 1 < n /\ (n - 1) + 1 = n
  BY <1>3
<1>5. n - 1 \notin Out
  BY <1>2, <1>3, <1>4 DEF OpToRel
<1>6. n - 1 \in T
  BY <1>4, <1>5
<1>7. n \in T
  BY <1>4, <1>6
<1>8. QED
  BY <1>7

\* The same up to N.
LEMMA StepsTo ==
    ASSUME NEW N \in Nat, NEW T, 0 \in T, \A n \in 1..N : n - 1 \in T => n \in T
    PROVE  0..N \subseteq T
<1> DEFINE U == T \cup {n \in Nat : n > N}
<1>1. ASSUME NEW n \in Nat, n \in U
      PROVE  n + 1 \in U
  <2>1. CASE n + 1 > N
    BY <2>1
  <2>2. CASE n + 1 <= N
    <3>1. n \in T /\ n + 1 \in 1..N /\ (n + 1) - 1 = n
      BY <1>1, <2>2
    <3>2. n + 1 \in T
      BY <3>1
    <3>3. QED
      BY <3>2
  <2>3. QED
    BY <2>1, <2>2
<1>2. Nat \subseteq U
  <2>1. 0 \in U
    OBVIOUS
  <2> HIDE DEF U
  <2>2. QED
    BY <1>1, <2>1, Steps
<1>3. QED
  BY <1>2

\* The rounds of a loop as functions on a set S of states, up to the N-th or for ever,
\* and the states u it goes through from b on.
Rounds(D, S, G) == G \in [D -> [S -> S]]
ByRounds(N, G, u) == \A n \in 1..N : u[n] = G[n][u[n - 1]]
Runs(N, S, b, G, u) == u \in [0..N -> S] /\ u[0] = b /\ ByRounds(N, G, u)

\* There are such states.
LEMMA Iterates ==
    ASSUME NEW N \in Nat, NEW S, NEW b \in S, NEW G, Rounds(1..N, S, G)
    PROVE  \E u : Runs(N, S, b, G, u)
<1> DEFINE Is(u, n) == u \in [0..n -> S] /\ u[0] = b /\ \A m \in 1..n : u[m] = G[m][u[m - 1]]
           T == {n \in 0..N : \E u : Is(u, n)}
<1>1. 0 \in T
  <2>1. Is([m \in 0..0 |-> b], 0)
    OBVIOUS
  <2>2. 0 \in 0..N
    OBVIOUS
  <2>3. QED
    BY <2>1, <2>2
<1>2. ASSUME NEW n \in 1..N, n - 1 \in T
      PROVE  n \in T
  <2>1. PICK u : Is(u, n - 1)
    BY <1>2
  <2> DEFINE w == [m \in 0..n |-> IF m = n THEN G[n][u[n - 1]] ELSE u[m]]
  <2>2. u[n - 1] \in S
    BY <2>1
  <2>3. G[n] \in [S -> S]
    BY DEF Rounds
  <2>4. G[n][u[n - 1]] \in S
    BY <2>2, <2>3
  <2>5. \A m \in 0..n : m # n => m \in 0..n - 1 /\ u[m] \in S
    BY <2>1
  <2>6. w \in [0..n -> S]
    BY <2>4, <2>5
  <2>7. \A m \in 0..n - 1 : w[m] = u[m] /\ m \in 0..n
    OBVIOUS
  <2>8. w[n] = G[n][w[n - 1]]
    OBVIOUS
  <2>9. ASSUME NEW m \in 1..n
        PROVE  w[m] = G[m][w[m - 1]]
    <3>1. CASE m = n
      BY <2>8, <3>1
    <3>2. CASE m # n
      <4>1. m \in 1..n - 1 /\ m \in 0..n - 1 /\ m - 1 \in 0..n - 1
        BY <3>2
      <4>2. u[m] = G[m][u[m - 1]]
        BY <2>1, <4>1
      <4>3. QED
        BY <2>7, <4>1, <4>2
    <3>3. QED
      BY <3>1, <3>2
  <2>10. w[0] = b
    BY <2>1
  <2> HIDE DEF w
  <2>11. Is(w, n)
    BY <2>6, <2>9, <2>10
  <2>12. QED
    BY <2>11
<1>3. 0..N \subseteq T
  <2> HIDE DEF T
  <2>1. QED
    BY <1>1, <1>2, StepsTo
<1>4. N \in T
  BY <1>3
<1>5. QED
  BY <1>4 DEF Runs, ByRounds

-----------------------------------------------------------------------------
Colors == {"white0", "white1", "gray", "black"}
States == {"pause", "propagate", "atomic", "sweepstring", "sweepudata", "sweep"}
Heap ==
  [cast : [Objs -> CastOf], kind : [Bodies -> Kinds \cup {"free"}],
   val : [Bodies -> [Keys -> Objs \cup {Nil}]], at : [Objs -> (Bodies \X Regs) \cup {Nil}],
   col : [Bodies -> Colors], white : {"white0", "white1"}, state : States,
   full : {"no", "finish", "cycle"}, looped : BOOLEAN,
   gray : SUBSET Bodies, grayagain : SUBSET Bodies, weak : SUBSET Bodies,
   allweak : SUBSET Bodies, ephemeron : SUBSET Bodies,
   allgc : Seq(Objs), finobj : Seq(Objs), tobefnz : Seq(Objs), finalized : SUBSET Objs,
   sweepfin : Objs \cup {Nil}, sweepgc : Objs \cup {Nil}, strings : SUBSET Objs]

\* m is g but for colours, values and the lists of the mark phase.
Fixed(g, m) ==
  /\ m.cast = g.cast /\ m.kind = g.kind /\ m.at = g.at /\ m.white = g.white
  /\ m.state = g.state /\ m.full = g.full /\ m.allgc = g.allgc /\ m.finobj = g.finobj
  /\ m.tobefnz = g.tobefnz /\ m.finalized = g.finalized /\ m.sweepfin = g.sweepfin
  /\ m.sweepgc = g.sweepgc /\ m.strings = g.strings
SameLists(g, m) ==
  m.grayagain = g.grayagain /\ m.weak = g.weak /\ m.allweak = g.allweak /\ m.ephemeron = g.ephemeron

\* The live objects; those the sweep will not free; those that are marked.
Live(g) == {o \in Bodies : g.kind[o] # "free"}
Sound(g) == {o \in Live(g) : g.col[o] # Other(g.white)}
NonWhite(g) == {o \in Bodies : ~IsWhite(g, o)}

\* All that o refers to is in S.
ValuesIn(g, o, S) == \A k \in Keys : g.val[o][k] \in S \cup {Nil}
KeysIn(g, o, S) == \A k \in Objs : g.val[o][k] # Nil => k \in S
UpIn(g, o, S) == g.kind[o] = "open" => UpValue(g, o) \in S \cup {Nil}
RefsIn(g, o, S) == ValuesIn(g, o, S) /\ KeysIn(g, o, S) /\ UpIn(g, o, S)

\* The keys under which an object may have values.
Room(g, o) ==
  IF o = Main THEN Slots
  ELSE IF g.kind[o] \in Tables THEN {1} \cup Objs
  ELSE IF g.kind[o] \in {"udata", "closed", "cclosure", "thread", "proto"} THEN {1}
  ELSE IF g.kind[o] = "lclosure" THEN {1, 2} ELSE {}

NeverBlack == {"free", "weakvalue", "ephemeron", "allweak", "thread", "open"}
Cast(g) ==
  \A o \in Objs : g.kind[o] # "free" =>
    g.cast[o].kind = (IF g.kind[o] = "closed" THEN "open" ELSE g.kind[o])
Roomy(g) == \A o \in Bodies, k \in Keys : g.val[o][k] # Nil => k \in Room(g, o)
Opened(g) ==
  /\ \A o \in Objs : g.at[o] # Nil <=> g.kind[o] = "open"
  /\ \A o \in Objs : g.kind[o] = "open" =>
       /\ g.kind[g.at[o][1]] = "thread" /\ g.at[o][2] \in Room(g, g.at[o][1])
       /\ \A u \in Objs : g.at[u] = g.at[o] => u = o
Colored(g) ==
  /\ \A o \in Bodies : g.kind[o] = "free" => g.col[o] = "gray"
  /\ \A o \in Bodies : g.kind[o] \in NeverBlack => g.col[o] # "black"
Shaped(g) == g.kind[Main] = "thread" /\ Cast(g) /\ Roomy(g) /\ Opened(g) /\ Colored(g)

Distinct(s) == \A i, j \in 1..Len(s) : s[i] = s[j] => i = j
Apart(s, t) == Range(s) \cap Range(t) = {}
Listed(g) ==
  /\ Distinct(g.allgc) /\ Distinct(g.finobj) /\ Distinct(g.tobefnz)
  /\ Apart(g.allgc, g.finobj) /\ Apart(g.allgc, g.tobefnz) /\ Apart(g.finobj, g.tobefnz)
  /\ \A o \in Objs : g.kind[o] \notin {"free", "string", "open"} <=>
        o \in Range(g.allgc) \cup Range(g.finobj) \cup Range(g.tobefnz)
  /\ \A o \in Range(g.finobj) \cup Range(g.tobefnz) : g.cast[o].gc

Roots(g) == {Main} \cup Range(g.finobj) \cup Range(g.tobefnz)
Closing(g, o) ==
  g.kind[o] = "lclosure" => g.val[o][2] # Nil /\ g.kind[g.val[o][2]] \in {"open", "closed"}
Solid(g) ==
  /\ \A o \in Sound(g) : RefsIn(g, o, Sound(g)) /\ Closing(g, o)
  /\ Roots(g) \subseteq Sound(g)

Core(g) == g \in Heap /\ Shaped(g) /\ Listed(g) /\ Solid(g) /\ Live(g) = Sound(g)

GrayLists(g) == g.gray \cup g.grayagain \cup g.weak \cup g.allweak \cup g.ephemeron
Filed(g) ==
  /\ \A o \in GrayLists(g) : ~IsWhite(g, o) /\ g.kind[o] \notin {"free", "string", "udata", "open", "closed"}
  /\ \A o \in g.weak : g.kind[o] = "weakvalue"
  /\ \A o \in g.ephemeron : g.kind[o] = "ephemeron"
  /\ \A o \in g.allweak : g.kind[o] \in {"allweak", "ephemeron"}

\* m is g with more objects marked, or entries of weak tables cleared.
Follows(g, m) ==
  /\ m \in Heap /\ Fixed(g, m)
  /\ \A o \in Bodies : m.col[o] = g.col[o] \/ m.col[o] \in {"gray", "black"}
  /\ \A o \in Bodies : g.kind[o] \in NeverBlack => m.col[o] # "black"
  /\ \A o \in Bodies, k \in Keys :
       m.val[o][k] = g.val[o][k] \/ (m.val[o][k] = Nil /\ g.kind[o] \in Tables \cup {"proto"})

\* What Heap says of its fields.
LEMMA HeapTypes ==
    ASSUME NEW g \in Heap
    PROVE  /\ g.cast \in [Objs -> CastOf] /\ g.kind \in [Bodies -> Kinds \cup {"free"}]
           /\ g.val \in [Bodies -> [Keys -> Objs \cup {Nil}]]
           /\ g.at \in [Objs -> (Bodies \X Regs) \cup {Nil}] /\ g.col \in [Bodies -> Colors]
           /\ g.white \in {"white0", "white1"} /\ g.state \in States /\ g.looped \in BOOLEAN
           /\ g.gray \subseteq Bodies /\ GrayLists(g) \subseteq Bodies
           /\ g.allgc \in Seq(Objs) /\ g.finobj \in Seq(Objs) /\ g.tobefnz \in Seq(Objs)
           /\ g.finalized \subseteq Objs /\ g.strings \subseteq Objs
           /\ g.full \in {"no", "finish", "cycle"}
           /\ g.sweepfin \in Objs \cup {Nil} /\ g.sweepgc \in Objs \cup {Nil}
BY DEF Heap, GrayLists

\* What the assumption says of the addresses.
LEMMA Names ==
    /\ Main \in Bodies /\ Objs \subseteq Bodies /\ Nil \notin Bodies /\ Main \notin Objs
    /\ Nil \notin Objs /\ Nil \notin Keys /\ Slots \subseteq Keys /\ Objs \subseteq Keys
    /\ 1 \in Regs /\ 1 \in Keys /\ 0 \in Keys /\ 0 \in Slots /\ 1 \in Slots /\ Regs \subseteq Slots
    /\ Slots \cap Objs = {} /\ 1 \notin Objs /\ 2 \notin Objs /\ Main \notin Slots
    /\ Keys = Slots \cup Objs /\ NSlots \in Nat /\ 2 \in Slots /\ 2 \in Keys
<1>1. /\ 1 \in Regs /\ 1 \in Slots /\ 0 \in Slots /\ 2 \in Slots /\ Regs \subseteq Slots
      /\ NSlots \in Nat
  BY GCAssumption DEF Regs, Slots
<1>2. QED
  BY <1>1, GCAssumption DEF Bodies, Keys

\* The objects Mark marks: the white ones of V and, with an object that passes its mark
\* on, what it refers to.
LEMMA MarkedFacts ==
    ASSUME NEW g, NEW V
    PROVE  /\ Marked(g, V) \subseteq Whites(g) /\ V \cap Whites(g) \subseteq Marked(g, V)
           /\ \A o \in Marked(g, V) : g.kind[o] \in {"udata", "closed", "open"} =>
                Passes(g, o) \cap Whites(g) \subseteq Marked(g, V)
<1> DEFINE passing == {o \in Whites(g) : g.kind[o] \in {"udata", "closed", "open"}}
           closed(S) == \A o \in passing : o \in V \/ (\E x \in S : o \in Passes(g, x)) => o \in S
           all == {o \in passing : \A S \in SUBSET passing : closed(S) => o \in S}
<1>1. Marked(g, V) = Whites(g) \cap (V \cup UNION {Passes(g, o) : o \in all})
  BY Zenon DEF Marked
<1>2. ASSUME NEW o \in passing, o \in V \/ \E x \in all : o \in Passes(g, x)
      PROVE  o \in all
  <2>1. ASSUME NEW S \in SUBSET passing, closed(S)
        PROVE  o \in S
    <3>1. CASE o \in V
      BY <2>1, <3>1
    <3>2. ASSUME NEW x \in all, o \in Passes(g, x)
          PROVE  o \in S
      <4>1. x \in S
        BY <2>1, <3>2
      <4>2. QED
        BY <2>1, <3>2, <4>1
    <3>3. QED
      BY <1>2, <3>1, <3>2
  <2>2. QED
    BY <2>1
<1> HIDE DEF all
<1>3. ASSUME NEW o \in Marked(g, V), g.kind[o] \in {"udata", "closed", "open"}
      PROVE  Passes(g, o) \cap Whites(g) \subseteq Marked(g, V)
  <2>1. o \in passing /\ (o \in V \/ \E x \in all : o \in Passes(g, x))
    BY <1>1, <1>3
  <2>2. o \in all
    BY <1>2, <2>1
  <2>3. QED
    BY <1>1, <2>2
<1>4. QED
  BY <1>1, <1>3

\* m is g with the objects of W marked.
Paints(g, m, W) ==
  /\ m \in Heap /\ Fixed(g, m) /\ SameLists(g, m) /\ m.val = g.val /\ m.looped = g.looped
  /\ W \subseteq Whites(g)
  /\ m.col = [o \in Bodies |-> IF o \notin W THEN g.col[o]
                               ELSE IF g.kind[o] \in Blackened THEN "black" ELSE "gray"]
  /\ m.gray = g.gray \cup {o \in W : g.kind[o] \notin Blackened \cup {"open"}}
  /\ \A o \in W : g.kind[o] \in {"udata", "closed", "open"} =>
       \A v \in Passes(g, o) : v \in Bodies => ~IsWhite(m, v)

\* reallymarkobject marks the white objects it is given, with all they pass the mark to.
LEMMA MarkPaints ==
    ASSUME NEW g \in Heap, NEW V
    PROVE  /\ Paints(g, Mark(g, V), Marked(g, V))
           /\ \A v \in V : v \in Bodies => ~IsWhite(Mark(g, V), v)
           /\ \A o \in Bodies : ~IsWhite(g, o) => ~IsWhite(Mark(g, V), o)
           /\ Whites(Mark(g, V)) = Whites(g) \ Marked(g, V)
<1> DEFINE W == Marked(g, V)
           m == Mark(g, V)
           c == [o \in Bodies |-> IF o \notin W THEN g.col[o]
                                  ELSE IF g.kind[o] \in Blackened THEN "black" ELSE "gray"]
           S == g.gray \cup {o \in W : g.kind[o] \notin Blackened \cup {"open"}}
<1>1. /\ W \subseteq Whites(g) /\ V \cap Whites(g) \subseteq W
      /\ \A o \in W : g.kind[o] \in {"udata", "closed", "open"} => Passes(g, o) \cap Whites(g) \subseteq W
  BY MarkedFacts
<1>2. m = [g EXCEPT !.col = c, !.gray = S]
  BY Zenon DEF Mark, Paint
<1> HIDE DEF W, m
<1>3. c \in [Bodies -> Colors] /\ S \in SUBSET Bodies
  BY <1>1, HeapTypes DEF Colors, Whites
<1>4. /\ m \in Heap /\ m.col = c /\ m.gray = S /\ Fixed(g, m) /\ SameLists(g, m)
      /\ m.val = g.val /\ m.looped = g.looped
  <2> HIDE DEF c, S
  <2>1. QED
    BY <1>2, <1>3 DEF Heap, Fixed, SameLists
<1>5. \A o \in Bodies : IsWhite(m, o) <=> IsWhite(g, o) /\ o \notin W
  BY <1>4 DEF IsWhite
<1>6. Paints(g, m, W)
  BY <1>1, <1>4, <1>5 DEF Paints, Whites
<1>7. \A v \in V : v \in Bodies => ~IsWhite(m, v)
  BY <1>1, <1>5 DEF Whites
<1>8. Whites(m) = Whites(g) \ W
  BY <1>5 DEF Whites
<1>9. QED
  BY <1>5, <1>6, <1>7, <1>8 DEF W, m

\* Where an open upvalue stands.
LEMMA OpenAt ==
    ASSUME NEW g \in Heap, Opened(g), NEW o \in Objs, g.kind[o] = "open"
    PROVE  /\ g.at[o] \in Bodies \X Regs /\ g.at[o][1] \in Bodies /\ g.at[o][2] \in Regs
           /\ g.at[o][2] \in Keys /\ g.kind[g.at[o][1]] = "thread"
           /\ g.at[o][2] \in Room(g, g.at[o][1])
<1>1. g.at[o] \in Bodies \X Regs
  BY HeapTypes DEF Opened
<1>2. QED
  BY <1>1, Names DEF Opened

\* Marking changes no value an open upvalue stands for.
LEMMA FollowsUp ==
    ASSUME NEW g \in Heap, Shaped(g), NEW m, Follows(g, m), NEW o \in Bodies, g.kind[o] = "open"
    PROVE  UpValue(m, o) = UpValue(g, o)
<1>1. o \in Objs
  BY DEF Bodies, Shaped
<1>2. PICK t, s : t = g.at[o][1] /\ s = g.at[o][2]
  OBVIOUS
<1>3. t \in Bodies /\ s \in Keys /\ g.kind[t] = "thread"
  BY <1>1, <1>2, OpenAt DEF Shaped
<1>4. m.val[t][s] = g.val[t][s]
  BY <1>3 DEF Follows, Tables
<1>5. QED
  BY <1>2, <1>4 DEF UpValue, Follows, Fixed

\* Marking keeps the heap in order.
LEMMA FollowsCore ==
    ASSUME NEW g, NEW m, Core(g), Follows(g, m)
    PROVE  Core(m)
<1>1. /\ g \in Heap /\ Shaped(g) /\ Listed(g) /\ Solid(g) /\ Live(g) = Sound(g)
      /\ m \in Heap /\ Fixed(g, m)
  BY DEF Core, Follows
<1>2. Live(m) = Live(g) /\ Sound(m) = Live(m)
  BY <1>1 DEF Live, Sound, Follows, Fixed, Other
<1>3. \A o \in Bodies : Room(m, o) = Room(g, o)
  BY <1>1 DEF Room, Fixed
<1>4. Shaped(m)
  <2>1. Cast(m) /\ Roomy(m) /\ m.kind[Main] = "thread"
    BY <1>1, <1>3 DEF Shaped, Cast, Roomy, Follows, Fixed
  <2>2. Opened(m)
    BY <1>1, <1>3, HeapTypes DEF Shaped, Opened, Fixed
  <2>3. Colored(m)
    BY <1>1 DEF Shaped, Colored, Follows, Fixed, NeverBlack
  <2>4. QED
    BY <2>1, <2>2, <2>3 DEF Shaped
<1>5. Listed(m)
  BY <1>1 DEF Listed, Fixed
<1>6. Solid(m)
  <2>1. Roots(m) \subseteq Sound(m)
    BY <1>1, <1>2 DEF Solid, Roots, Fixed
  <2>2. ASSUME NEW o \in Sound(m)
        PROVE  RefsIn(m, o, Sound(m)) /\ Closing(m, o)
    <3>1. o \in Sound(g) /\ o \in Bodies
      BY <1>1, <1>2 DEF Live
    <3>2. RefsIn(g, o, Sound(m)) /\ Closing(g, o)
      BY <1>1, <1>2, <3>1 DEF Solid
    <3>3. ValuesIn(m, o, Sound(m)) /\ KeysIn(m, o, Sound(m))
      BY <3>1, <3>2, Names DEF Follows, RefsIn, ValuesIn, KeysIn
    <3>4. UpIn(m, o, Sound(m))
      BY <1>1, <3>1, <3>2, FollowsUp DEF UpIn, RefsIn, Fixed
    <3>5. Closing(m, o)
      <4>1. g.kind[o] = "lclosure" => m.val[o][2] = g.val[o][2]
        BY <3>1, Names DEF Follows, Tables
      <4>2. QED
        BY <1>1, <3>2, <4>1 DEF Closing, Fixed
    <3>6. QED
      BY <3>3, <3>4, <3>5 DEF RefsIn
  <2>3. QED
    BY <2>1, <2>2 DEF Solid
<1>7. QED
  BY <1>1, <1>2, <1>4, <1>5, <1>6 DEF Core

\* What the mark phase has done with o once it has visited it: nothing o refers to
\* is white but what the end of the phase will clear.
Done(g, o) ==
  /\ g.kind[o] = "weakvalue" =>
       KeysIn(g, o, NonWhite(g)) /\ (ValuesIn(g, o, NonWhite(g)) \/ o \in g.weak)
  /\ g.kind[o] = "allweak" => o \in g.allweak
  /\ g.kind[o] = "ephemeron" =>
       \/ o \in g.allweak \/ RefsIn(g, o, NonWhite(g))
       \/ o \in g.ephemeron /\ g.val[o][1] \in NonWhite(g) \cup {Nil}
  /\ g.kind[o] \notin {"weakvalue", "allweak", "ephemeron"} => RefsIn(g, o, NonWhite(g))

\* Every marked object has been visited, is gray, or is one of P.
Covered(g, P) == \A o \in Live(g) : ~IsWhite(g, o) /\ o \notin g.gray \cup P => Done(g, o)
Marking(g, P) == Core(g) /\ Filed(g) /\ Covered(g, P)

Grows(g, m) ==
  /\ Follows(g, m)
  /\ g.weak \subseteq m.weak /\ g.allweak \subseteq m.allweak /\ g.ephemeron \subseteq m.ephemeron
  /\ g.grayagain \subseteq m.grayagain

\* Marking makes no object white again.
LEMMA FollowsWhite ==
    ASSUME NEW g \in Heap, NEW m, Follows(g, m)
    PROVE  /\ NonWhite(g) \subseteq NonWhite(m) /\ Whites(m) \subseteq Whites(g)
           /\ m.kind = g.kind /\ Live(m) = Live(g) /\ Nil \notin NonWhite(g)
           /\ \A o \in Bodies : ~IsWhite(g, o) => ~IsWhite(m, o)
           /\ \A o \in Bodies : o \in Whites(m) <=> o \notin NonWhite(m)
BY Names DEF NonWhite, Whites, Follows, Fixed, IsWhite, Live

\* Marking adds no reference.
LEMMA FollowsRefs ==
    ASSUME NEW g, NEW m, Core(g), Follows(g, m), NEW o \in Bodies, NEW S, NEW T, S \subseteq T
    PROVE  /\ ValuesIn(g, o, S) => ValuesIn(m, o, T)
           /\ KeysIn(g, o, S) => KeysIn(m, o, T)
           /\ UpIn(g, o, S) => UpIn(m, o, T)
           /\ RefsIn(g, o, S) => RefsIn(m, o, T)
<1>1. g \in Heap /\ Shaped(g) /\ g.kind = m.kind
  BY DEF Core, Follows, Fixed
<1>2. UpIn(g, o, S) => UpIn(m, o, T)
  BY <1>1, FollowsUp DEF UpIn
<1>3. /\ ValuesIn(g, o, S) => ValuesIn(m, o, T)
      /\ KeysIn(g, o, S) => KeysIn(m, o, T)
  BY Names DEF Follows, ValuesIn, KeysIn
<1>4. QED
  BY <1>2, <1>3 DEF RefsIn

\* A visited object stays visited.
LEMMA DoneKept ==
    ASSUME NEW g, NEW m, Core(g), Grows(g, m), NEW o \in Bodies, Done(g, o)
    PROVE  Done(m, o)
<1>1. g \in Heap /\ Follows(g, m)
  BY DEF Core, Grows
<1>2. NonWhite(g) \subseteq NonWhite(m) /\ m.kind = g.kind
  BY <1>1, FollowsWhite
<1>3. /\ ValuesIn(g, o, NonWhite(g)) => ValuesIn(m, o, NonWhite(m))
      /\ KeysIn(g, o, NonWhite(g)) => KeysIn(m, o, NonWhite(m))
      /\ RefsIn(g, o, NonWhite(g)) => RefsIn(m, o, NonWhite(m))
  BY <1>1, <1>2, FollowsRefs
<1>4. g.val[o][1] \in NonWhite(g) \cup {Nil} => m.val[o][1] \in NonWhite(m) \cup {Nil}
  BY <1>1, <1>2, Names DEF Follows
<1>5. QED
  BY <1>2, <1>3, <1>4 DEF Done, Grows

\* Follows and Grows are reflexive
LEMMA FollowsSelf ==
    ASSUME NEW g, Core(g)
    PROVE  Follows(g, g) /\ Grows(g, g)
BY DEF Core, Shaped, Colored, Follows, Grows, Fixed

\* and transitive.
LEMMA FollowsOn ==
    ASSUME NEW g, NEW m, NEW n, Follows(g, m), Follows(m, n)
    PROVE  Follows(g, n)
<1>1. Fixed(g, n)
  BY DEF Follows, Fixed
<1>2. QED
  BY <1>1 DEF Follows, Fixed

\* The same of Grows.
LEMMA GrowsOn ==
    ASSUME NEW g, NEW m, NEW n, Grows(g, m), Grows(m, n)
    PROVE  Grows(g, n)
BY FollowsOn DEF Grows

\* Painting only marks.
LEMMA MarkFollows ==
    ASSUME NEW g, NEW m, NEW W, g \in Heap, Colored(g), Paints(g, m, W)
    PROVE  Follows(g, m) /\ Grows(g, m)
BY DEF Paints, Follows, Grows, SameLists, Blackened, NeverBlack, Colored

\* The value of an open upvalue is an object or nil.
LEMMA UpType ==
    ASSUME NEW g \in Heap, Shaped(g), NEW o \in Bodies, g.kind[o] = "open"
    PROVE  UpValue(g, o) \in Objs \cup {Nil} /\ UpValue(g, o) \in Bodies \cup {Nil}
<1>1. o \in Objs
  BY DEF Bodies, Shaped
<1>2. PICK t, s : t = g.at[o][1] /\ s = g.at[o][2]
  OBVIOUS
<1>3. t \in Bodies /\ s \in Keys
  BY <1>1, <1>2, OpenAt DEF Shaped
<1>4. g.val[t][s] \in Objs \cup {Nil}
  BY <1>3, HeapTypes
<1>5. QED
  BY <1>2, <1>4, Names DEF UpValue

\* w is g where some objects have been made white, all of them to be marked.
Whiter(g, w, W) ==
  /\ w \in Heap /\ Fixed(g, w) /\ SameLists(g, w) /\ w.gray = g.gray /\ w.val = g.val
  /\ \A o \in Bodies : o \notin W => w.col[o] = g.col[o]
  /\ \A o \in Bodies : o \in W => g.kind[o] # "free"

\* Marking objects keeps that every marked object is visited or gray.
LEMMA PaintCovers ==
    ASSUME NEW g, NEW w, NEW m, NEW W, NEW P, Marking(g, P), Whiter(g, w, W), Paints(w, m, W)
    PROVE  Marking(m, P \ W) /\ Grows(g, m)
<1>1. g \in Heap /\ Core(g) /\ Filed(g) /\ Colored(g) /\ Roomy(g) /\ Shaped(g)
  BY DEF Marking, Core, Shaped
<1>2. /\ w \in Heap /\ Fixed(g, w) /\ SameLists(g, w) /\ w.gray = g.gray /\ w.val = g.val
      /\ \A o \in Bodies : o \notin W => w.col[o] = g.col[o]
      /\ \A o \in Bodies : o \in W => g.kind[o] # "free"
  BY DEF Whiter
<1>3. /\ m \in Heap /\ Fixed(g, m) /\ SameLists(g, m) /\ m.val = g.val
      /\ m.gray = g.gray \cup {o \in W : g.kind[o] \notin Blackened \cup {"open"}}
      /\ \A o \in Bodies : m.col[o] = IF o \notin W THEN g.col[o]
                               ELSE IF g.kind[o] \in Blackened THEN "black" ELSE "gray"
  BY <1>2 DEF Paints, Fixed, SameLists
<1>4. \A o \in W : o \in Bodies /\ o \in Live(g) /\ ~IsWhite(m, o) /\ g.kind[o] # "free"
  <2>1. \A o \in W : o \in Bodies
    BY DEF Paints, Whites
  <2>2. QED
    BY <1>2, <1>3, <2>1 DEF Live, IsWhite
<1>5. Follows(g, m) /\ Grows(g, m) /\ Core(m)
  <2>1. Follows(g, m)
    BY <1>1, <1>3 DEF Follows, Colored, Blackened, NeverBlack
  <2>2. QED
    BY <1>1, <1>3, <2>1, FollowsCore DEF Grows, SameLists
<1>6. m.kind = g.kind /\ Live(m) = Live(g) /\ \A o \in Bodies : ~IsWhite(g, o) => ~IsWhite(m, o)
  BY <1>1, <1>5, FollowsWhite
<1>7. \A o \in W : g.kind[o] \in {"udata", "closed", "open"} =>
           \A v \in Passes(w, o) : v \in Bodies => ~IsWhite(m, v)
  BY <1>2 DEF Paints, Fixed
<1>8. \A o \in W : Passes(w, o) = Passes(g, o)
  BY <1>2 DEF Passes, UpValue, Fixed
<1>9. Filed(m)
  <2>1. GrayLists(g) \subseteq Bodies
    BY <1>1, HeapTypes
  <2>2. \A o \in GrayLists(m) : o \in GrayLists(g) \/ (o \in W /\ g.kind[o] \notin Blackened \cup {"open"})
    BY <1>3, <1>7, <1>8 DEF GrayLists, SameLists
  <2>3. \A o \in GrayLists(m) :
          ~IsWhite(m, o) /\ m.kind[o] \notin {"free", "string", "udata", "open", "closed"}
    BY <1>1, <1>4, <1>6, <2>1, <2>2 DEF Filed, Blackened
  <2>4. QED
    BY <1>1, <1>3, <1>6, <2>3 DEF Filed, SameLists
<1>10. Covered(m, P \ W)
  <2> SUFFICES ASSUME NEW o \in Live(m), ~IsWhite(m, o), o \notin m.gray \cup (P \ W)
               PROVE  Done(m, o)
    BY DEF Covered
  <2>1. o \in Live(g) /\ o \in Bodies
    BY <1>6 DEF Live
  <2>2. CASE o \notin W
    <3>1. ~IsWhite(g, o) /\ o \notin g.gray \cup P
      BY <1>3, <2>1, <2>2 DEF IsWhite
    <3>2. Done(g, o)
      BY <2>1, <3>1 DEF Marking, Covered
    <3>3. QED
      BY <1>1, <1>5, <2>1, <3>2, DoneKept
  <2>3. CASE o \in W
    <3>1. g.kind[o] \in Blackened \cup {"open"}
      BY <1>3, <2>3
    <3>2. RefsIn(m, o, NonWhite(m))
      <4>1. m \in Heap /\ Core(m) /\ Roomy(m)
        BY <1>5 DEF Core, Shaped
      <4>2. o # Main
        BY <1>1, <3>1 DEF Shaped, Blackened
      <4>3. \A k \in Keys : k \notin Room(m, o) => m.val[o][k] = Nil
        BY <2>1, <4>1 DEF Roomy
      <4>4. Room(m, o) = IF g.kind[o] \in {"udata", "closed"} THEN {1} ELSE {}
        BY <1>6, <3>1, <4>2 DEF Room, Blackened, Tables
      <4>5. g.kind[o] \in {"udata", "closed"} => m.val[o][1] \in NonWhite(m) \cup {Nil}
        <5>1. g.kind[o] \in {"udata", "closed"} => Passes(g, o) = {g.val[o][1]}
          BY DEF Passes
        <5>2. m.val[o][1] \in Bodies \cup {Nil}
          BY <2>1, <4>1, HeapTypes, Names
        <5>3. QED
          BY <1>3, <1>7, <1>8, <2>3, <5>1, <5>2 DEF NonWhite
      <4>6. UpIn(m, o, NonWhite(m))
        <5>1. ASSUME g.kind[o] = "open"
              PROVE  UpValue(m, o) \in NonWhite(m) \cup {Nil}
          <6>1. Passes(g, o) = {UpValue(g, o)} /\ UpValue(m, o) = UpValue(g, o)
            BY <1>1, <1>5, <2>1, <5>1, FollowsUp DEF Passes
          <6>2. UpValue(g, o) \in Bodies \cup {Nil}
            BY <1>1, <2>1, <5>1, UpType
          <6>3. QED
            BY <1>3, <1>7, <1>8, <2>3, <5>1, <6>1, <6>2 DEF NonWhite
        <5>2. QED
          BY <1>6, <5>1 DEF UpIn
      <4>7. ValuesIn(m, o, NonWhite(m))
        BY <4>3, <4>4, <4>5 DEF ValuesIn
      <4>8. KeysIn(m, o, NonWhite(m))
        BY <4>3, <4>4, Names DEF KeysIn
      <4>9. QED
        BY <4>6, <4>7, <4>8 DEF RefsIn
    <3>3. QED
      BY <1>6, <3>1, <3>2 DEF Done, Blackened
  <2>4. QED
    BY <2>2, <2>3
<1>11. QED
  BY <1>5, <1>9, <1>10 DEF Marking

\* markobject keeps that every marked object is visited or gray.
LEMMA MarkCovers ==
    ASSUME NEW g, NEW V, NEW P, Marking(g, P)
    PROVE  /\ Marking(Mark(g, V), P) /\ Grows(g, Mark(g, V))
           /\ \A v \in V : v \in Bodies => v \in NonWhite(Mark(g, V))
           /\ Paints(g, Mark(g, V), Marked(g, V))
           /\ Whites(Mark(g, V)) = Whites(g) \ Marked(g, V)
<1> DEFINE m == Mark(g, V)
           W == Marked(g, V)
<1>1. g \in Heap /\ Colored(g)
  BY DEF Marking, Core, Shaped
<1>2. /\ Paints(g, m, W) /\ Whites(m) = Whites(g) \ W
      /\ \A v \in V : v \in Bodies => v \in NonWhite(m)
  BY <1>1, MarkPaints DEF NonWhite
<1> HIDE DEF m, W
<1>3. \A o \in W : o \in Whites(g) /\ g.kind[o] # "free"
  BY <1>1, <1>2 DEF Paints, Whites, IsWhite, Colored
<1>4. Whiter(g, g, W)
  BY <1>1, <1>3 DEF Whiter, Fixed, SameLists
<1>5. Marking(m, P \ W) /\ Grows(g, m)
  BY <1>2, <1>4, PaintCovers
<1>6. Marking(m, P)
  BY <1>5 DEF Marking, Covered
<1>7. QED
  BY <1>2, <1>5, <1>6 DEF m, W

Others(g) == g.grayagain \cup g.weak \cup g.allweak \cup g.ephemeron
\* Gray objects, those of E excepted, are on the gray lists, and on one of gray and the
\* other lists only.
Tidy(g, E) ==
  /\ \A o \in GrayLists(g) : g.col[o] = "gray"
  /\ g.gray \cap Others(g) = {}
  /\ \A o \in Live(g) \ E : g.col[o] = "gray" /\ g.kind[o] # "open" => o \in GrayLists(g)

\* What the mark phase has still to visit.
Todo(g) == Whites(g) \cup g.gray
\* The values of marked keys are marked, which is what convergeephemerons waits for.
Valued(g, t) ==
  \A k \in Objs : g.val[t][k] # Nil /\ (~IsWhite(g, k) \/ g.kind[k] = "string")
                    => g.val[t][k] \in NonWhite(g)

\* m is g with some objects marked.
Advances(g, m, P, t) ==
  /\ Marking(m, P) /\ Grows(g, m) /\ Todo(m) \subseteq Todo(g)
  /\ m.val = g.val /\ SameLists(g, m)
  /\ \A x \in Bodies : ~IsWhite(g, x) => m.col[x] = g.col[x]
  /\ Whites(m) \subseteq Whites(g)
  /\ Whites(m) = Whites(g) => m.col = g.col /\ m.gray = g.gray
  /\ ~IsWhite(g, t) /\ t \notin GrayLists(g) => t \notin GrayLists(m)
  /\ Tidy(g, {t}) => Tidy(m, {t})

\* What markobject does, as seen from a table t that is being visited.
LEMMA MarkAdvances ==
    ASSUME NEW g, NEW V, NEW P, NEW t \in Bodies, Marking(g, P)
    PROVE  Advances(g, Mark(g, V), P, t) /\ \A v \in V : v \in Bodies => v \in NonWhite(Mark(g, V))
<1> DEFINE m == Mark(g, V)
           W == Marked(g, V)
<1>1. /\ Marking(m, P) /\ Grows(g, m) /\ Paints(g, m, W) /\ Whites(m) = Whites(g) \ W
      /\ \A v \in V : v \in Bodies => v \in NonWhite(m)
  BY MarkCovers
<1> HIDE DEF m, W
<1>2. /\ g \in Heap /\ m \in Heap /\ m.kind = g.kind /\ Live(m) = Live(g)
      /\ m.val = g.val /\ SameLists(g, m) /\ W \subseteq Whites(g)
      /\ m.col = [o \in Bodies |-> IF o \notin W THEN g.col[o]
                               ELSE IF g.kind[o] \in Blackened THEN "black" ELSE "gray"]
      /\ m.gray = g.gray \cup {o \in W : g.kind[o] \notin Blackened \cup {"open"}}
  BY <1>1, FollowsWhite DEF Marking, Core, Grows, Paints
<1>3. Todo(m) \subseteq Todo(g)
  BY <1>1, <1>2 DEF Todo
<1>4. \A x \in Bodies : ~IsWhite(g, x) => m.col[x] = g.col[x] /\ x \notin W
  BY <1>2 DEF Whites
<1>5. Whites(m) = Whites(g) => m.col = g.col /\ m.gray = g.gray
  <2>1. g.col = [o \in Bodies |-> g.col[o]]
    BY <1>2, HeapTypes
  <2>2. Whites(m) = Whites(g) => W = {}
    BY <1>1, <1>2
  <2>3. QED
    BY <1>2, <2>1, <2>2
<1>6. Others(m) = Others(g) /\ \A o : o \in GrayLists(m) <=> o \in m.gray \/ o \in Others(m)
  BY <1>2 DEF Others, SameLists, GrayLists
<1>7. \A o : o \in GrayLists(g) <=> o \in g.gray \/ o \in Others(g)
  BY DEF Others, GrayLists
<1>8. ~IsWhite(g, t) /\ t \notin GrayLists(g) => t \notin GrayLists(m)
  BY <1>2, <1>4, <1>6, <1>7
<1>9. Tidy(g, {t}) => Tidy(m, {t})
  <2> SUFFICES ASSUME Tidy(g, {t}) PROVE Tidy(m, {t})
    OBVIOUS
  <2>1. \A o \in W : o \in Bodies /\ o \notin GrayLists(g) /\ IsWhite(g, o)
    BY <1>2 DEF Whites, Tidy, IsWhite
  <2>2. GrayLists(g) \subseteq Bodies
    BY <1>2, HeapTypes
  <2>3. \A o \in GrayLists(m) : m.col[o] = "gray"
    BY <1>2, <1>6, <1>7, <2>1, <2>2 DEF Tidy
  <2>4. m.gray \cap Others(m) = {}
    BY <1>2, <1>6, <1>7, <2>1 DEF Tidy
  <2>5. ASSUME NEW o \in Live(m) \ {t}, m.col[o] = "gray", m.kind[o] # "open"
        PROVE  o \in GrayLists(m)
    BY <1>2, <1>6, <1>7, <2>5 DEF Tidy, Live
  <2>6. QED
    BY <2>3, <2>4, <2>5 DEF Tidy
<1>10. QED
  BY <1>1, <1>2, <1>3, <1>4, <1>5, <1>8, <1>9 DEF Advances, m

\* Several marks in a row.
LEMMA AdvancesOn ==
    ASSUME NEW g, NEW m, NEW n, NEW P, NEW t \in Bodies, g \in Heap, m \in Heap, NEW Q,
           Advances(g, m, Q, t), Advances(m, n, P, t)
    PROVE  Advances(g, n, P, t)
<1>1. Grows(g, n)
  BY GrowsOn DEF Advances
<1>2. \A x \in Bodies : ~IsWhite(g, x) => n.col[x] = g.col[x]
  BY DEF Advances, IsWhite
<1>3. Whites(n) \subseteq Whites(g) /\ (Whites(n) = Whites(g) => n.col = g.col /\ n.gray = g.gray)
  BY DEF Advances
<1>4. ~IsWhite(g, t) /\ t \notin GrayLists(g) => t \notin GrayLists(n)
  BY DEF Advances, IsWhite
<1>5. QED
  BY <1>1, <1>2, <1>3, <1>4 DEF Advances, SameLists

\* m is g with t on one more gray list.
Files(g, m, t) ==
  /\ m \in Heap /\ Fixed(g, m) /\ m.col = g.col /\ m.gray = g.gray /\ m.val = g.val
  /\ m.weak \in {g.weak, g.weak \cup {t}} /\ m.allweak \in {g.allweak, g.allweak \cup {t}}
  /\ m.ephemeron \in {g.ephemeron, g.ephemeron \cup {t}}
  /\ m.grayagain \in {g.grayagain, g.grayagain \cup {t}}
  /\ Others(m) = Others(g) \cup {t}

\* The four ways a table is linked into a gray list.
LEMMA FilesOn ==
    ASSUME NEW g \in Heap, NEW t \in Bodies, NEW m
    PROVE  /\ m = [g EXCEPT !.weak = @ \cup {t}] =>
                Files(g, m, t) /\ m.weak = g.weak \cup {t} /\ m.allweak = g.allweak /\ m.ephemeron = g.ephemeron
           /\ m = [g EXCEPT !.allweak = @ \cup {t}] =>
                Files(g, m, t) /\ m.weak = g.weak /\ m.allweak = g.allweak \cup {t} /\ m.ephemeron = g.ephemeron
           /\ m = [g EXCEPT !.ephemeron = @ \cup {t}] =>
                Files(g, m, t) /\ m.weak = g.weak /\ m.allweak = g.allweak /\ m.ephemeron = g.ephemeron \cup {t}
           /\ m = [g EXCEPT !.grayagain = @ \cup {t}] =>
                Files(g, m, t) /\ m.weak = g.weak /\ m.allweak = g.allweak /\ m.ephemeron = g.ephemeron
<1>1. ASSUME m = [g EXCEPT !.weak = @ \cup {t}]
      PROVE  Files(g, m, t) /\ m.weak = g.weak \cup {t} /\ m.allweak = g.allweak /\ m.ephemeron = g.ephemeron
  <2>1. PICK S : S = g.weak \cup {t}
    OBVIOUS
  <2>2. S \in SUBSET Bodies /\ m = [g EXCEPT !.weak = S]
    BY <1>1, <2>1 DEF Heap
  <2>3. /\ m \in Heap /\ Fixed(g, m) /\ m.col = g.col /\ m.gray = g.gray /\ m.val = g.val
        /\ m.weak = S /\ m.allweak = g.allweak /\ m.ephemeron = g.ephemeron /\ m.grayagain = g.grayagain
    BY <2>2 DEF Heap, Fixed
  <2>4. QED
    BY <2>1, <2>3 DEF Files, Others
<1>2. ASSUME m = [g EXCEPT !.allweak = @ \cup {t}]
      PROVE  Files(g, m, t) /\ m.weak = g.weak /\ m.allweak = g.allweak \cup {t} /\ m.ephemeron = g.ephemeron
  <2>1. PICK S : S = g.allweak \cup {t}
    OBVIOUS
  <2>2. S \in SUBSET Bodies /\ m = [g EXCEPT !.allweak = S]
    BY <1>2, <2>1 DEF Heap
  <2>3. /\ m \in Heap /\ Fixed(g, m) /\ m.col = g.col /\ m.gray = g.gray /\ m.val = g.val
        /\ m.allweak = S /\ m.weak = g.weak /\ m.ephemeron = g.ephemeron /\ m.grayagain = g.grayagain
    BY <2>2 DEF Heap, Fixed
  <2>4. QED
    BY <2>1, <2>3 DEF Files, Others
<1>3. ASSUME m = [g EXCEPT !.ephemeron = @ \cup {t}]
      PROVE  Files(g, m, t) /\ m.weak = g.weak /\ m.allweak = g.allweak /\ m.ephemeron = g.ephemeron \cup {t}
  <2>1. PICK S : S = g.ephemeron \cup {t}
    OBVIOUS
  <2>2. S \in SUBSET Bodies /\ m = [g EXCEPT !.ephemeron = S]
    BY <1>3, <2>1 DEF Heap
  <2>3. /\ m \in Heap /\ Fixed(g, m) /\ m.col = g.col /\ m.gray = g.gray /\ m.val = g.val
        /\ m.ephemeron = S /\ m.weak = g.weak /\ m.allweak = g.allweak /\ m.grayagain = g.grayagain
    BY <2>2 DEF Heap, Fixed
  <2>4. QED
    BY <2>1, <2>3 DEF Files, Others
<1>4. ASSUME m = [g EXCEPT !.grayagain = @ \cup {t}]
      PROVE  Files(g, m, t) /\ m.weak = g.weak /\ m.allweak = g.allweak /\ m.ephemeron = g.ephemeron
  <2>1. PICK S : S = g.grayagain \cup {t}
    OBVIOUS
  <2>2. S \in SUBSET Bodies /\ m = [g EXCEPT !.grayagain = S]
    BY <1>4, <2>1 DEF Heap
  <2>3. /\ m \in Heap /\ Fixed(g, m) /\ m.col = g.col /\ m.gray = g.gray /\ m.val = g.val
        /\ m.grayagain = S /\ m.weak = g.weak /\ m.allweak = g.allweak /\ m.ephemeron = g.ephemeron
    BY <2>2 DEF Heap, Fixed
  <2>4. QED
    BY <2>1, <2>3 DEF Files, Others
<1>5. QED
  BY <1>1, <1>2, <1>3, <1>4

\* A visited table may be linked into the list it belongs to.
LEMMA FilesKeeps ==
    ASSUME NEW g, NEW m, NEW P, NEW t \in Bodies, Marking(g, P), Files(g, m, t), ~IsWhite(g, t),
           g.kind[t] \notin {"free", "string", "udata", "open", "closed"},
           t \in m.weak => t \in g.weak \/ g.kind[t] = "weakvalue",
           t \in m.ephemeron => t \in g.ephemeron \/ g.kind[t] = "ephemeron",
           t \in m.allweak => t \in g.allweak \/ g.kind[t] \in {"allweak", "ephemeron"}
    PROVE  /\ Marking(m, P) /\ Grows(g, m) /\ Todo(m) = Todo(g) /\ Whites(m) = Whites(g)
           /\ m.col = g.col /\ m.gray = g.gray /\ m.val = g.val
           /\ m.ephemeron \subseteq g.ephemeron \cup {t}
           /\ Tidy(g, {t}) /\ g.col[t] = "gray" /\ t \notin GrayLists(g) => Tidy(m, {})
<1>1. g \in Heap /\ Core(g) /\ Filed(g) /\ Colored(g)
  BY DEF Marking, Core, Shaped
<1>2. Follows(g, m) /\ Grows(g, m)
  BY <1>1 DEF Files, Follows, Grows, Colored, NeverBlack
<1>3. Core(m) /\ m.kind = g.kind /\ Live(m) = Live(g)
  BY <1>1, <1>2, FollowsCore, FollowsWhite
<1>4. Whites(m) = Whites(g) /\ Todo(m) = Todo(g) /\ \A o : IsWhite(m, o) <=> IsWhite(g, o)
  BY DEF Whites, Todo, Files, IsWhite
<1>5. GrayLists(m) = GrayLists(g) \cup {t}
  BY DEF GrayLists, Files, Others
<1>6. Filed(m)
  BY <1>1, <1>3, <1>4, <1>5 DEF Filed, Files
<1>7. Covered(m, P)
  <2> SUFFICES ASSUME NEW o \in Live(m), ~IsWhite(m, o), o \notin m.gray \cup P
               PROVE  Done(m, o)
    BY DEF Covered
  <2>1. Done(g, o) /\ o \in Bodies
    BY <1>3, <1>4 DEF Marking, Covered, Files, Live
  <2>2. QED
    BY <1>1, <1>2, <2>1, DoneKept
<1>8. Tidy(g, {t}) /\ g.col[t] = "gray" /\ t \notin GrayLists(g) => Tidy(m, {})
  BY <1>3, <1>5 DEF Tidy, Files, GrayLists, Others
<1>9. QED
  BY <1>1, <1>2, <1>3, <1>4, <1>6, <1>7, <1>8 DEF Marking, Files

\* m is g after the visit of t.
VisitOf(g, m, t, P) ==
  /\ Marking(m, P) /\ Grows(g, m) /\ Done(m, t) /\ Todo(m) \subseteq Todo(g)
  /\ \A x \in Bodies : x # t /\ ~IsWhite(g, x) => m.col[x] = g.col[x]
  /\ g.kind[t] = "ephemeron" => m.col[t] = g.col[t]
  /\ Whites(m) \subseteq Whites(g)
  /\ Whites(m) = Whites(g) => m.gray = g.gray /\ \A x \in Bodies : x # t => m.col[x] = g.col[x]
  /\ m.ephemeron \subseteq g.ephemeron \cup {t}
  /\ Whites(m) = Whites(g) /\ t \in m.ephemeron => t \in g.ephemeron \/ Valued(m, t)
  /\ Tidy(g, {t}) /\ g.col[t] = "gray" /\ t \notin GrayLists(g) => Tidy(m, {})

\* When t is visited it is no exception any more.
LEMMA DoneCovers ==
    ASSUME NEW m, NEW P, NEW t, Marking(m, P \cup {t}), Done(m, t)
    PROVE  Marking(m, P)
BY DEF Marking, Covered

\* What Marking says of its parts.
LEMMA MarkingFacts ==
    ASSUME NEW g, NEW P, Marking(g, P)
    PROVE  /\ g \in Heap /\ Core(g) /\ Filed(g) /\ Shaped(g) /\ Roomy(g) /\ Opened(g) /\ Colored(g)
           /\ Listed(g) /\ Solid(g) /\ Live(g) = Sound(g) /\ Nil \notin NonWhite(g)
BY Names DEF Marking, Core, Shaped, NonWhite

\* Marking objects and then putting t on a list is a visit of t.
LEMMA VisitFiles ==
    ASSUME NEW g, NEW n, NEW m, NEW P, NEW t \in Bodies, g \in Heap,
           Advances(g, n, P \cup {t}, t), Files(n, m, t), ~IsWhite(g, t),
           g.kind[t] \notin {"free", "string", "udata", "open", "closed"},
           t \in m.weak => t \in n.weak \/ g.kind[t] = "weakvalue",
           t \in m.ephemeron => t \in n.ephemeron \/ g.kind[t] = "ephemeron",
           t \in m.allweak => t \in n.allweak \/ g.kind[t] \in {"allweak", "ephemeron"},
           Grows(g, m) => Done(m, t),
           Grows(g, m) /\ Whites(m) = Whites(g) /\ t \in m.ephemeron => t \in g.ephemeron \/ Valued(m, t)
    PROVE  VisitOf(g, m, t, P)
<1>1. /\ Marking(n, P \cup {t}) /\ Grows(g, n) /\ Todo(n) \subseteq Todo(g) /\ n.val = g.val
      /\ SameLists(g, n) /\ \A x \in Bodies : ~IsWhite(g, x) => n.col[x] = g.col[x]
      /\ Whites(n) \subseteq Whites(g)
      /\ Whites(n) = Whites(g) => n.col = g.col /\ n.gray = g.gray
      /\ ~IsWhite(g, t) /\ t \notin GrayLists(g) => t \notin GrayLists(n)
      /\ Tidy(g, {t}) => Tidy(n, {t})
  BY DEF Advances
<1>2. n.kind = g.kind /\ ~IsWhite(n, t)
  BY <1>1, FollowsWhite DEF Grows
<1>3. /\ Marking(m, P \cup {t}) /\ Grows(n, m) /\ Todo(m) = Todo(n) /\ Whites(m) = Whites(n)
      /\ m.col = n.col /\ m.gray = n.gray /\ m.val = n.val
      /\ m.ephemeron \subseteq n.ephemeron \cup {t}
      /\ Tidy(n, {t}) /\ n.col[t] = "gray" /\ t \notin GrayLists(n) => Tidy(m, {})
  BY <1>1, <1>2, FilesKeeps
<1>4. Grows(g, m)
  BY <1>1, <1>3, GrowsOn
<1>5. Done(m, t) /\ Marking(m, P)
  BY <1>3, <1>4, DoneCovers
<1>6. m.ephemeron \subseteq g.ephemeron \cup {t}
  BY <1>1, <1>3 DEF SameLists
<1>7. Tidy(g, {t}) /\ g.col[t] = "gray" /\ t \notin GrayLists(g) => Tidy(m, {})
  BY <1>1, <1>3
<1>8. QED
  BY <1>1, <1>3, <1>4, <1>5, <1>6, <1>7 DEF VisitOf

\* Where an object has values.
LEMMA RoomOf ==
    ASSUME NEW g, g \in Heap, Shaped(g), NEW t \in Bodies
    PROVE  /\ \A k \in Keys : g.val[t][k] \in Objs \cup {Nil} /\ g.val[t][k] \in Bodies \cup {Nil}
           /\ g.kind[t] \in Tables => \A k \in Keys : k = 1 \/ k \in Objs \/ g.val[t][k] = Nil
           /\ g.kind[t] \notin Tables => \A k \in Objs : g.val[t][k] = Nil
           /\ t # Main /\ g.kind[t] \in {"udata", "closed", "cclosure", "thread", "proto"} =>
                \A k \in Keys : k = 1 \/ g.val[t][k] = Nil
           /\ g.kind[t] \in {"string", "free", "open"} => \A k \in Keys : g.val[t][k] = Nil
<1>1. \A k \in Keys : g.val[t][k] # Nil => k \in Room(g, t)
  BY DEF Shaped, Roomy
<1>2. g.val[t] \in [Keys -> Objs \cup {Nil}] /\ g.kind[Main] = "thread"
  BY HeapTypes DEF Shaped
<1>3. QED
  BY <1>1, <1>2, Names DEF Room, Tables

\* traverseweakvalue visits a table with weak values.
LEMMA WeakValueVisit ==
    ASSUME NEW g, NEW P, NEW t \in Bodies, Marking(g, P \cup {t}), ~IsWhite(g, t),
           g.kind[t] = "weakvalue"
    PROVE  VisitOf(g, TraverseWeakValue(g, t), t, P)
<1> DEFINE m == Mark(g, KeysOf(g, t))
           c == m.val[t][1] # Nil \/ \E v \in ValuesOf(m, t) : Clearable(m, v)
           n == MarkStrings(m, ValuesOf(m, t))
           r == IF c THEN [n EXCEPT !.weak = @ \cup {t}] ELSE [n EXCEPT !.grayagain = @ \cup {t}]
<1>1. TraverseWeakValue(g, t) = r
  BY Zenon DEF TraverseWeakValue
<1>2. g \in Heap /\ Core(g) /\ Shaped(g)
  BY MarkingFacts
<1>3. /\ Advances(g, m, P \cup {t}, t)
      /\ \A v \in KeysOf(g, t) : v \in Bodies => v \in NonWhite(m)
  BY MarkAdvances
<1> HIDE DEF m
<1>4. m \in Heap /\ Marking(m, P \cup {t}) /\ m.val = g.val /\ m.kind = g.kind
  BY <1>2, <1>3, FollowsWhite, MarkingFacts DEF Advances, Grows
<1>5. /\ Advances(m, n, P \cup {t}, t)
      /\ \A v \in ValuesOf(m, t) \cap Strings(m) : v \in Bodies => v \in NonWhite(n)
  BY <1>4, MarkAdvances DEF MarkStrings
<1> HIDE DEF n
<1>6. Advances(g, n, P \cup {t}, t) /\ n \in Heap /\ Follows(m, n) /\ n.val = g.val
  <2>1. Advances(g, n, P \cup {t}, t)
    BY <1>2, <1>3, <1>4, <1>5, AdvancesOn
  <2>2. QED
    BY <1>5, <2>1, MarkingFacts DEF Advances, Grows
<1>7. KeysIn(n, t, NonWhite(n))
  <2>1. NonWhite(m) \subseteq NonWhite(n)
    BY <1>4, <1>6, FollowsWhite
  <2>2. QED
    BY <1>3, <1>6, <2>1, Names DEF KeysIn, KeysOf
<1>8. ASSUME ~c
      PROVE  ValuesIn(n, t, NonWhite(n))
  <2> SUFFICES ASSUME NEW k \in Keys, n.val[t][k] # Nil
               PROVE  n.val[t][k] \in NonWhite(n)
    BY DEF ValuesIn
  <2>1. PICK v : v = n.val[t][k]
    OBVIOUS
  <2>2. k \in Objs /\ v \in Objs /\ v \in Bodies
    BY <1>2, <1>4, <1>6, <1>8, <2>1, RoomOf DEF Tables
  <2>3. v \in ValuesOf(m, t)
    BY <1>4, <1>6, <2>1, <2>2 DEF ValuesOf
  <2>4. ~Clearable(m, v)
    BY <1>8, <2>3
  <2>5. CASE m.kind[v] = "string"
    BY <1>5, <2>1, <2>2, <2>3, <2>5 DEF Strings, Of
  <2>6. CASE ~IsWhite(m, v)
    BY <1>4, <1>6, <2>1, <2>2, <2>6, FollowsWhite DEF NonWhite
  <2>7. QED
    BY <2>1, <2>4, <2>5, <2>6 DEF Clearable
<1>9. CASE c
  <2>1. Files(n, r, t) /\ r.weak = n.weak \cup {t} /\ r.allweak = n.allweak /\ r.ephemeron = n.ephemeron
    BY <1>6, <1>9, FilesOn
  <2> HIDE DEF r, c
  <2>2. r.kind = g.kind /\ NonWhite(r) = NonWhite(n) /\ r.val = n.val /\ n.ephemeron = g.ephemeron
    BY <1>6, <2>1, FollowsWhite DEF Files, Advances, Grows, Fixed, NonWhite, IsWhite, SameLists, Follows
  <2>3. Done(r, t)
    BY <1>7, <2>1, <2>2 DEF Done, KeysIn
  <2>4. VisitOf(g, r, t, P)
    BY <1>2, <1>6, <2>1, <2>2, <2>3, VisitFiles
  <2>5. QED
    BY <1>1, <2>4
<1>10. CASE ~c
  <2>1. Files(n, r, t) /\ r.weak = n.weak /\ r.allweak = n.allweak /\ r.ephemeron = n.ephemeron
    BY <1>6, <1>10, FilesOn
  <2>0. ValuesIn(n, t, NonWhite(n))
    BY <1>8, <1>10
  <2> HIDE DEF r, c
  <2>2. r.kind = g.kind /\ NonWhite(r) = NonWhite(n) /\ r.val = n.val /\ n.ephemeron = g.ephemeron
    BY <1>6, <2>1, FollowsWhite DEF Files, Advances, Grows, Fixed, NonWhite, IsWhite, SameLists, Follows
  <2>3. Done(r, t)
    BY <1>7, <2>0, <2>1, <2>2 DEF Done, KeysIn, ValuesIn
  <2>4. VisitOf(g, r, t, P)
    BY <1>2, <1>6, <2>1, <2>2, <2>3, VisitFiles
  <2>5. QED
    BY <1>1, <2>4
<1>11. QED
  BY <1>9, <1>10

\* traverseephemeron visits an ephemeron table.
LEMMA EphemeronVisit ==
    ASSUME NEW g, NEW P, NEW t \in Bodies, Marking(g, P \cup {t}), ~IsWhite(g, t),
           g.kind[t] = "ephemeron"
    PROVE  VisitOf(g, TraverseEphemeron(g, t), t, P)
<1> DEFINE l == Mark(g, {g.val[t][1]})
           m == MarkStrings(l, KeysOf(g, t))
           cleared == {k \in KeysOf(m, t) : IsWhite(m, k)}
           prop == \E k \in cleared : IsWhite(m, m.val[t][k])
           n == Mark(m, {m.val[t][k] : k \in KeysOf(m, t) \ cleared})
           r == IF prop THEN [n EXCEPT !.ephemeron = @ \cup {t}]
                ELSE IF cleared # {} THEN [n EXCEPT !.allweak = @ \cup {t}]
                ELSE [n EXCEPT !.grayagain = @ \cup {t}]
<1>1. TraverseEphemeron(g, t) = r
  BY Zenon DEF TraverseEphemeron, VisitEntries
<1>2. g \in Heap /\ Core(g) /\ Shaped(g)
  BY MarkingFacts
<1>3. /\ Advances(g, l, P \cup {t}, t)
      /\ \A v \in {g.val[t][1]} : v \in Bodies => v \in NonWhite(l)
  BY MarkAdvances
<1> HIDE DEF l
<1>4. l \in Heap /\ Marking(l, P \cup {t}) /\ l.val = g.val /\ l.kind = g.kind
  BY <1>2, <1>3, FollowsWhite, MarkingFacts DEF Advances, Grows
<1>5. /\ Advances(l, m, P \cup {t}, t)
      /\ \A v \in KeysOf(g, t) \cap Strings(l) : v \in Bodies => v \in NonWhite(m)
  BY <1>4, MarkAdvances DEF MarkStrings
<1> HIDE DEF m
<1>6. /\ Advances(g, m, P \cup {t}, t) /\ m \in Heap /\ Marking(m, P \cup {t}) /\ m.val = g.val
      /\ m.kind = g.kind /\ NonWhite(l) \subseteq NonWhite(m)
  <2>1. Advances(g, m, P \cup {t}, t)
    BY <1>2, <1>3, <1>4, <1>5, AdvancesOn
  <2>2. QED
    BY <1>2, <1>4, <1>5, <2>1, FollowsWhite, MarkingFacts DEF Advances, Grows
<1>7. /\ Advances(m, n, P \cup {t}, t)
      /\ \A v \in {m.val[t][k] : k \in KeysOf(m, t) \ cleared} : v \in Bodies => v \in NonWhite(n)
  BY <1>6, MarkAdvances
<1> HIDE DEF n
<1>8. /\ Advances(g, n, P \cup {t}, t) /\ n \in Heap /\ n.val = g.val /\ n.kind = g.kind
      /\ NonWhite(m) \subseteq NonWhite(n) /\ Whites(n) \subseteq Whites(m) /\ Whites(m) \subseteq Whites(g)
      /\ n.ephemeron = g.ephemeron /\ n.weak = g.weak /\ n.allweak = g.allweak
      /\ \A o \in Bodies : o \in Whites(m) <=> o \notin NonWhite(m)
      /\ \A o \in Bodies : o \in Whites(n) <=> o \notin NonWhite(n)
  <2>1. Advances(g, n, P \cup {t}, t)
    BY <1>2, <1>6, <1>7, AdvancesOn
  <2>2. n \in Heap /\ n.val = g.val /\ SameLists(g, n) /\ Follows(m, n) /\ Follows(g, m)
    BY <1>6, <1>7, <2>1, MarkingFacts DEF Advances, Grows
  <2>3. QED
    BY <1>2, <1>6, <2>1, <2>2, FollowsWhite DEF SameLists, NonWhite, Whites
<1>9. n.val[t][1] \in NonWhite(n) \cup {Nil}
  BY <1>2, <1>3, <1>6, <1>8, Names, RoomOf
<1>10. \A k \in KeysOf(m, t) : IsWhite(m, k) => k \in cleared /\ m.kind[k] # "string"
  BY <1>4, <1>5, <1>6, Names DEF KeysOf, Strings, Of, NonWhite
<1>11. \A k \in KeysOf(m, t) : ~IsWhite(m, k) => n.val[t][k] \in NonWhite(n)
  <2> SUFFICES ASSUME NEW k \in KeysOf(m, t), ~IsWhite(m, k)
               PROVE  n.val[t][k] \in NonWhite(n)
    OBVIOUS
  <2>1. k \in KeysOf(m, t) \ cleared /\ k \in Objs /\ k \in Keys
    BY Names DEF KeysOf
  <2>2. m.val[t][k] # Nil /\ m.val[t][k] = n.val[t][k] /\ m.val[t][k] \in Bodies
    BY <1>2, <1>6, <1>8, <2>1, RoomOf DEF KeysOf
  <2>3. QED
    BY <1>7, <2>1, <2>2
<1>12. ASSUME cleared = {}
       PROVE  RefsIn(n, t, NonWhite(n))
  <2>1. \A k \in Objs : n.val[t][k] # Nil => k \in NonWhite(n) /\ n.val[t][k] \in NonWhite(n)
    BY <1>6, <1>8, <1>10, <1>11, <1>12, Names DEF KeysOf, NonWhite
  <2>2. \A k \in Keys : k = 1 \/ k \in Objs \/ n.val[t][k] = Nil
    BY <1>2, <1>8, RoomOf DEF Tables
  <2>3. QED
    BY <1>8, <1>9, <2>1, <2>2 DEF RefsIn, ValuesIn, KeysIn, UpIn
<1>13. Whites(n) = Whites(g) => Valued(n, t)
  <2> SUFFICES ASSUME Whites(n) = Whites(g), NEW k \in Objs, n.val[t][k] # Nil,
                      ~IsWhite(n, k) \/ n.kind[k] = "string"
               PROVE  n.val[t][k] \in NonWhite(n)
    BY DEF Valued
  <2>1. k \in KeysOf(m, t) /\ k \in Bodies
    BY <1>6, <1>8, Names DEF KeysOf
  <2>2. ~IsWhite(m, k)
    BY <1>6, <1>8, <1>10, <2>1 DEF Whites
  <2>3. QED
    BY <1>11, <2>1, <2>2
<1>14. ASSUME prop
       PROVE  Files(n, r, t) /\ r.weak = n.weak /\ r.allweak = n.allweak /\ r.ephemeron = n.ephemeron \cup {t}
  BY <1>8, <1>14, FilesOn
<1>15. ASSUME ~prop, cleared # {}
       PROVE  Files(n, r, t) /\ r.weak = n.weak /\ r.allweak = n.allweak \cup {t} /\ r.ephemeron = n.ephemeron
  BY <1>8, <1>15, FilesOn
<1>16. ASSUME ~prop, cleared = {}
       PROVE  Files(n, r, t) /\ r.weak = n.weak /\ r.allweak = n.allweak /\ r.ephemeron = n.ephemeron
  BY <1>8, <1>16, FilesOn
<1> HIDE DEF r, prop, cleared
<1>17. Files(n, r, t) /\ r.weak = n.weak
  BY <1>14, <1>15, <1>16
<1>18. /\ r.kind = g.kind /\ NonWhite(r) = NonWhite(n) /\ r.val = n.val /\ Whites(r) = Whites(n)
       /\ \A o : IsWhite(r, o) <=> IsWhite(n, o)
  BY <1>8, <1>17 DEF Files, Fixed, NonWhite, IsWhite, Whites
<1>19. Done(r, t)
  <2>1. \/ t \in r.ephemeron \/ t \in r.allweak \/ cleared = {}
    BY <1>14, <1>15, <1>16
  <2>2. cleared = {} => RefsIn(r, t, NonWhite(r))
    BY <1>8, <1>12, <1>18 DEF RefsIn, ValuesIn, KeysIn, UpIn
  <2>3. QED
    BY <1>9, <1>18, <2>1, <2>2 DEF Done
<1>20. Whites(r) = Whites(g) => Valued(r, t)
  BY <1>8, <1>13, <1>18 DEF Valued
<1>21. VisitOf(g, r, t, P)
  BY <1>2, <1>8, <1>17, <1>19, <1>20, VisitFiles
<1>22. QED
  BY <1>1, <1>21

\* Marking nothing.
LEMMA AdvancesSelf ==
    ASSUME NEW g, NEW P, NEW t \in Bodies, Marking(g, P)
    PROVE  Advances(g, g, P, t)
BY FollowsSelf DEF Marking, Advances, SameLists

\* A table with weak keys and values is only linked into allweak.
LEMMA AllWeakVisit ==
    ASSUME NEW g, NEW P, NEW t \in Bodies, Marking(g, P \cup {t}), ~IsWhite(g, t),
           g.kind[t] = "allweak", NEW m, m = [g EXCEPT !.allweak = @ \cup {t}]
    PROVE  VisitOf(g, m, t, P)
<1>1. g \in Heap
  BY MarkingFacts
<1>2. Files(g, m, t) /\ m.weak = g.weak /\ m.allweak = g.allweak \cup {t} /\ m.ephemeron = g.ephemeron
  BY <1>1, FilesOn
<1>3. Done(m, t)
  BY <1>2 DEF Done, Files, Fixed
<1>4. QED
  BY <1>1, <1>2, <1>3, AdvancesSelf, VisitFiles

\* The references of an object, by its keys.
LEMMA RefsOf ==
    ASSUME NEW g, g \in Heap, Shaped(g), NEW t \in Bodies, NEW S, g.kind[t] # "open",
           \A k \in Objs : g.val[t][k] # Nil => k \in S /\ g.val[t][k] \in S,
           \A k \in Slots : g.val[t][k] # Nil => g.val[t][k] \in S
    PROVE  RefsIn(g, t, S)
BY Names DEF RefsIn, ValuesIn, KeysIn, UpIn

\* traversestack visits a thread, which stays gray.
LEMMA ThreadVisit ==
    ASSUME NEW g, NEW P, NEW t \in Bodies, Marking(g, P \cup {t}), ~IsWhite(g, t),
           g.kind[t] = "thread", NEW n, Files(g, n, t),
           n.weak = g.weak, n.allweak = g.allweak, n.ephemeron = g.ephemeron,
           NEW V, V = {g.val[t][s] : s \in Slots}
    PROVE  VisitOf(g, Mark(n, V), t, P)
<1> DEFINE m == Mark(n, V)
<1>1. g \in Heap /\ Shaped(g)
  BY MarkingFacts
<1>2. Files(g, n, t) /\ n.weak = g.weak /\ n.allweak = g.allweak /\ n.ephemeron = g.ephemeron
  OBVIOUS
<1>3. /\ Marking(n, P \cup {t}) /\ Grows(g, n) /\ Todo(n) = Todo(g) /\ Whites(n) = Whites(g)
      /\ n.col = g.col /\ n.gray = g.gray /\ n.val = g.val
      /\ Tidy(g, {t}) /\ g.col[t] = "gray" /\ t \notin GrayLists(g) => Tidy(n, {})
  <2>1. /\ t \in n.weak => t \in g.weak \/ g.kind[t] = "weakvalue"
        /\ t \in n.ephemeron => t \in g.ephemeron \/ g.kind[t] = "ephemeron"
        /\ t \in n.allweak => t \in g.allweak \/ g.kind[t] \in {"allweak", "ephemeron"}
        /\ g.kind[t] \notin {"free", "string", "udata", "open", "closed"}
    BY <1>2
  <2>2. QED
    BY <1>2, <2>1, FilesKeeps
<1>4. Advances(n, m, P \cup {t}, t) /\ \A v \in V : v \in Bodies => v \in NonWhite(m)
  BY <1>3, MarkAdvances
<1> HIDE DEF m
<1>5. Marking(m, P \cup {t}) /\ Grows(n, m) /\ Grows(g, m) /\ m.val = g.val /\ SameLists(n, m)
  BY <1>3, <1>4, GrowsOn DEF Advances
<1>6. m \in Heap /\ Shaped(m) /\ m.kind = g.kind /\ Live(m) = Live(g)
  BY <1>1, <1>5, MarkingFacts, FollowsWhite DEF Grows
<1>7. Done(m, t)
  <2>1. \A k \in Objs : m.val[t][k] = Nil
    BY <1>6, RoomOf DEF Tables
  <2>2. ASSUME NEW s \in Slots, m.val[t][s] # Nil
        PROVE  m.val[t][s] \in NonWhite(m)
    <3>1. m.val[t][s] \in Bodies
      BY <1>6, <2>2, RoomOf, Names
    <3>2. m.val[t][s] \in V
      BY <1>5
    <3>3. QED
      BY <1>4, <3>1, <3>2
  <2>3. RefsIn(m, t, NonWhite(m))
    BY <1>6, <2>1, <2>2, RefsOf
  <2>4. QED
    BY <1>6, <2>3 DEF Done
<1>8. Marking(m, P)
  BY <1>5, <1>7, DoneCovers
<1>9. ASSUME Tidy(g, {t}), g.col[t] = "gray", t \notin GrayLists(g)
      PROVE  Tidy(m, {})
  <2>1. Tidy(n, {})
    BY <1>3, <1>9
  <2>2. Tidy(n, {t})
    BY <2>1 DEF Tidy
  <2>3. Tidy(m, {t})
    BY <1>4, <2>2 DEF Advances
  <2>4. t \in GrayLists(m)
    BY <1>2, <1>5 DEF Files, GrayLists, Others, SameLists
  <2>5. QED
    BY <2>3, <2>4 DEF Tidy
<1>10. m.ephemeron = g.ephemeron
  BY <1>2, <1>5 DEF SameLists
<1>11. VisitOf(g, m, t, P)
  BY <1>3, <1>4, <1>5, <1>6, <1>7, <1>8, <1>9, <1>10 DEF VisitOf, Advances, IsWhite
<1>12. QED
  BY <1>11 DEF m

\* m is g with t black, and with its cached closure gone if it is a prototype.
Blackens(g, m, t) ==
  /\ m \in Heap /\ Fixed(g, m) /\ SameLists(g, m) /\ m.gray = g.gray
  /\ m.col = [g.col EXCEPT ![t] = "black"]
  /\ \A o \in Bodies, k \in Keys : m.val[o][k] = g.val[o][k] \/ (m.val[o][k] = Nil /\ o = t /\ g.kind[o] = "proto")

\* Blackening an object that is being visited.
LEMMA BlackenKeeps ==
    ASSUME NEW g, NEW b, NEW P, NEW t \in Bodies, Marking(g, P \cup {t}), Blackens(g, b, t),
           ~IsWhite(g, t), g.kind[t] \notin NeverBlack
    PROVE  /\ Marking(b, P \cup {t}) /\ Grows(g, b) /\ Todo(b) = Todo(g) /\ Whites(b) = Whites(g)
           /\ b.gray = g.gray /\ b.col[t] = "black" /\ GrayLists(b) = GrayLists(g)
           /\ \A x \in Bodies : x # t => b.col[x] = g.col[x]
           /\ \A x \in Bodies : IsWhite(b, x) <=> IsWhite(g, x)
           /\ b.kind = g.kind /\ b.ephemeron = g.ephemeron
           /\ Tidy(g, {t}) /\ t \notin GrayLists(g) => Tidy(b, {t})
<1>1. g \in Heap /\ Core(g) /\ Filed(g) /\ Colored(g) /\ g.col \in [Bodies -> Colors]
  BY MarkingFacts, HeapTypes
<1>2. /\ b \in Heap /\ Fixed(g, b) /\ SameLists(g, b) /\ b.gray = g.gray
      /\ b.col = [g.col EXCEPT ![t] = "black"]
  BY DEF Blackens
<1>3. \A x \in Bodies : b.col[x] = IF x = t THEN "black" ELSE g.col[x]
  BY <1>1, <1>2
<1>4. Follows(g, b) /\ Grows(g, b)
  BY <1>1, <1>2, <1>3 DEF Follows, Grows, Colored, SameLists, Blackens, Tables
<1>5. Core(b) /\ b.kind = g.kind /\ Live(b) = Live(g)
  BY <1>1, <1>4, FollowsCore, FollowsWhite
<1>6. \A x \in Bodies : IsWhite(b, x) <=> IsWhite(g, x)
  BY <1>3 DEF IsWhite
<1>7. Whites(b) = Whites(g) /\ Todo(b) = Todo(g) /\ GrayLists(b) = GrayLists(g) /\ Others(b) = Others(g)
  BY <1>2, <1>6 DEF Whites, Todo, GrayLists, Others, SameLists
<1>8. Filed(b)
  BY <1>1, <1>2, <1>5, <1>6, <1>7, HeapTypes DEF Filed, SameLists
<1>9. Covered(b, P \cup {t})
  <2> SUFFICES ASSUME NEW o \in Live(b), ~IsWhite(b, o), o \notin b.gray \cup (P \cup {t})
               PROVE  Done(b, o)
    BY DEF Covered
  <2>1. Done(g, o) /\ o \in Bodies
    BY <1>2, <1>5, <1>6 DEF Marking, Covered, Live
  <2>2. QED
    BY <1>1, <1>4, <2>1, DoneKept
<1>10. ASSUME Tidy(g, {t}), t \notin GrayLists(g)
       PROVE  Tidy(b, {t})
  <2>1. GrayLists(g) \subseteq Bodies
    BY <1>1, HeapTypes
  <2>2. QED
    BY <1>2, <1>3, <1>5, <1>7, <1>10, <2>1 DEF Tidy, Live
<1>11. QED
  BY <1>2, <1>3, <1>4, <1>5, <1>6, <1>7, <1>8, <1>9, <1>10 DEF Marking, SameLists

\* An object is visited when it is black and all it refers to is marked.
LEMMA BlackVisit ==
    ASSUME NEW g, NEW b, NEW m, NEW P, NEW t \in Bodies, Marking(g, P \cup {t}), Blackens(g, b, t),
           ~IsWhite(g, t), g.kind[t] \notin NeverBlack, Advances(b, m, P \cup {t}, t),
           RefsIn(m, t, NonWhite(m))
    PROVE  VisitOf(g, m, t, P)
<1>1. /\ Marking(b, P \cup {t}) /\ Grows(g, b) /\ Todo(b) = Todo(g) /\ Whites(b) = Whites(g)
      /\ b.gray = g.gray /\ b.col[t] = "black" /\ GrayLists(b) = GrayLists(g)
      /\ \A x \in Bodies : x # t => b.col[x] = g.col[x]
      /\ \A x \in Bodies : IsWhite(b, x) <=> IsWhite(g, x)
      /\ b.kind = g.kind /\ b.ephemeron = g.ephemeron
      /\ Tidy(g, {t}) /\ t \notin GrayLists(g) => Tidy(b, {t})
  BY BlackenKeeps
<1>2. Marking(m, P \cup {t}) /\ Grows(b, m) /\ Grows(g, m)
  BY <1>1, GrowsOn DEF Advances
<1>3. m.kind = g.kind /\ m.ephemeron = g.ephemeron
  BY <1>1 DEF Advances, Grows, Follows, Fixed, SameLists
<1>4. Done(m, t)
  BY <1>3 DEF Done, NeverBlack
<1>5. Marking(m, P)
  BY <1>2, <1>4, DoneCovers
<1>6. m.col[t] = "black"
  BY <1>1 DEF Advances, IsWhite
<1>7. Tidy(m, {t}) => Tidy(m, {})
  BY <1>6 DEF Tidy
<1>8. QED
  BY <1>1, <1>2, <1>3, <1>4, <1>5, <1>6, <1>7 DEF VisitOf, Advances, NeverBlack

\* Strong tables, closures and userdata.
LEMMA StrongVisit ==
    ASSUME NEW g, NEW P, NEW t \in Bodies, Marking(g, P \cup {t}), ~IsWhite(g, t),
           g.kind[t] \notin NeverBlack, NEW b, Blackens(g, b, t), b.val = g.val,
           NEW V, V = KeysOf(g, t) \cup {g.val[t][k] : k \in Keys}
    PROVE  VisitOf(g, Mark(b, V), t, P)
<1> DEFINE m == Mark(b, V)
<1>1. g \in Heap /\ Shaped(g)
  BY MarkingFacts
<1>2. Blackens(g, b, t) /\ b.val = g.val
  OBVIOUS
<1>3. Marking(b, P \cup {t})
  BY <1>2, BlackenKeeps
<1>4. Advances(b, m, P \cup {t}, t) /\ \A v \in V : v \in Bodies => v \in NonWhite(m)
  BY <1>3, MarkAdvances
<1> HIDE DEF m
<1>5. m \in Heap /\ Shaped(m) /\ m.val = g.val /\ m.kind = g.kind
  BY <1>2, <1>4, MarkingFacts DEF Advances, Blackens, Grows, Follows, Fixed
<1>6. RefsIn(m, t, NonWhite(m))
  <2>1. \A k \in Keys : m.val[t][k] # Nil => m.val[t][k] \in Bodies /\ m.val[t][k] \in V
    BY <1>5, RoomOf
  <2>2. \A k \in Objs : m.val[t][k] # Nil => k \in Bodies /\ k \in V
    BY <1>5, Names DEF KeysOf
  <2>3. QED
    BY <1>4, <1>5, <2>1, <2>2, RefsOf, Names DEF NeverBlack
<1>7. VisitOf(g, m, t, P)
  BY <1>2, <1>4, <1>6, BlackVisit
<1>8. QED
  BY <1>7 DEF m

\* traverseproto drops a cached closure that is white.
LEMMA ProtoVisit ==
    ASSUME NEW g, NEW P, NEW t \in Bodies, Marking(g, P \cup {t}), ~IsWhite(g, t),
           g.kind[t] = "proto"
    PROVE  VisitOf(g, TraverseProto(g, t), t, P)
<1> DEFINE c == g.val[t][1]
           x == IF c # Nil /\ IsWhite(g, c) THEN Nil ELSE c
           m == TraverseProto(g, t)
<1>1. g \in Heap /\ Shaped(g) /\ Core(g) /\ g.kind[t] \notin NeverBlack
  BY MarkingFacts DEF NeverBlack
<1>2. t # Main
  BY <1>1 DEF Shaped
<1>3. x \in Objs \cup {Nil} /\ (x # Nil => ~IsWhite(g, x)) /\ x \in {Nil, c}
  BY <1>1, HeapTypes, Names
<1>4. m = [g EXCEPT !.col[t] = "black", !.val[t][1] = x]
  BY Zenon DEF TraverseProto
<1> HIDE DEF x, m
<1>5. /\ m \in Heap /\ Fixed(g, m) /\ SameLists(g, m) /\ m.gray = g.gray
      /\ m.col = [g.col EXCEPT ![t] = "black"] /\ m.val = [g.val EXCEPT ![t][1] = x]
  BY <1>1, <1>3, <1>4, Names DEF Heap, Fixed, SameLists, Colors
<1>6. \A o \in Bodies, k \in Keys : m.val[o][k] = IF o = t /\ k = 1 THEN x ELSE g.val[o][k]
  BY <1>1, <1>5, HeapTypes, Names
<1>7. Blackens(g, m, t)
  BY <1>3, <1>5, <1>6 DEF Blackens
<1>8. Marking(m, P \cup {t}) /\ NonWhite(m) = NonWhite(g) /\ m.kind = g.kind
  BY <1>1, <1>7, BlackenKeeps DEF NonWhite
<1>9. Advances(m, m, P \cup {t}, t)
  BY <1>8, AdvancesSelf
<1>10. RefsIn(m, t, NonWhite(m))
  <2>1. Shaped(m) /\ m \in Heap
    BY <1>8, MarkingFacts
  <2>2. \A k \in Keys : k = 1 \/ m.val[t][k] = Nil
    BY <1>2, <1>8, <2>1, RoomOf
  <2>3. m.val[t][1] # Nil => m.val[t][1] \in NonWhite(m)
    BY <1>3, <1>6, <1>8, Names DEF NonWhite
  <2>4. QED
    BY <1>8, <2>1, <2>2, <2>3, RefsOf, Names
<1>11. QED
  BY <1>1, <1>7, <1>9, <1>10, BlackVisit DEF m

\* propagatemark visits an object and takes it from the gray list.
Propagates(g, m, o, P) ==
  /\ Marking(m, P) /\ Grows(g, m) /\ Done(m, o) /\ Todo(m) \subseteq Todo(g) \ {o}
  /\ \A x \in Bodies : x # o /\ ~IsWhite(g, x) => m.col[x] = g.col[x]
  /\ m.ephemeron \subseteq g.ephemeron \cup {o}
  /\ Whites(m) \subseteq Whites(g)
  /\ Whites(m) = Whites(g) /\ o \in m.ephemeron => o \in g.ephemeron \/ Valued(m, o)
  /\ Tidy(g, {}) => Tidy(m, {})

\* propagatemark visits the object it takes from the gray list.
LEMMA TraverseVisits ==
    ASSUME NEW g, NEW P, NEW o \in g.gray, Marking(g, P)
    PROVE  Propagates(g, Traverse(g, o), o, P)
<1>1. PICK e : e = [g EXCEPT !.gray = @ \ {o}, !.col[o] = "gray"]
  OBVIOUS
<1>2. PICK m : m = Traverse(g, o)
  OBVIOUS
<1>3. /\ g \in Heap /\ Shaped(g) /\ Core(g) /\ Filed(g) /\ Colored(g) /\ o \in Bodies /\ ~IsWhite(g, o)
      /\ g.kind[o] \notin {"free", "string", "udata", "open", "closed"}
      /\ g.kind \in [Bodies -> Kinds \cup {"free"}]
  BY MarkingFacts, HeapTypes DEF Filed, GrayLists
<1>4. /\ e \in Heap /\ Fixed(g, e) /\ SameLists(g, e) /\ e.gray = g.gray \ {o} /\ e.val = g.val
      /\ e.col = [g.col EXCEPT ![o] = "gray"]
  BY <1>1, <1>3 DEF Heap, Fixed, SameLists, Colors
<1>5. \A x \in Bodies : e.col[x] = IF x = o THEN "gray" ELSE g.col[x]
  BY <1>3, <1>4, HeapTypes
<1>6. Follows(g, e) /\ Grows(g, e)
  BY <1>3, <1>4, <1>5 DEF Follows, Grows, Colored, SameLists
<1>7. Core(e) /\ e.kind = g.kind /\ Live(e) = Live(g)
  BY <1>3, <1>6, FollowsCore, FollowsWhite
<1>8. \A x \in Bodies : IsWhite(e, x) <=> IsWhite(g, x)
  BY <1>3, <1>5 DEF IsWhite
<1>9. Whites(e) = Whites(g) /\ Todo(e) \subseteq Todo(g) \ {o}
  BY <1>3, <1>4, <1>8 DEF Whites, Todo
<1>10. Marking(e, P \cup {o})
  <2>1. Filed(e)
    BY <1>3, <1>4, <1>7, <1>8, HeapTypes DEF Filed, GrayLists, SameLists
  <2>2. ASSUME NEW x \in Live(e), ~IsWhite(e, x), x \notin e.gray \cup (P \cup {o})
        PROVE  Done(e, x)
    <3>1. Done(g, x) /\ x \in Bodies
      BY <1>4, <1>7, <1>8, <2>2 DEF Marking, Covered, Live
    <3>2. QED
      BY <1>3, <1>6, <3>1, DoneKept
  <2>3. QED
    BY <1>7, <2>1, <2>2 DEF Marking, Covered
<1>11. Tidy(g, {}) => Tidy(e, {o}) /\ o \notin GrayLists(e)
  <2>1. GrayLists(g) \subseteq Bodies
    BY <1>3, HeapTypes
  <2>2. GrayLists(e) \subseteq GrayLists(g)
    BY <1>4 DEF GrayLists, SameLists
  <2>3. Others(e) = Others(g)
    BY <1>4 DEF Others, SameLists
  <2>4. ASSUME Tidy(g, {})
        PROVE  Tidy(e, {o}) /\ o \notin GrayLists(e)
    <3>1. \A x \in GrayLists(e) : e.col[x] = "gray"
      BY <1>5, <2>1, <2>2, <2>4 DEF Tidy
    <3>2. o \notin GrayLists(e) /\ e.gray \cap Others(e) = {}
      BY <1>4, <2>3, <2>4 DEF Tidy, GrayLists, Others, SameLists
    <3>3. ASSUME NEW x \in Live(e) \ {o}, e.col[x] = "gray", e.kind[x] # "open"
          PROVE  x \in GrayLists(e)
      BY <1>4, <1>5, <1>7, <2>4, <3>3 DEF Tidy, GrayLists, SameLists, Live
    <3>4. QED
      BY <3>1, <3>2, <3>3 DEF Tidy
  <2>5. QED
    BY <2>4
<1>12. ~IsWhite(e, o) /\ e.col[o] = "gray"
  BY <1>3, <1>5, <1>8
<1>13. VisitOf(e, m, o, P)
  <2>1. m = CASE e.kind[o] = "weakvalue" -> TraverseWeakValue(e, o)
              [] e.kind[o] = "ephemeron" -> TraverseEphemeron(e, o)
              [] e.kind[o] = "allweak" -> [e EXCEPT !.allweak = @ \cup {o}]
              [] e.kind[o] = "thread" ->
                   Mark([e EXCEPT !.grayagain = @ \cup {o}], {e.val[o][s] : s \in Slots})
              [] e.kind[o] = "proto" -> TraverseProto(e, o)
              [] OTHER -> Mark([e EXCEPT !.col[o] = "black"],
                               KeysOf(e, o) \cup {e.val[o][k] : k \in Keys})
    BY <1>1, <1>2, Zenon DEF Traverse
  <2>2. CASE e.kind[o] = "weakvalue"
    BY <1>3, <1>10, <1>12, <2>1, <2>2, WeakValueVisit
  <2>3. CASE e.kind[o] = "ephemeron"
    BY <1>3, <1>10, <1>12, <2>1, <2>3, EphemeronVisit
  <2>4. CASE e.kind[o] = "allweak"
    BY <1>3, <1>10, <1>12, <2>1, <2>4, AllWeakVisit
  <2>5. CASE e.kind[o] = "thread"
    <3>1. PICK n : n = [e EXCEPT !.grayagain = @ \cup {o}]
      OBVIOUS
    <3>4. PICK V : V = {e.val[o][s] : s \in Slots}
      OBVIOUS
    <3>2. m = Mark(n, V)
      BY <2>1, <2>5, <3>1, <3>4
    <3>5. Files(e, n, o) /\ n.weak = e.weak /\ n.allweak = e.allweak /\ n.ephemeron = e.ephemeron
      BY <1>3, <1>4, <3>1, FilesOn
    <3>3. VisitOf(e, Mark(n, V), o, P)
      BY <1>3, <1>10, <1>12, <2>5, <3>4, <3>5, ThreadVisit
    <3>6. QED
      BY <3>2, <3>3
  <2>6. CASE e.kind[o] = "proto"
    BY <1>3, <1>10, <1>12, <2>1, <2>6, ProtoVisit
  <2>7. CASE e.kind[o] \notin {"weakvalue", "ephemeron", "allweak", "thread", "proto"}
    <3>0. PICK b : b = [e EXCEPT !.col[o] = "black"]
      OBVIOUS
    <3>4. PICK V : V = KeysOf(e, o) \cup {e.val[o][k] : k \in Keys}
      OBVIOUS
    <3>1. m = Mark(b, V)
      BY <2>1, <2>7, <3>0, <3>4
    <3>2. e.kind[o] \notin NeverBlack
      BY <1>3, <1>7, <2>7 DEF NeverBlack
    <3>5. Blackens(e, b, o) /\ b.val = e.val
      BY <1>3, <1>4, <3>0 DEF Blackens, Heap, Fixed, SameLists, Colors
    <3>3. VisitOf(e, Mark(b, V), o, P)
      BY <1>3, <1>10, <1>12, <3>2, <3>4, <3>5, StrongVisit
    <3>6. QED
      BY <3>1, <3>3
  <2>8. QED
    BY <2>2, <2>3, <2>4, <2>5, <2>6, <2>7
<1>14. Grows(g, m)
  BY <1>6, <1>13, GrowsOn DEF VisitOf
<1>15. \A x \in Bodies : x # o /\ ~IsWhite(g, x) => m.col[x] = g.col[x]
  BY <1>5, <1>8, <1>13 DEF VisitOf
<1>16. e.ephemeron = g.ephemeron
  BY <1>4 DEF SameLists
<1>17. Propagates(g, m, o, P)
  BY <1>9, <1>11, <1>12, <1>13, <1>14, <1>15, <1>16 DEF Propagates, VisitOf
<1>18. QED
  BY <1>2, <1>17

\* There are finitely many objects.
LEMMA Finite ==
    /\ IsFiniteSet(Bodies) /\ Cardinality(Bodies) \in Nat
    /\ \A S \in SUBSET Bodies : IsFiniteSet(S) /\ Cardinality(S) \in Nat
                                 /\ Cardinality(S) <= Cardinality(Bodies)
<1>1. IsFiniteSet(Bodies)
  BY GCAssumption, FS_AddElement DEF Bodies
<1>2. QED
  BY <1>1, FS_CardinalityType, FS_Subset

\* A set that loses an element has fewer.
LEMMA Fewer ==
    ASSUME NEW S \in SUBSET Bodies, NEW T \in SUBSET S, NEW x \in S, x \notin T
    PROVE  Cardinality(T) <= Cardinality(S) - 1 /\ Cardinality(S) \in Nat /\ Cardinality(T) \in Nat
<1>1. IsFiniteSet(S) /\ Cardinality(S) \in Nat
  BY Finite
<1>2. IsFiniteSet(S \ {x}) /\ Cardinality(S \ {x}) = Cardinality(S) - 1
  BY <1>1, FS_RemoveElement
<1>3. T \in SUBSET (S \ {x})
  OBVIOUS
<1>4. Cardinality(T) <= Cardinality(S \ {x}) /\ IsFiniteSet(T)
  BY <1>2, <1>3, FS_Subset
<1>5. Cardinality(T) \in Nat
  BY <1>4, FS_CardinalityType
<1>6. QED
  BY <1>1, <1>2, <1>4, <1>5

\* propagateall
Exhausts(g, m, P) ==
  /\ Marking(m, P) /\ Grows(g, m) /\ Whites(m) \subseteq Whites(g)
  /\ g.gray = {} => m = g

\* One round of propagateall leaves less to visit.
LEMMA PropagateRound ==
    ASSUME NEW g, NEW m, NEW P, Exhausts(g, m, P), m.gray # {}, NEW r,
           r = Traverse(m, CHOOSE o \in m.gray : TRUE)
    PROVE  Exhausts(g, r, P) /\ Cardinality(Todo(r)) <= Cardinality(Todo(m)) - 1
           /\ Cardinality(Todo(m)) \in Nat /\ Cardinality(Todo(r)) \in Nat
<1>1. PICK o \in m.gray : o = CHOOSE x \in m.gray : TRUE
  OBVIOUS
<1>2. Propagates(m, r, o, P)
  BY <1>1, TraverseVisits DEF Exhausts
<1>3. g.gray # {}
  BY DEF Exhausts
<1>4. Exhausts(g, r, P)
  BY <1>2, <1>3, GrowsOn DEF Exhausts, Propagates
<1>5. Todo(m) \in SUBSET Bodies /\ Todo(r) \in SUBSET Todo(m) /\ o \in Todo(m) /\ o \notin Todo(r)
  BY <1>2, HeapTypes, MarkingFacts DEF Todo, Whites, Propagates, Exhausts
<1>6. QED
  BY <1>4, <1>5, Fewer

\* propagateall ends with no gray object left to visit.
LEMMA PropagatesAll ==
    ASSUME NEW g, NEW P, Marking(g, P)
    PROVE  Exhausts(g, PropagateAll(g), P) /\ PropagateAll(g).gray = {}
<1> DEFINE N == Cardinality(Bodies)
           S == {m \in Heap : Exhausts(g, m, P)}
           go(m) == IF m.gray = {} THEN m ELSE Traverse(m, CHOOSE o \in m.gray : TRUE)
           f(after) == [n \in 0..N |-> IF n = 0 THEN g ELSE go(after[n - 1])]
           after == CHOOSE after : after = f(after)
           G == [n \in 1..N |-> [m \in S |-> go(m)]]
<1>1. PropagateAll(g) = after[N]
  BY Zenon DEF PropagateAll
<1>2. N \in Nat
  BY Finite
<1>3. g \in S
  BY FollowsSelf, MarkingFacts DEF Exhausts
<1>4. \A m \in S : go(m) \in S
  <2> SUFFICES ASSUME NEW m \in S, m.gray # {}
               PROVE  go(m) \in S
    OBVIOUS
  <2>1. Exhausts(g, go(m), P)
    BY PropagateRound
  <2>2. QED
    BY <2>1, MarkingFacts DEF Exhausts
<1>5. \A m \in S : m.gray # {} => Cardinality(Todo(go(m))) <= Cardinality(Todo(m)) - 1
                       /\ Cardinality(Todo(m)) \in Nat /\ Cardinality(Todo(go(m))) \in Nat
  BY PropagateRound
<1>0. \A m : m.gray = {} => go(m) = m
  OBVIOUS
<1>6. \A m \in S : Todo(m) \in SUBSET Bodies /\ Cardinality(Todo(m)) \in Nat /\ Cardinality(Todo(m)) <= N
                   /\ (Todo(m) = {} => m.gray = {}) /\ (Cardinality(Todo(m)) <= 0 => m.gray = {})
  <2> SUFFICES ASSUME NEW m \in S
               PROVE  Todo(m) \in SUBSET Bodies /\ Cardinality(Todo(m)) \in Nat /\ Cardinality(Todo(m)) <= N
                      /\ (Todo(m) = {} => m.gray = {}) /\ (Cardinality(Todo(m)) <= 0 => m.gray = {})
    OBVIOUS
  <2>1. Todo(m) \in SUBSET Bodies
    BY HeapTypes DEF Todo, Whites
  <2>2. IsFiniteSet(Todo(m)) /\ Cardinality(Todo(m)) \in Nat /\ Cardinality(Todo(m)) <= N
    BY <2>1, Finite
  <2>3. Cardinality(Todo(m)) <= 0 => Todo(m) = {}
    BY <2>2, FS_EmptySet
  <2>4. QED
    BY <2>1, <2>2, <2>3 DEF Todo
<1> HIDE DEF S, go, N
<1>7. Rounds(1..N, S, G) /\ \A n \in 1..N : \A m \in S : G[n][m] = go(m)
  BY <1>4 DEF Rounds
<1> HIDE DEF G, f
<1>8. PICK u : Runs(N, S, g, G, u)
  BY <1>2, <1>3, <1>7, Iterates
<1>9. u \in [0..N -> S] /\ u[0] = g
  BY <1>8 DEF Runs
<1>10. \A n \in 1..N : u[n] = go(u[n - 1])
  <2>1. \A n \in 1..N : n - 1 \in 0..N /\ u[n - 1] \in S
    BY <1>2, <1>9
  <2>2. QED
    BY <1>7, <1>8, <2>1, Zenon DEF Runs, ByRounds
<1>11. u = f(u)
  <2>1. \A n \in 0..N : n = 0 \/ n \in 1..N
    BY <1>2
  <2>2. \A n \in 0..N : u[n] = IF n = 0 THEN g ELSE go(u[n - 1])
    BY <1>9, <1>10, <2>1
  <2>3. QED
    BY <1>9, <2>2 DEF f
<1>12. after = f(after)
  BY <1>11, Zenon
<1> DEFINE at == after
<1>13. \A n \in 0..N : at[n] = IF n = 0 THEN g ELSE go(at[n - 1])
  BY <1>12 DEF f
<1> HIDE DEF after, at
<1> DEFINE T == {n \in 0..N : at[n] \in S /\ (at[n].gray = {} \/ Cardinality(Todo(at[n])) <= N - n)}
<1>14. 0 \in T
  <2>1. 0 \in 0..N /\ at[0] = g
    BY <1>2, <1>13
  <2>2. QED
    BY <1>2, <1>3, <1>6, <2>1
<1>15. ASSUME NEW n \in 1..N, n - 1 \in T
       PROVE  n \in T
  <2>1. PICK x, y : x = at[n - 1] /\ y = at[n]
    OBVIOUS
  <2>2. n \in 0..N /\ n # 0 /\ n \in Nat
    BY <1>2
  <2>3. y = go(x)
    BY <1>13, <2>1, <2>2
  <2>4. x \in S /\ (x.gray = {} \/ Cardinality(Todo(x)) <= N - (n - 1))
    BY <1>15, <2>1
  <2>5. y \in S
    BY <1>4, <2>3, <2>4
  <2>6. CASE x.gray = {}
    BY <1>0, <2>1, <2>2, <2>3, <2>4, <2>6
  <2>7. CASE x.gray # {}
    <3>1. Cardinality(Todo(y)) <= Cardinality(Todo(x)) - 1 /\ Cardinality(Todo(x)) \in Nat
          /\ Cardinality(Todo(y)) \in Nat
      BY <1>5, <2>3, <2>4, <2>7
    <3>2. PICK a, b : a = Cardinality(Todo(x)) /\ b = Cardinality(Todo(y))
      OBVIOUS
    <3>3. b <= N - n
      BY <1>2, <2>2, <2>4, <2>7, <3>1, <3>2
    <3>4. QED
      BY <2>1, <2>2, <2>5, <3>2, <3>3
  <2>8. QED
    BY <2>6, <2>7
<1> HIDE DEF T
<1>16. N \in T
  <2>1. 0..N \subseteq T
    BY <1>2, <1>14, <1>15, StepsTo
  <2>2. QED
    BY <1>2, <2>1
<1>17. at[N] \in S /\ at[N].gray = {}
  <2>1. at[N] \in S /\ (at[N].gray = {} \/ Cardinality(Todo(at[N])) <= 0)
    BY <1>2, <1>16 DEF T
  <2>2. QED
    BY <1>6, <2>1
<1>18. QED
  BY <1>1, <1>17 DEF at, S

\* Objects that may be on a gray list.
Listable(g, l) ==
  \A o \in l : o \in Bodies /\ ~IsWhite(g, o) /\ g.kind[o] \notin {"free", "string", "udata", "open", "closed"}

\* What may be on a gray list still may after more marking.
LEMMA ListableKept ==
    ASSUME NEW g \in Heap, NEW m, NEW l, Follows(g, m), Listable(g, l)
    PROVE  Listable(m, l)
BY FollowsWhite DEF Listable

\* An empty gray list is replaced by l.
LEMMA Regray ==
    ASSUME NEW g, NEW P, NEW l, Marking(g, P), g.gray = {}, Listable(g, l),
           NEW m, m = [g EXCEPT !.gray = l]
    PROVE  Marking(m, P \ l) /\ Grows(g, m) /\ Whites(m) = Whites(g)
<1>1. g \in Heap /\ Core(g) /\ Filed(g) /\ Colored(g)
  BY MarkingFacts
<1>2. l \in SUBSET Bodies
  BY DEF Listable
<1>3. /\ m \in Heap /\ Fixed(g, m) /\ SameLists(g, m) /\ m.gray = l /\ m.col = g.col /\ m.val = g.val
  BY <1>1, <1>2 DEF Heap, Fixed, SameLists
<1>4. Follows(g, m) /\ Grows(g, m)
  BY <1>1, <1>3 DEF Follows, Grows, Colored, SameLists
<1>5. Core(m) /\ m.kind = g.kind /\ Live(m) = Live(g) /\ Whites(m) = Whites(g)
  BY <1>1, <1>3, <1>4, FollowsCore, FollowsWhite DEF Whites, IsWhite
<1>6. Filed(m)
  BY <1>1, <1>3, <1>5 DEF Filed, GrayLists, SameLists, Listable, IsWhite
<1>7. ASSUME NEW o \in Live(m), ~IsWhite(m, o), o \notin m.gray \cup (P \ l)
      PROVE  Done(m, o)
  <2>1. Done(g, o) /\ o \in Bodies
    BY <1>3, <1>5, <1>7 DEF Marking, Covered, Live, IsWhite
  <2>2. QED
    BY <1>1, <1>4, <2>1, DoneKept
<1>8. QED
  BY <1>4, <1>5, <1>6, <1>7 DEF Marking, Covered

\* propagatelist visits the objects of a list again.
LEMMA PropagatesList ==
    ASSUME NEW g, NEW P, NEW l, Marking(g, P), g.gray = {}, Listable(g, l)
    PROVE  /\ Marking(PropagateList(g, l), P \ l) /\ Grows(g, PropagateList(g, l))
           /\ PropagateList(g, l).gray = {}
<1>1. PICK m : m = [g EXCEPT !.gray = l]
  OBVIOUS
<1>2. Marking(m, P \ l) /\ Grows(g, m)
  BY <1>1, Regray
<1>3. Exhausts(m, PropagateAll(m), P \ l) /\ PropagateAll(m).gray = {}
  BY <1>2, PropagatesAll
<1>4. PropagateList(g, l) = PropagateAll(m)
  BY <1>1 DEF PropagateList
<1>5. QED
  BY <1>2, <1>3, <1>4, GrowsOn DEF Exhausts

\* The objects retraversegrays and convergeephemerons visit again.
Again(g) == g.grayagain \cup g.weak \cup g.ephemeron

\* Lists are emptied whose objects are to be visited again.
LEMMA Emptied ==
    ASSUME NEW g, NEW m, NEW P, Marking(g, P), m \in Heap, Fixed(g, m), m.col = g.col, m.val = g.val,
           m.gray = g.gray, m.allweak = g.allweak, m.grayagain \subseteq g.grayagain,
           m.weak \subseteq g.weak, m.ephemeron \subseteq g.ephemeron
    PROVE  /\ Follows(g, m) /\ Whites(m) = Whites(g)
           /\ Marking(m, P \cup (g.weak \ m.weak) \cup (g.ephemeron \ m.ephemeron))
<1>1. g \in Heap /\ Core(g) /\ Filed(g) /\ Colored(g)
  BY MarkingFacts
<1>2. Follows(g, m)
  BY <1>1 DEF Follows, Colored
<1>3. Core(m) /\ m.kind = g.kind /\ Live(m) = Live(g) /\ Whites(m) = Whites(g) /\ NonWhite(m) = NonWhite(g)
  BY <1>1, <1>2, FollowsCore, FollowsWhite DEF Whites, IsWhite, NonWhite
<1>4. Filed(m)
  BY <1>1, <1>3 DEF Filed, GrayLists, IsWhite
<1>5. ASSUME NEW o \in Live(m), ~IsWhite(m, o),
             o \notin m.gray \cup (P \cup (g.weak \ m.weak) \cup (g.ephemeron \ m.ephemeron))
      PROVE  Done(m, o)
  <2>1. Done(g, o) /\ o \in Bodies
    BY <1>3, <1>5 DEF Marking, Covered, Live, IsWhite
  <2>2. /\ ValuesIn(g, o, NonWhite(g)) => ValuesIn(m, o, NonWhite(m))
        /\ KeysIn(g, o, NonWhite(g)) => KeysIn(m, o, NonWhite(m))
        /\ RefsIn(g, o, NonWhite(g)) => RefsIn(m, o, NonWhite(m))
    BY <1>1, <1>2, <1>3, <2>1, FollowsRefs
  <2>3. QED
    BY <1>3, <1>5, <2>1, <2>2 DEF Done
<1>6. QED
  BY <1>2, <1>3, <1>4, <1>5 DEF Marking, Covered

\* retraversegrays visits every object the propagate phase put off.
LEMMA RetraversesGrays ==
    ASSUME NEW g, NEW P, Marking(g, P), P \subseteq Again(g)
    PROVE  LET m == RetraverseGrays(g)
           IN Marking(m, {}) /\ Follows(g, m) /\ m.gray = {} /\ g.allweak \subseteq m.allweak
<1>1. PICK e : e = [g EXCEPT !.weak = {}, !.grayagain = {}, !.ephemeron = {}]
  OBVIOUS
<1>2. g \in Heap /\ Core(g) /\ Filed(g)
  BY MarkingFacts
<1>3. /\ e \in Heap /\ Fixed(g, e) /\ e.col = g.col /\ e.val = g.val /\ e.gray = g.gray
      /\ e.allweak = g.allweak /\ e.grayagain = {} /\ e.weak = {} /\ e.ephemeron = {}
  BY <1>1, <1>2 DEF Heap, Fixed
<1>4. /\ Follows(g, e) /\ Marking(e, P \cup (g.weak \ e.weak) \cup (g.ephemeron \ e.ephemeron))
  BY <1>2, <1>3, Emptied
<1>5. Marking(e, Again(g))
  BY <1>4 DEF Marking, Covered, Again
<1>6. PICK m1 : m1 = PropagateAll(e)
  OBVIOUS
<1>7. Marking(m1, Again(g)) /\ Grows(e, m1) /\ m1.gray = {}
  BY <1>5, <1>6, PropagatesAll DEF Exhausts
<1>8. Follows(g, m1)
  BY <1>4, <1>7, FollowsOn DEF Grows
<1>9. Listable(g, g.grayagain) /\ Listable(g, g.weak) /\ Listable(g, g.ephemeron)
  BY <1>2, HeapTypes DEF Listable, Filed, GrayLists
<1>10. PICK m2 : m2 = PropagateList(m1, g.grayagain)
  OBVIOUS
<1>11. Marking(m2, Again(g) \ g.grayagain) /\ Grows(m1, m2) /\ m2.gray = {} /\ Follows(g, m2)
  BY <1>2, <1>7, <1>8, <1>9, <1>10, ListableKept, PropagatesList, FollowsOn DEF Grows
<1>12. PICK m3 : m3 = PropagateList(m2, g.weak)
  OBVIOUS
<1>13. Marking(m3, (Again(g) \ g.grayagain) \ g.weak) /\ Grows(m2, m3) /\ m3.gray = {} /\ Follows(g, m3)
  BY <1>2, <1>9, <1>11, <1>12, ListableKept, PropagatesList, FollowsOn DEF Grows
<1>14. PICK m4 : m4 = PropagateList(m3, g.ephemeron)
  OBVIOUS
<1>15. Marking(m4, ((Again(g) \ g.grayagain) \ g.weak) \ g.ephemeron) /\ Grows(m3, m4) /\ m4.gray = {}
       /\ Follows(g, m4)
  BY <1>2, <1>9, <1>13, <1>14, ListableKept, PropagatesList, FollowsOn DEF Grows
<1>16. ((Again(g) \ g.grayagain) \ g.weak) \ g.ephemeron = {}
  BY DEF Again
<1>17. RetraverseGrays(g) = m4
  BY <1>1, <1>6, <1>10, <1>12, <1>14 DEF RetraverseGrays
<1>18. g.allweak \subseteq m4.allweak
  BY <1>3, <1>7, <1>11, <1>13, <1>15 DEF Grows
<1>19. QED
  BY <1>15, <1>16, <1>17, <1>18

\* A table whose values are marked keeps them while nothing else is marked.
LEMMA ValuedKept ==
    ASSUME NEW g \in Heap, NEW m, NEW t \in Bodies, Follows(g, m), Whites(m) = Whites(g), Valued(g, t)
    PROVE  Valued(m, t)
<1>1. m.kind = g.kind /\ NonWhite(m) = NonWhite(g) /\ \A x \in Bodies : IsWhite(m, x) <=> IsWhite(g, x)
  BY DEF Whites, NonWhite, Follows, Fixed
<1>2. \A k \in Objs : k \in Keys /\ k \in Bodies
  BY Names
<1>3. \A k \in Objs : m.val[t][k] # Nil => m.val[t][k] = g.val[t][k]
  BY <1>2 DEF Follows
<1>4. QED
  BY <1>1, <1>2, <1>3 DEF Valued

\* What a round of convergeephemerons leaves if it marks nothing.
Settled(g, m) ==
  Whites(m) = Whites(g) => m.col = g.col /\ \A t \in m.ephemeron : t \in g.ephemeron \/ Valued(m, t)
\* Between the visits of a round, with the tables of l to go.
Rechecks(g, m, l) ==
  /\ Marking(m, l) /\ m.gray = {} /\ Grows(g, m) /\ Whites(m) \subseteq Whites(g) /\ Settled(g, m)
  /\ \A t \in l : t \in Bodies /\ ~IsWhite(m, t) /\ m.kind[t] = "ephemeron"

\* convergeephemerons visits one more table of its list.
LEMMA RecheckOne ==
    ASSUME NEW g, NEW m, NEW l, NEW t \in l, g \in Heap, Rechecks(g, m, l), NEW r,
           r = PropagateAll(TraverseEphemeron(m, t))
    PROVE  Rechecks(g, r, l \ {t})
<1>1. PICK e : e = TraverseEphemeron(m, t)
  OBVIOUS
<1>2. PICK Q : Q = l \ {t}
  OBVIOUS
<1>3. /\ Marking(m, Q \cup {t}) /\ m.gray = {} /\ Grows(g, m) /\ Whites(m) \subseteq Whites(g)
      /\ t \in Bodies /\ ~IsWhite(m, t) /\ m.kind[t] = "ephemeron" /\ m \in Heap
  <2>1. Q \cup {t} = l
    BY <1>2
  <2>2. QED
    BY <2>1, MarkingFacts DEF Rechecks
<1>4. VisitOf(m, e, t, Q)
  BY <1>1, <1>3, EphemeronVisit
<1>5. Marking(e, Q) /\ Grows(m, e) /\ e \in Heap
  BY <1>4, MarkingFacts DEF VisitOf
<1>6. Exhausts(e, r, Q) /\ r.gray = {}
  BY <1>1, <1>5, PropagatesAll
<1>7. Marking(r, Q) /\ Grows(m, r) /\ Grows(g, r) /\ Whites(r) \subseteq Whites(e) /\ Whites(e) \subseteq Whites(m)
  BY <1>3, <1>4, <1>5, <1>6, GrowsOn DEF Exhausts, VisitOf
<1>8. ASSUME Whites(r) = Whites(g)
      PROVE  r.col = g.col /\ \A x \in r.ephemeron : x \in g.ephemeron \/ Valued(r, x)
  <2>1. Whites(m) = Whites(g) /\ Whites(e) = Whites(m) /\ Whites(r) = Whites(m)
    BY <1>3, <1>7, <1>8
  <2>2. e.gray = {} /\ \A x \in Bodies : e.col[x] = m.col[x]
    BY <1>3, <1>4, <2>1 DEF VisitOf
  <2>3. r = e
    BY <1>6, <2>2 DEF Exhausts
  <2>4. e.col = m.col
    BY <1>3, <1>5, <2>2, HeapTypes
  <2>5. m.col = g.col /\ \A x \in m.ephemeron : x \in g.ephemeron \/ Valued(m, x)
    BY <2>1 DEF Rechecks, Settled
  <2>6. ASSUME NEW x \in r.ephemeron
        PROVE  x \in g.ephemeron \/ Valued(r, x)
    <3>1. x \in m.ephemeron \/ (x = t /\ Valued(e, t))
      BY <1>4, <2>1, <2>3, <2>6 DEF VisitOf
    <3>2. x \in Bodies
      BY <1>5, <2>3, <2>6, HeapTypes DEF GrayLists
    <3>3. Valued(m, x) => Valued(r, x)
      BY <1>3, <1>7, <2>1, <3>2, ValuedKept DEF Grows
    <3>4. QED
      BY <2>3, <2>5, <3>1, <3>3
  <2>7. QED
    BY <2>3, <2>4, <2>5, <2>6
<1>9. \A x \in Q : x \in Bodies /\ ~IsWhite(r, x) /\ r.kind[x] = "ephemeron"
  <2>1. \A x \in Q : x \in Bodies /\ ~IsWhite(m, x) /\ m.kind[x] = "ephemeron"
    BY <1>2 DEF Rechecks
  <2>2. Follows(m, r)
    BY <1>7 DEF Grows
  <2>3. QED
    BY <1>3, <2>1, <2>2, FollowsWhite
<1>10. Rechecks(g, r, Q)
  BY <1>3, <1>6, <1>7, <1>8, <1>9 DEF Rechecks, Settled
<1>11. QED
  BY <1>2, <1>10

\* One round of convergeephemerons.
LEMMA TraversesEach ==
    ASSUME NEW g, NEW l, l \subseteq Bodies, Marking(g, l), g.gray = {},
           \A t \in l : ~IsWhite(g, t) /\ g.kind[t] = "ephemeron"
    PROVE  Rechecks(g, TraverseEach(g, l), {})
<1> DEFINE N == Cardinality(l)
           b == [g |-> g, l |-> l]
           go(m) == LET t == CHOOSE x \in m.l : TRUE
                    IN [g |-> PropagateAll(TraverseEphemeron(m.g, t)), l |-> m.l \ {t}]
           S == {x \in [g : Heap, l : SUBSET l] : Rechecks(g, x.g, x.l)}
           stay(m) == IF m.l = {} THEN m ELSE go(m)
           f(after) == [n \in 0..N |-> IF n = 0 THEN b ELSE go(after[n - 1])]
           after == CHOOSE after : after = f(after)
           G == [n \in 1..N |-> [m \in S |-> stay(m)]]
<1>1. TraverseEach(g, l) = after[N].g
  BY Zenon DEF TraverseEach
<1>2. N \in Nat /\ IsFiniteSet(l)
  BY Finite
<1>3. g \in Heap
  BY MarkingFacts
<1>4. b \in S
  <2>1. Rechecks(g, g, l)
    BY FollowsSelf DEF Marking, Rechecks, Settled
  <2>2. QED
    BY <1>3, <2>1
<1>5. ASSUME NEW m \in S, m.l # {}
      PROVE  go(m) \in S /\ Cardinality(go(m).l) = Cardinality(m.l) - 1
  <2>1. PICK t \in m.l : t = CHOOSE x \in m.l : TRUE
    BY <1>5
  <2>2. PICK r : r = PropagateAll(TraverseEphemeron(m.g, t))
    OBVIOUS
  <2>3. go(m) = [g |-> r, l |-> m.l \ {t}]
    BY <2>1, <2>2
  <2>4. Rechecks(g, r, m.l \ {t})
    BY <1>3, <2>2, RecheckOne
  <2>5. r \in Heap
    BY <2>4, MarkingFacts DEF Rechecks
  <2>6. m.l \in SUBSET Bodies /\ IsFiniteSet(m.l)
    BY Finite
  <2>7. Cardinality(m.l \ {t}) = Cardinality(m.l) - 1
    BY <2>6, FS_RemoveElement
  <2>8. QED
    BY <2>3, <2>4, <2>5, <2>7
<1>6. \A m \in S : stay(m) \in S
  BY <1>5
<1>7. \A m \in S : Cardinality(m.l) \in Nat /\ (m.l = {} <=> Cardinality(m.l) = 0)
  <2> SUFFICES ASSUME NEW m \in S
               PROVE  Cardinality(m.l) \in Nat /\ (m.l = {} <=> Cardinality(m.l) = 0)
    OBVIOUS
  <2>1. m.l \in SUBSET Bodies
    OBVIOUS
  <2>2. QED
    BY <2>1, Finite, FS_EmptySet
<1>8. \A m \in S : m.l # {} => stay(m) = go(m)
  OBVIOUS
<1>9. \A m \in S : m.l = {} => Rechecks(g, m.g, {})
  OBVIOUS
<1>10. Cardinality(b.l) = N
  OBVIOUS
<1>11. \A m \in S : m.l # {} => go(m) \in S /\ Cardinality(go(m).l) = Cardinality(m.l) - 1
  BY <1>5
<1> HIDE DEF S, go, stay, N, b
<1>12. Rounds(1..N, S, G) /\ \A n \in 1..N : \A m \in S : G[n][m] = stay(m)
  BY <1>6 DEF Rounds
<1> HIDE DEF G, f
<1>13. PICK u : Runs(N, S, b, G, u)
  BY <1>2, <1>4, <1>12, Iterates
<1>14. u \in [0..N -> S] /\ u[0] = b
  BY <1>13 DEF Runs
<1>15. \A n \in 1..N : u[n] = stay(u[n - 1])
  <2>1. \A n \in 1..N : n - 1 \in 0..N /\ u[n - 1] \in S
    BY <1>2, <1>14
  <2>2. QED
    BY <1>12, <1>13, <2>1, Zenon DEF Runs, ByRounds
<1> DEFINE T == {n \in 0..N : u[n] \in S /\ Cardinality(u[n].l) = N - n /\ (n # 0 => u[n] = go(u[n - 1]))}
<1>16. 0 \in T
  BY <1>2, <1>4, <1>10, <1>14
<1>17. ASSUME NEW n \in 1..N, n - 1 \in T
       PROVE  n \in T
  <2>1. PICK x, y : x = u[n - 1] /\ y = u[n]
    OBVIOUS
  <2>2. n \in 0..N /\ n # 0 /\ n \in Nat /\ N - (n - 1) # 0 /\ N - (n - 1) - 1 = N - n
    BY <1>2
  <2>3. x \in S /\ Cardinality(x.l) = N - (n - 1)
    BY <1>17, <2>1
  <2>4. x.l # {} /\ y = stay(x)
    BY <1>7, <1>15, <2>1, <2>2, <2>3
  <2>5. y = go(x) /\ y \in S /\ Cardinality(y.l) = Cardinality(x.l) - 1
    BY <1>8, <1>11, <2>3, <2>4
  <2>6. Cardinality(y.l) = N - n
    BY <2>2, <2>3, <2>5
  <2>7. QED
    BY <2>1, <2>2, <2>5, <2>6
<1>18. 0..N \subseteq T
  <2> HIDE DEF T
  <2>1. QED
    BY <1>2, <1>16, <1>17, StepsTo
<1>19. u = f(u)
  <2>1. \A n \in 0..N : u[n] = IF n = 0 THEN b ELSE go(u[n - 1])
    BY <1>14, <1>18
  <2>2. QED
    BY <1>14, <2>1 DEF f
<1>20. after = f(after)
  BY <1>19, Zenon
<1> DEFINE at == after
<1>21. \A n \in 0..N : at[n] = IF n = 0 THEN b ELSE go(at[n - 1])
  BY <1>20 DEF f
<1> HIDE DEF after, at
<1> DEFINE E == {n \in 0..N : at[n] = u[n]}
<1>22. 0 \in E
  BY <1>2, <1>14, <1>21
<1>23. ASSUME NEW n \in 1..N, n - 1 \in E
       PROVE  n \in E
  <2>1. n \in 0..N /\ n # 0 /\ n \in T
    BY <1>2, <1>18
  <2>2. at[n] = go(at[n - 1]) /\ u[n] = go(u[n - 1]) /\ at[n - 1] = u[n - 1]
    BY <1>21, <1>23, <2>1
  <2>3. QED
    BY <2>1, <2>2
<1>24. 0..N \subseteq E
  <2> HIDE DEF E
  <2>1. QED
    BY <1>2, <1>22, <1>23, StepsTo
<1>25. N \in 0..N /\ at[N] = u[N] /\ u[N] \in S /\ Cardinality(u[N].l) = 0
  <2>1. N \in 0..N
    BY <1>2
  <2>2. N \in T /\ N \in E
    BY <1>18, <1>24, <2>1
  <2>3. QED
    BY <1>2, <2>1, <2>2
<1>26. Rechecks(g, at[N].g, {})
  BY <1>7, <1>9, <1>25
<1>27. QED
  BY <1>1, <1>26 DEF at

Converging(g, m) ==
  /\ Marking(m, {}) /\ m.gray = {} /\ Follows(g, m) /\ Whites(m) \subseteq Whites(g)
  /\ g.weak \subseteq m.weak /\ g.allweak \subseteq m.allweak

\* A round that changes a colour leaves fewer white objects; one that does not, the end.
LEMMA ConvergeRound ==
    ASSUME NEW g, g \in Heap, NEW m, Converging(g, m), NEW r,
           r = TraverseEach([m EXCEPT !.ephemeron = {}], m.ephemeron)
    PROVE  /\ Converging(g, r)
           /\ r.col = m.col => \A t \in r.ephemeron : Valued(r, t)
           /\ r.col # m.col => Cardinality(Whites(r)) <= Cardinality(Whites(m)) - 1
           /\ Cardinality(Whites(r)) \in Nat /\ Cardinality(Whites(m)) \in Nat
<1>1. PICK e : e = [m EXCEPT !.ephemeron = {}]
  OBVIOUS
<1>2. PICK l : l = m.ephemeron
  OBVIOUS
<1>3. m \in Heap /\ Core(m) /\ Filed(m) /\ Marking(m, {}) /\ m.gray = {}
  BY MarkingFacts DEF Converging
<1>4. /\ e \in Heap /\ Fixed(m, e) /\ e.col = m.col /\ e.val = m.val /\ e.gray = m.gray
      /\ e.allweak = m.allweak /\ e.grayagain = m.grayagain /\ e.weak = m.weak /\ e.ephemeron = {}
  BY <1>1, <1>3 DEF Heap, Fixed
<1>5. Follows(m, e) /\ Whites(e) = Whites(m) /\ Marking(e, l)
  <2>1. /\ Follows(m, e) /\ Whites(e) = Whites(m)
        /\ Marking(e, {} \cup (m.weak \ e.weak) \cup (m.ephemeron \ e.ephemeron))
    BY <1>3, <1>4, Emptied
  <2>2. {} \cup (m.weak \ e.weak) \cup (m.ephemeron \ e.ephemeron) = l
    BY <1>2, <1>4
  <2>3. QED
    BY <2>1, <2>2
<1>6. l \subseteq Bodies /\ \A t \in l : ~IsWhite(e, t) /\ e.kind[t] = "ephemeron"
  BY <1>2, <1>3, <1>4, HeapTypes DEF Filed, GrayLists, IsWhite, Fixed
<1>7. Rechecks(e, r, {})
  <2>1. r = TraverseEach(e, l)
    BY <1>1, <1>2
  <2>2. QED
    BY <1>3, <1>4, <1>5, <1>6, <2>1, TraversesEach
<1>8. Converging(g, r)
  BY <1>4, <1>5, <1>7, FollowsOn DEF Converging, Rechecks, Grows
<1>9. r \in Heap /\ Whites(r) \in SUBSET Whites(m) /\ Whites(m) \in SUBSET Bodies
  BY <1>5, <1>7, MarkingFacts DEF Rechecks, Whites
<1>10. ASSUME r.col = m.col
       PROVE  \A t \in r.ephemeron : Valued(r, t)
  <2>1. Whites(r) = Whites(e)
    BY <1>4, <1>10 DEF Whites, IsWhite
  <2>2. QED
    BY <1>4, <1>7, <2>1 DEF Rechecks, Settled
<1>11. ASSUME r.col # m.col
       PROVE  Cardinality(Whites(r)) <= Cardinality(Whites(m)) - 1
  <2>1. Whites(r) # Whites(e)
    BY <1>4, <1>7, <1>11 DEF Rechecks, Settled
  <2>2. PICK x \in Whites(m) : x \notin Whites(r)
    BY <1>5, <1>9, <2>1
  <2>3. QED
    BY <1>9, <2>2, Fewer
<1>12. Cardinality(Whites(r)) \in Nat /\ Cardinality(Whites(m)) \in Nat
  BY <1>9, Finite
<1>13. QED
  BY <1>8, <1>10, <1>11, <1>12

\* convergeephemerons ends, and then every marked key has a marked value.
LEMMA Converges ==
    ASSUME NEW g, Marking(g, {}), g.gray = {}
    PROVE  LET r == ConvergeEphemerons(g)
           IN Converging(g, r) /\ \A t \in r.ephemeron : Valued(r, t)
<1> DEFINE M == Cardinality(Bodies)
           N == M + 1
           b == [g |-> g, changed |-> TRUE]
           round(m) == TraverseEach([m EXCEPT !.ephemeron = {}], m.ephemeron)
           go(m) == IF ~m.changed THEN m
                    ELSE LET r == round(m.g) IN [g |-> r, changed |-> r.col # m.g.col]
           S == {x \in [g : Heap, changed : BOOLEAN] :
                   Converging(g, x.g) /\ (~x.changed => \A t \in x.g.ephemeron : Valued(x.g, t))}
           f(after) == [n \in 0..N |-> IF n = 0 THEN b ELSE go(after[n - 1])]
           after == CHOOSE after : after = f(after)
           G == [n \in 1..N |-> [m \in S |-> go(m)]]
<1>1. ConvergeEphemerons(g) = after[N].g
  BY Zenon DEF ConvergeEphemerons
<1>2. M \in Nat /\ N \in Nat /\ N = M + 1
  BY Finite
<1>3. g \in Heap
  BY MarkingFacts
<1>4. b \in S
  <2>1. Converging(g, g)
    BY FollowsSelf DEF Marking, Converging
  <2>2. QED
    BY <1>3, <2>1
<1>5. ASSUME NEW m \in S
      PROVE  /\ go(m) \in S /\ Cardinality(Whites(go(m).g)) \in Nat /\ Cardinality(Whites(m.g)) \in Nat
             /\ ~m.changed => ~go(m).changed
             /\ go(m).changed => Cardinality(Whites(go(m).g)) <= Cardinality(Whites(m.g)) - 1
  <2>1. CASE ~m.changed
    <3>1. go(m) = m /\ Whites(m.g) \in SUBSET Bodies
      BY <2>1 DEF Whites
    <3>2. QED
      BY <2>1, <3>1, Finite
  <2>2. CASE m.changed
    <3>1. PICK r : r = round(m.g)
      OBVIOUS
    <3>2. go(m) = [g |-> r, changed |-> r.col # m.g.col]
      BY <2>2, <3>1
    <3>3. /\ Converging(g, r)
          /\ r.col = m.g.col => \A t \in r.ephemeron : Valued(r, t)
          /\ r.col # m.g.col => Cardinality(Whites(r)) <= Cardinality(Whites(m.g)) - 1
          /\ Cardinality(Whites(r)) \in Nat /\ Cardinality(Whites(m.g)) \in Nat
      BY <1>3, <3>1, ConvergeRound
    <3>4. r \in Heap
      BY <3>3, MarkingFacts DEF Converging
    <3>5. QED
      BY <2>2, <3>2, <3>3, <3>4
  <2>3. QED
    BY <2>1, <2>2
<1>6. b.changed /\ Cardinality(Whites(b.g)) <= M
  <2>1. Whites(g) \in SUBSET Bodies
    BY DEF Whites
  <2>2. QED
    BY <2>1, Finite
<1>7. \A m \in S : ~m.changed => Converging(g, m.g) /\ \A t \in m.g.ephemeron : Valued(m.g, t)
  OBVIOUS
<1> HIDE DEF S, go, N, M, b
<1>8. Rounds(1..N, S, G) /\ \A n \in 1..N : \A m \in S : G[n][m] = go(m)
  BY <1>5 DEF Rounds
<1> HIDE DEF G, f
<1>9. PICK u : Runs(N, S, b, G, u)
  BY <1>2, <1>4, <1>8, Iterates
<1>10. u \in [0..N -> S] /\ u[0] = b
  BY <1>9 DEF Runs
<1>11. \A n \in 1..N : u[n] = go(u[n - 1])
  <2>1. \A n \in 1..N : n - 1 \in 0..N /\ u[n - 1] \in S
    BY <1>2, <1>10
  <2>2. QED
    BY <1>8, <1>9, <2>1, Zenon DEF Runs, ByRounds
<1>12. u = f(u)
  <2>1. \A n \in 0..N : n = 0 \/ n \in 1..N
    BY <1>2
  <2>2. \A n \in 0..N : u[n] = IF n = 0 THEN b ELSE go(u[n - 1])
    BY <1>10, <1>11, <2>1
  <2>3. QED
    BY <1>10, <2>2 DEF f
<1>13. after = f(after)
  BY <1>12, Zenon
<1> DEFINE at == after
<1>14. \A n \in 0..N : at[n] = IF n = 0 THEN b ELSE go(at[n - 1])
  BY <1>13 DEF f
<1> HIDE DEF after, at
<1> DEFINE T == {n \in 0..N : at[n] \in S /\ (at[n].changed => Cardinality(Whites(at[n].g)) <= M - n)}
<1>15. 0 \in T
  <2>1. 0 \in 0..N /\ at[0] = b
    BY <1>2, <1>14
  <2>2. QED
    BY <1>2, <1>4, <1>6, <2>1
<1>16. ASSUME NEW n \in 1..N, n - 1 \in T
       PROVE  n \in T
  <2>1. PICK x, y : x = at[n - 1] /\ y = at[n]
    OBVIOUS
  <2>2. n \in 0..N /\ n # 0 /\ n \in Nat
    BY <1>2
  <2>3. y = go(x)
    BY <1>14, <2>1, <2>2
  <2>4. x \in S /\ (x.changed => Cardinality(Whites(x.g)) <= M - (n - 1))
    BY <1>16, <2>1
  <2>5. /\ y \in S /\ (~x.changed => ~y.changed)
        /\ y.changed => Cardinality(Whites(y.g)) <= Cardinality(Whites(x.g)) - 1
        /\ Cardinality(Whites(y.g)) \in Nat /\ Cardinality(Whites(x.g)) \in Nat
    BY <1>5, <2>3, <2>4
  <2>6. PICK p, q : p = Cardinality(Whites(y.g)) /\ q = Cardinality(Whites(x.g))
    OBVIOUS
  <2>7. y.changed => x.changed
    BY <2>5, Zenon
  <2>8. y.changed => p <= M - n
    BY <1>2, <2>2, <2>4, <2>5, <2>6, <2>7
  <2>9. QED
    BY <2>1, <2>2, <2>5, <2>6, <2>8
<1> HIDE DEF T
<1>17. N \in T
  <2>1. 0..N \subseteq T
    BY <1>2, <1>15, <1>16, StepsTo
  <2>2. QED
    BY <1>2, <2>1
<1>18. at[N] \in S /\ ~at[N].changed
  <2>1. at[N] \in S /\ (at[N].changed => Cardinality(Whites(at[N].g)) <= M - N)
    BY <1>17 DEF T
  <2>2. Cardinality(Whites(at[N].g)) \in Nat
    BY <1>5, <2>1
  <2>3. QED
    BY <1>2, <2>1, <2>2
<1>19. QED
  BY <1>1, <1>7, <1>18 DEF at

\* a stands somewhere before b in s.
Before(s, a, b) == \E i, j \in 1..Len(s) : i < j /\ s[i] = a /\ s[j] = b

\* Lists as predicates: w is s followed by t, u alone, s behind u, s before u.
Joins(w, s, t) == w = s \o t
Alone(w, u) == w = <<u>>
Heads(w, u, s) == w = <<u>> \o s
Tails(w, u, s) == w = Append(s, u)

\* The elements of a list and their order.
LEMMA RangeIs ==
    ASSUME NEW s \in Seq(Objs)
    PROVE  /\ Range(s) \subseteq Objs
           /\ \A x : x \in Range(s) <=> \E i \in 1..Len(s) : s[i] = x
           /\ Distinct(s) <=> \A x \in Objs : ~Before(s, x, x)
           /\ \A a, b : Before(s, a, b) => a \in Range(s) /\ b \in Range(s)
           /\ Len(s) \in Nat
<1>1. DOMAIN s = 1..Len(s) /\ Len(s) \in Nat /\ \A i \in 1..Len(s) : s[i] \in Objs
  OBVIOUS
<1>2. Range(s) \subseteq Objs /\ \A x : x \in Range(s) <=> \E i \in 1..Len(s) : s[i] = x
  BY <1>1 DEF Range
<1>3. Distinct(s) => \A x \in Objs : ~Before(s, x, x)
  BY <1>1 DEF Distinct, Before
<1>4. ASSUME \A x \in Objs : ~Before(s, x, x), NEW i \in 1..Len(s), NEW j \in 1..Len(s), s[i] = s[j]
      PROVE  i = j
  BY <1>1, <1>4 DEF Before
<1>5. \A a, b : Before(s, a, b) => a \in Range(s) /\ b \in Range(s)
  BY <1>2 DEF Before
<1>6. QED
  BY <1>1, <1>2, <1>3, <1>4, <1>5 DEF Distinct

\* The order of two lists joined.
LEMMA Joined ==
    ASSUME NEW s \in Seq(Objs), NEW t \in Seq(Objs), NEW w, Joins(w, s, t)
    PROVE  /\ w \in Seq(Objs) /\ Len(w) = Len(s) + Len(t)
           /\ Range(w) = Range(s) \cup Range(t)
           /\ \A a, b : Before(w, a, b) <=>
                Before(s, a, b) \/ Before(t, a, b) \/ (a \in Range(s) /\ b \in Range(t))
<1>1. /\ w \in Seq(Objs) /\ Len(w) = Len(s) + Len(t) /\ Len(s) \in Nat /\ Len(t) \in Nat
      /\ \A i \in 1..Len(s) : w[i] = s[i] /\ i \in 1..Len(w)
      /\ \A i \in 1..Len(t) : w[Len(s) + i] = t[i] /\ Len(s) + i \in 1..Len(w)
  BY DEF Joins
<1>2. \A i \in 1..Len(w) : i \in 1..Len(s) \/ \E j \in 1..Len(t) : i = Len(s) + j
  <2> SUFFICES ASSUME NEW i \in 1..Len(w), i \notin 1..Len(s)
               PROVE  \E j \in 1..Len(t) : i = Len(s) + j
    OBVIOUS
  <2>1. i - Len(s) \in 1..Len(t) /\ i = Len(s) + (i - Len(s))
    BY <1>1
  <2>2. QED
    BY <2>1
<1>3. \A x : x \in Range(w) <=> x \in Range(s) \/ x \in Range(t)
  <2>1. \A x : x \in Range(w) <=> \E i \in 1..Len(w) : w[i] = x
    BY <1>1, RangeIs
  <2>2. \A x : x \in Range(s) <=> \E i \in 1..Len(s) : s[i] = x
    BY RangeIs
  <2>3. \A x : x \in Range(t) <=> \E i \in 1..Len(t) : t[i] = x
    BY RangeIs
  <2>4. ASSUME NEW x, x \in Range(s)
        PROVE  x \in Range(w)
    BY <1>1, <2>1, <2>2, <2>4
  <2>5. ASSUME NEW x, x \in Range(t)
        PROVE  x \in Range(w)
    <3>1. PICK i \in 1..Len(t) : t[i] = x
      BY <2>3, <2>5
    <3>2. Len(s) + i \in 1..Len(w) /\ w[Len(s) + i] = x
      BY <1>1, <3>1
    <3>3. QED
      BY <2>1, <3>2
  <2>6. ASSUME NEW x, x \in Range(w)
        PROVE  x \in Range(s) \/ x \in Range(t)
    <3>1. PICK i \in 1..Len(w) : w[i] = x
      BY <2>1, <2>6
    <3>2. CASE i \in 1..Len(s)
      BY <1>1, <2>2, <3>1, <3>2
    <3>3. ASSUME NEW j \in 1..Len(t), i = Len(s) + j
          PROVE  x \in Range(t)
      BY <1>1, <2>3, <3>1, <3>3
    <3>4. QED
      BY <1>2, <3>2, <3>3
  <2>7. QED
    BY <2>4, <2>5, <2>6
<1>4. ASSUME NEW a, NEW b, Before(w, a, b)
      PROVE  Before(s, a, b) \/ Before(t, a, b) \/ (a \in Range(s) /\ b \in Range(t))
  <2>1. PICK i, j \in 1..Len(w) : i < j /\ w[i] = a /\ w[j] = b
    BY <1>4 DEF Before
  <2>2. CASE j \in 1..Len(s)
    <3>1. i \in 1..Len(s)
      BY <1>1, <2>1, <2>2
    <3>2. s[i] = a /\ s[j] = b
      BY <1>1, <2>1, <2>2, <3>1
    <3>3. QED
      BY <2>1, <2>2, <3>1, <3>2 DEF Before
  <2>3. ASSUME NEW q \in 1..Len(t), j = Len(s) + q
        PROVE  Before(t, a, b) \/ (a \in Range(s) /\ b \in Range(t))
    <3>1. t[q] = b /\ b \in Range(t)
      BY <1>1, <2>1, <2>3, RangeIs
    <3>2. CASE i \in 1..Len(s)
      <4>1. s[i] = a
        BY <1>1, <2>1, <3>2
      <4>2. QED
        BY <3>1, <3>2, <4>1, RangeIs
    <3>3. ASSUME NEW p \in 1..Len(t), i = Len(s) + p
          PROVE  Before(t, a, b)
      <4>1. t[p] = a /\ p < q
        BY <1>1, <2>1, <2>3, <3>3
      <4>2. QED
        BY <3>1, <4>1 DEF Before
    <3>4. QED
      BY <1>2, <3>2, <3>3
  <2>4. QED
    BY <1>2, <2>2, <2>3
<1>5. ASSUME NEW a, NEW b, Before(s, a, b)
      PROVE  Before(w, a, b)
  <2>1. PICK i, j \in 1..Len(s) : i < j /\ s[i] = a /\ s[j] = b
    BY <1>5 DEF Before
  <2>2. QED
    BY <1>1, <2>1 DEF Before
<1>6. ASSUME NEW a, NEW b, Before(t, a, b)
      PROVE  Before(w, a, b)
  <2>1. PICK i, j \in 1..Len(t) : i < j /\ t[i] = a /\ t[j] = b
    BY <1>6 DEF Before
  <2>2. Len(s) + i < Len(s) + j
    BY <1>1, <2>1
  <2>3. QED
    BY <1>1, <2>1, <2>2 DEF Before
<1>7. ASSUME NEW a \in Range(s), NEW b \in Range(t)
      PROVE  Before(w, a, b)
  <2>1. PICK i \in 1..Len(s), j \in 1..Len(t) : s[i] = a /\ t[j] = b
    BY RangeIs
  <2>2. i < Len(s) + j
    BY <1>1, <2>1
  <2>3. QED
    BY <1>1, <2>1, <2>2 DEF Before
<1>8. QED
  BY <1>1, <1>3, <1>4, <1>5, <1>6, <1>7

\* A list of one object.
LEMMA Single ==
    ASSUME NEW u \in Objs, NEW w, Alone(w, u)
    PROVE  w \in Seq(Objs) /\ Len(w) = 1 /\ Range(w) = {u} /\ \A a, b : ~Before(w, a, b)
<1>1. w \in Seq(Objs) /\ Len(w) = 1 /\ w[1] = u
  BY DEF Alone
<1>2. \A x : x \in Range(w) <=> x = u
  BY <1>1, RangeIs
<1>3. \A a, b : ~Before(w, a, b)
  BY <1>1 DEF Before
<1>4. QED
  BY <1>1, <1>2, <1>3

\* linking an object at the head of a list
LEMMA Prepended ==
    ASSUME NEW s \in Seq(Objs), NEW u \in Objs, NEW w, Heads(w, u, s)
    PROVE  /\ w \in Seq(Objs) /\ Range(w) = {u} \cup Range(s)
           /\ \A a, b : Before(w, a, b) <=> Before(s, a, b) \/ (a = u /\ b \in Range(s))
           /\ Distinct(s) /\ u \notin Range(s) => Distinct(w)
<1>1. PICK v : Alone(v, u)
  BY DEF Alone
<1>2. v \in Seq(Objs) /\ Len(v) = 1 /\ Range(v) = {u} /\ \A a, b : ~Before(v, a, b)
  BY <1>1, Single
<1>3. Joins(w, v, s)
  BY <1>1 DEF Alone, Heads, Joins
<1>4. /\ w \in Seq(Objs) /\ Range(w) = Range(v) \cup Range(s)
      /\ \A a, b : Before(w, a, b) <=>
           Before(v, a, b) \/ Before(s, a, b) \/ (a \in Range(v) /\ b \in Range(s))
  BY <1>2, <1>3, Joined
<1>5. /\ Range(w) = {u} \cup Range(s)
      /\ \A a, b : Before(w, a, b) <=> Before(s, a, b) \/ (a = u /\ b \in Range(s))
  BY <1>2, <1>4
<1>6. ASSUME Distinct(s), u \notin Range(s)
      PROVE  Distinct(w)
  <2>1. \A x \in Objs : ~Before(s, x, x)
    BY <1>6, RangeIs
  <2>2. \A x \in Objs : ~Before(w, x, x)
    BY <1>5, <1>6, <2>1
  <2>3. QED
    BY <1>4, <2>2, RangeIs
<1>7. QED
  BY <1>4, <1>5, <1>6

\* A list with one more object at its end.
LEMMA Appended ==
    ASSUME NEW s \in Seq(Objs), NEW u \in Objs, NEW w, Tails(w, u, s)
    PROVE  /\ w \in Seq(Objs) /\ \A x : x \in Range(w) <=> x = u \/ x \in Range(s)
           /\ \A a, b : Before(w, a, b) <=> Before(s, a, b) \/ (a \in Range(s) /\ b = u)
<1>1. PICK v : Alone(v, u)
  BY DEF Alone
<1>2. v \in Seq(Objs) /\ Len(v) = 1 /\ Range(v) = {u} /\ \A a, b : ~Before(v, a, b)
  BY <1>1, Single
<1>3. Joins(w, s, v)
  BY <1>1 DEF Alone, Tails, Joins
<1>4. /\ w \in Seq(Objs) /\ Range(w) = Range(s) \cup Range(v)
      /\ \A a, b : Before(w, a, b) <=>
           Before(s, a, b) \/ Before(v, a, b) \/ (a \in Range(s) /\ b \in Range(v))
  BY <1>2, <1>3, Joined
<1>5. QED
  BY <1>2, <1>4

\* What is left of a list without some objects, in the order it was.
LEMMA WithoutFacts ==
    ASSUME NEW s \in Seq(Objs), NEW X
    PROVE  /\ Without(s, X) \in Seq(Objs) /\ Range(Without(s, X)) = Range(s) \ X
           /\ \A a, b : Before(Without(s, X), a, b) <=> Before(s, a, b) /\ a \notin X /\ b \notin X
           /\ Distinct(s) => Distinct(Without(s, X))
<1> DEFINE N == Len(s)
           S == Seq(Objs)
           go(n, k) == IF s[n] \in X THEN k ELSE Append(k, s[n])
           f(kept) == [n \in 0..N |-> IF n = 0 THEN <<>> ELSE IF s[n] \in X THEN kept[n - 1]
                                                        ELSE Append(kept[n - 1], s[n])]
           kept == CHOOSE kept : kept = f(kept)
           G == [n \in 1..N |-> [k \in S |-> go(n, k)]]
<1>1. Without(s, X) = kept[N]
  BY Zenon DEF Without
<1>2. N \in Nat /\ <<>> \in S /\ \A n \in 1..N : s[n] \in Objs
  OBVIOUS
<1>3. \A n \in 1..N : \A k \in S : go(n, k) \in S
  OBVIOUS
<1>4. \A n \in 0..N : \A k : f(k)[n] = IF n = 0 THEN <<>> ELSE go(n, k[n - 1])
  OBVIOUS
<1>5. Rounds(1..N, S, G) /\ \A n \in 1..N : \A k \in S : G[n][k] = go(n, k)
  BY <1>3 DEF Rounds
<1> HIDE DEF G, N, S
<1>6. PICK u : Runs(N, S, <<>>, G, u)
  BY <1>2, <1>5, Iterates
<1>7. u \in [0..N -> S] /\ u[0] = <<>>
  BY <1>6 DEF Runs
<1>8. \A n \in 1..N : u[n] = go(n, u[n - 1])
  <2>1. \A n \in 1..N : n - 1 \in 0..N /\ u[n - 1] \in S
    BY <1>2, <1>7
  <2> HIDE DEF go
  <2>2. QED
    BY <1>5, <1>6, <2>1, Zenon DEF Runs, ByRounds
<1>9. u = f(u)
  <2>1. \A n \in 0..N : n = 0 \/ n \in 1..N
    BY <1>2
  <2>2. \A n \in 0..N : u[n] = IF n = 0 THEN <<>> ELSE IF s[n] \in X THEN u[n - 1]
                                                        ELSE Append(u[n - 1], s[n])
    BY <1>7, <1>8, <2>1
  <2>3. QED
    BY <1>7, <2>2
<1>10. kept = f(kept)
  <2> HIDE DEF f
  <2>1. QED
    BY <1>9, Zenon
<1> DEFINE at == kept
<1>11. \A n \in 0..N : at[n] = IF n = 0 THEN <<>> ELSE go(n, at[n - 1])
  <2> HIDE DEF kept
  <2>1. QED
    BY <1>10
<1> HIDE DEF kept, at, f
<1> DEFINE T == {n \in 0..N : /\ at[n] \in S
                              /\ \A x : x \in Range(at[n]) <=> x \notin X /\ \E i \in 1..n : s[i] = x
                              /\ \A a, b : Before(at[n], a, b) <=>
                                   /\ a \notin X /\ b \notin X
                                   /\ \E i, j \in 1..n : i < j /\ s[i] = a /\ s[j] = b}
<1>12. 0 \in T
  <2>1. 0 \in 0..N /\ at[0] = <<>>
    BY <1>2, <1>11
  <2>2. \A x : x \notin Range(<<>>)
    BY DEF Range
  <2>3. \A a, b : ~Before(<<>>, a, b)
    BY DEF Before
  <2>4. 1..0 = {}
    OBVIOUS
  <2>5. QED
    BY <1>2, <2>1, <2>2, <2>3, <2>4
<1>13. ASSUME NEW n \in 1..N, n - 1 \in T
       PROVE  n \in T
  <2>1. PICK x, y : x = at[n - 1] /\ y = at[n]
    OBVIOUS
  <2>2. n \in 0..N /\ n # 0 /\ n \in Nat /\ s[n] \in Objs
    BY <1>2
  <2>3. y = go(n, x)
    BY <1>11, <2>1, <2>2
  <2>4. /\ x \in Seq(Objs)
        /\ \A z : z \in Range(x) <=> z \notin X /\ \E i \in 1..n - 1 : s[i] = z
        /\ \A a, b : Before(x, a, b) <=>
             a \notin X /\ b \notin X /\ \E i, j \in 1..n - 1 : i < j /\ s[i] = a /\ s[j] = b
    BY <1>13, <2>1 DEF S
  <2>5. \A i : i \in 1..n <=> i = n \/ i \in 1..n - 1
    BY <2>2
  <2>6. \A i \in 1..n - 1 : i < n
    BY <2>2
  <2>7. \A a, b : (\E i, j \in 1..n : i < j /\ s[i] = a /\ s[j] = b) <=>
                  \/ \E i, j \in 1..n - 1 : i < j /\ s[i] = a /\ s[j] = b
                  \/ b = s[n] /\ \E i \in 1..n - 1 : s[i] = a
    <3>1. \A i \in 1..n - 1 : ~(n < i)
      BY <2>2
    <3>2. ~(n < n)
      BY <2>2
    <3>3. QED
      BY <2>5, <2>6, <3>1, <3>2
  <2>8. CASE s[n] \in X
    <3>1. y = x
      BY <2>3, <2>8
    <3>2. /\ y \in Seq(Objs)
          /\ \A z : z \in Range(y) <=> z \notin X /\ \E i \in 1..n : s[i] = z
      BY <2>4, <2>5, <2>8, <3>1
    <3>3. \A a, b : Before(y, a, b) <=>
             a \notin X /\ b \notin X /\ \E i, j \in 1..n : i < j /\ s[i] = a /\ s[j] = b
      BY <2>4, <2>7, <2>8, <3>1
    <3>4. QED
      BY <2>1, <2>2, <3>2, <3>3 DEF S
  <2>9. CASE s[n] \notin X
    <3>1. Tails(y, s[n], x)
      BY <2>3, <2>9 DEF Tails
    <3>2. /\ y \in Seq(Objs) /\ \A z : z \in Range(y) <=> z = s[n] \/ z \in Range(x)
          /\ \A a, b : Before(y, a, b) <=> Before(x, a, b) \/ (a \in Range(x) /\ b = s[n])
      BY <2>2, <2>4, <3>1, Appended
    <3>3. \A z : z \in Range(y) <=> z \notin X /\ \E i \in 1..n : s[i] = z
      BY <2>4, <2>5, <2>9, <3>2
    <3>4. \A a, b : Before(y, a, b) <=>
             a \notin X /\ b \notin X /\ \E i, j \in 1..n : i < j /\ s[i] = a /\ s[j] = b
      BY <2>4, <2>7, <2>9, <3>2
    <3>5. QED
      BY <2>1, <2>2, <3>2, <3>3, <3>4 DEF S
  <2>10. QED
    BY <2>8, <2>9
<1> HIDE DEF T
<1>14. N \in T
  <2>1. 0..N \subseteq T
    BY <1>2, <1>12, <1>13, StepsTo
  <2>2. QED
    BY <1>2, <2>1
<1>15. PICK w : w = Without(s, X)
  OBVIOUS
<1>16. /\ w \in Seq(Objs)
       /\ \A x : x \in Range(w) <=> x \notin X /\ x \in Range(s)
       /\ \A a, b : Before(w, a, b) <=> a \notin X /\ b \notin X /\ Before(s, a, b)
  <2>1. w = at[N]
    BY <1>1, <1>15 DEF at
  <2>2. /\ at[N] \in Seq(Objs)
        /\ \A x : x \in Range(at[N]) <=> x \notin X /\ \E i \in 1..N : s[i] = x
        /\ \A a, b : Before(at[N], a, b) <=>
             a \notin X /\ b \notin X /\ \E i, j \in 1..N : i < j /\ s[i] = a /\ s[j] = b
    BY <1>14 DEF T, S
  <2>3. QED
    BY <2>1, <2>2, RangeIs DEF N, Before
<1>17. Distinct(s) => Distinct(w)
  BY <1>16, RangeIs
<1>18. QED
  BY <1>15, <1>16, <1>17

\* n is g but for the phase, the sweep pointers and the like.
Alike(g, n) ==
  /\ n \in Heap /\ n.cast = g.cast /\ n.kind = g.kind /\ n.val = g.val /\ n.at = g.at
  /\ n.col = g.col /\ n.white = g.white /\ n.allgc = g.allgc /\ n.finobj = g.finobj
  /\ n.tobefnz = g.tobefnz
SameGray(g, n) == n.gray = g.gray /\ SameLists(g, n)

\* What does not depend on the phase.
LEMMA AlikeCore ==
    ASSUME NEW g, NEW n, Alike(g, n)
    PROVE  /\ Shaped(g) => Shaped(n)
           /\ Listed(g) => Listed(n)
           /\ Solid(g) => Solid(n)
           /\ Core(g) => Core(n)
           /\ Live(n) = Live(g) /\ Sound(n) = Sound(g) /\ Whites(n) = Whites(g)
           /\ NonWhite(n) = NonWhite(g)
           /\ \A o : IsWhite(n, o) <=> IsWhite(g, o)
           /\ \A o, S : RefsIn(n, o, S) <=> RefsIn(g, o, S)
           /\ \A o, S : ValuesIn(n, o, S) <=> ValuesIn(g, o, S)
           /\ \A o, S : KeysIn(n, o, S) <=> KeysIn(g, o, S)
<1>1. /\ Live(n) = Live(g) /\ Sound(n) = Sound(g) /\ Whites(n) = Whites(g)
      /\ NonWhite(n) = NonWhite(g)
      /\ \A o : IsWhite(n, o) <=> IsWhite(g, o)
  BY DEF Alike, Live, Sound, Whites, NonWhite, IsWhite
<1>2. /\ \A o, S : ValuesIn(n, o, S) <=> ValuesIn(g, o, S)
      /\ \A o, S : KeysIn(n, o, S) <=> KeysIn(g, o, S)
      /\ \A o, S : UpIn(n, o, S) <=> UpIn(g, o, S)
  BY DEF Alike, ValuesIn, KeysIn, UpIn, UpValue
<1>3. \A o, S : RefsIn(n, o, S) <=> RefsIn(g, o, S)
  BY <1>2 DEF RefsIn
<1>4. \A o : Room(n, o) = Room(g, o)
  BY DEF Alike, Room
<1>5. Shaped(g) => Shaped(n)
  BY <1>4 DEF Alike, Shaped, Cast, Roomy, Opened, Colored
<1>6. Listed(g) => Listed(n)
  BY DEF Alike, Listed
<1>7. Solid(g) => Solid(n)
  BY <1>1, <1>3 DEF Alike, Solid, Closing, Roots
<1>8. Core(g) => Core(n)
  BY <1>1, <1>5, <1>6, <1>7 DEF Core, Alike
<1>9. QED
  BY <1>1, <1>2, <1>3, <1>5, <1>6, <1>7, <1>8

\* The same of Marking and Tidy.
LEMMA AlikeMarking ==
    ASSUME NEW g, NEW n, NEW P, NEW E, Alike(g, n), SameGray(g, n)
    PROVE  /\ Marking(g, P) => Marking(n, P)
           /\ Tidy(g, E) => Tidy(n, E)
<1>1. /\ Core(g) => Core(n)
      /\ Live(n) = Live(g) /\ NonWhite(n) = NonWhite(g)
      /\ \A o : IsWhite(n, o) <=> IsWhite(g, o)
      /\ \A o, S : RefsIn(n, o, S) <=> RefsIn(g, o, S)
      /\ \A o, S : ValuesIn(n, o, S) <=> ValuesIn(g, o, S)
      /\ \A o, S : KeysIn(n, o, S) <=> KeysIn(g, o, S)
  BY AlikeCore
<1>2. \A o : Done(n, o) <=> Done(g, o)
  BY <1>1 DEF Done, Alike, SameGray, SameLists
<1>3. GrayLists(n) = GrayLists(g) /\ Others(n) = Others(g)
  BY DEF GrayLists, Others, SameGray, SameLists
<1>4. Filed(g) => Filed(n)
  BY <1>1, <1>3 DEF Filed, Alike, SameGray, SameLists
<1>5. Covered(g, P) => Covered(n, P)
  BY <1>1, <1>2 DEF Covered, SameGray
<1>6. Tidy(g, E) => Tidy(n, E)
  BY <1>1, <1>3 DEF Tidy, Alike, SameGray
<1>7. QED
  BY <1>1, <1>4, <1>5, <1>6 DEF Marking

\* Visited objects are no exceptions.
LEMMA MarkingLess ==
    ASSUME NEW g, NEW P, NEW Q, Marking(g, P),
           \A o \in P : o \in Live(g) /\ ~IsWhite(g, o) /\ o \notin g.gray /\ o \notin Q => Done(g, o)
    PROVE  Marking(g, Q)
BY DEF Marking, Covered

\* Clearing entries of weak tables leaves marked what was marked.
LEMMA FollowsMarks ==
    ASSUME NEW g, NEW m, NEW P, Marking(g, P), Follows(g, m), m.col = g.col, SameGray(g, m)
    PROVE  Marking(m, P) /\ Grows(g, m) /\ Whites(m) = Whites(g) /\ NonWhite(m) = NonWhite(g)
<1>1. g \in Heap /\ Core(g) /\ Filed(g)
  BY MarkingFacts
<1>2. Grows(g, m)
  BY DEF Grows, SameGray, SameLists
<1>3. Core(m) /\ m.kind = g.kind /\ Live(m) = Live(g) /\ Whites(m) = Whites(g) /\ NonWhite(m) = NonWhite(g)
  BY <1>1, FollowsCore, FollowsWhite DEF Whites, IsWhite, NonWhite
<1>4. Filed(m)
  BY <1>1, <1>3 DEF Filed, GrayLists, IsWhite, SameGray, SameLists
<1>5. ASSUME NEW o \in Live(m), ~IsWhite(m, o), o \notin m.gray \cup P
      PROVE  Done(m, o)
  <2>1. Done(g, o) /\ o \in Bodies
    BY <1>3, <1>5 DEF Marking, Covered, Live, IsWhite, SameGray
  <2>2. QED
    BY <1>1, <1>2, <2>1, DoneKept
<1>6. QED
  BY <1>2, <1>3, <1>4, <1>5 DEF Marking, Covered

\* Strings pass no mark on.
LEMMA MarkedStrings ==
    ASSUME NEW g, NEW V
    PROVE  Marked(g, V \cap Strings(g)) \subseteq V \cap Strings(g)
<1> DEFINE U == V \cap Strings(g)
           passing == {o \in Whites(g) : g.kind[o] \in {"udata", "closed", "open"}}
           closed(S) == \A o \in passing : o \in U \/ (\E x \in S : o \in Passes(g, x)) => o \in S
           all == {o \in passing : \A S \in SUBSET passing : closed(S) => o \in S}
<1>1. Marked(g, U) = Whites(g) \cap (U \cup UNION {Passes(g, o) : o \in all})
  BY Zenon DEF Marked
<1>2. \A o \in passing : o \notin U
  BY DEF Strings, Of
<1>3. closed({})
  BY <1>2
<1>4. all = {}
  <2>1. {} \in SUBSET passing
    OBVIOUS
  <2> HIDE DEF passing, closed
  <2>2. QED
    BY <1>3, <2>1
<1> HIDE DEF all
<1>5. QED
  BY <1>1, <1>4

MarksStrings(g, m, V) ==
  /\ Grows(g, m) /\ m.val = g.val /\ SameGray(g, m)
  /\ \A v \in V : g.kind[v] = "string" /\ v \in Objs => v \in NonWhite(m)
  /\ \A x \in Bodies : g.kind[x] # "string" => m.col[x] = g.col[x]
  /\ m.kind = g.kind

\* iscleared marks the strings it meets.
LEMMA StringsMarked ==
    ASSUME NEW g, NEW V, NEW P, Marking(g, P)
    PROVE  Marking(MarkStrings(g, V), P) /\ MarksStrings(g, MarkStrings(g, V), V)
<1>1. PICK U, W : U = V \cap Strings(g) /\ W = Marked(g, U)
  OBVIOUS
<1>0. PICK m : m = MarkStrings(g, V)
  OBVIOUS
<1>2. m = Mark(g, U)
  BY <1>0, <1>1 DEF MarkStrings
<1>3. W \subseteq U
  BY <1>1, MarkedStrings
<1>4. /\ Marking(m, P) /\ Grows(g, m) /\ Paints(g, m, W)
      /\ \A v \in U : v \in Bodies => v \in NonWhite(m)
  BY <1>1, <1>2, MarkCovers
<1>5. \A o \in U : g.kind[o] = "string" /\ o \in Objs
  BY <1>1 DEF Strings, Of
<1>6. m.val = g.val /\ SameGray(g, m) /\ m.kind = g.kind
  BY <1>3, <1>4, <1>5 DEF Paints, SameGray, Blackened, Fixed
<1>7. \A v \in V : g.kind[v] = "string" /\ v \in Objs => v \in NonWhite(m)
  BY <1>1, <1>4, Names DEF Strings, Of
<1>8. \A x \in Bodies : g.kind[x] # "string" => m.col[x] = g.col[x]
  BY <1>3, <1>4, <1>5 DEF Paints
<1>9. QED
  BY <1>0, <1>4, <1>6, <1>7, <1>8 DEF MarksStrings

\* m is g with entries of the weak tables of l cleared.
Clears(g, m, l) ==
  /\ m \in Heap /\ Fixed(g, m) /\ m.col = g.col /\ SameGray(g, m)
  /\ \A o \in Bodies, k \in Keys :
       m.val[o][k] = g.val[o][k] \/ (m.val[o][k] = Nil /\ o \in l)

\* Clearing entries of tables keeps Marking.
LEMMA ClearsMarking ==
    ASSUME NEW g, NEW m, NEW l, NEW P, Marking(g, P), Clears(g, m, l),
           \A t \in l : g.kind[t] \in Tables
    PROVE  Marking(m, P) /\ Grows(g, m) /\ NonWhite(m) = NonWhite(g)
<1>1. Colored(g)
  BY MarkingFacts
<1>2. Follows(g, m)
  BY <1>1 DEF Clears, Follows, Colored
<1>3. QED
  BY <1>2, FollowsMarks DEF Clears

\* m is g with the white values, and the white keys, of the tables of l cleared.
ClearsValues(g, m, l) ==
  /\ Grows(g, m) /\ SameGray(g, m)
  /\ \A x \in Bodies : g.kind[x] # "string" => m.col[x] = g.col[x]
  /\ \A t \in l : ValuesIn(m, t, NonWhite(m))
ClearsKeys(g, m, l) ==
  /\ Grows(g, m) /\ SameGray(g, m)
  /\ \A x \in Bodies : g.kind[x] # "string" => m.col[x] = g.col[x]
  /\ \A t \in l : KeysIn(m, t, NonWhite(m))
  /\ \A t \in l : Valued(g, t) => \A k \in Objs : m.val[t][k] \in NonWhite(m) \cup {Nil}

\* clearvalues leaves no white value in the tables of a list.
LEMMA ValuesCleared ==
    ASSUME NEW g, NEW l, NEW P, Marking(g, P), \A t \in l : t \in Bodies /\ g.kind[t] \in Tables
    PROVE  Marking(ClearValues(g, l), P) /\ ClearsValues(g, ClearValues(g, l), l)
<1>1. PICK m, V : V = UNION {ValuesOf(g, t) \cup {g.val[t][1]} : t \in l} /\ m = MarkStrings(g, V)
  OBVIOUS
<1>2. PICK v : v = [t \in Bodies |->
         IF t \notin l THEN m.val[t]
         ELSE [k \in Keys |-> IF Clearable(m, m.val[t][k]) THEN Nil ELSE m.val[t][k]]]
  OBVIOUS
<1>3. PICK n : n = [m EXCEPT !.val = v]
  OBVIOUS
<1>4. ClearValues(g, l) = n
  BY <1>1, <1>2, <1>3, Zenon DEF ClearValues, Clear
<1>5. /\ Marking(m, P) /\ Grows(g, m) /\ m.val = g.val /\ SameGray(g, m)
      /\ \A x \in V : g.kind[x] = "string" /\ x \in Objs => x \in NonWhite(m)
      /\ \A x \in Bodies : g.kind[x] # "string" => m.col[x] = g.col[x]
      /\ m.kind = g.kind
  <2>1. Marking(m, P) /\ MarksStrings(g, m, V)
    BY <1>1, StringsMarked
  <2>2. QED
    BY <2>1 DEF MarksStrings
<1>6. m \in Heap /\ g \in Heap /\ Shaped(g)
  BY <1>5, MarkingFacts
<1>7. \A t \in Bodies, k \in Keys : m.val[t][k] \in Objs \cup {Nil}
  BY <1>6, HeapTypes
<1>8. v \in [Bodies -> [Keys -> Objs \cup {Nil}]]
  BY <1>2, <1>6, <1>7, HeapTypes
<1>9. n \in Heap /\ Fixed(m, n) /\ n.col = m.col /\ SameGray(m, n) /\ n.val = v
  BY <1>3, <1>6, <1>8 DEF Heap, Fixed, SameGray, SameLists
<1>10. \A o \in Bodies, k \in Keys :
         n.val[o][k] = IF o \in l /\ Clearable(m, m.val[o][k]) THEN Nil ELSE m.val[o][k]
  BY <1>2, <1>9
<1>11. Clears(m, n, l)
  BY <1>9, <1>10 DEF Clears
<1>12. Marking(n, P) /\ Grows(m, n) /\ NonWhite(n) = NonWhite(m)
  BY <1>5, <1>11, ClearsMarking
<1>13. ASSUME NEW t \in l, NEW k \in Keys, n.val[t][k] # Nil
       PROVE  n.val[t][k] \in NonWhite(n)
  <2>1. t \in Bodies /\ g.kind[t] \in Tables
    OBVIOUS
  <2>2. PICK x : x = g.val[t][k]
    OBVIOUS
  <2>3. x \in Objs /\ x # Nil /\ n.val[t][k] = x /\ ~Clearable(m, x)
    BY <1>5, <1>7, <1>10, <1>13, <2>1, <2>2
  <2>4. CASE m.kind[x] = "string"
    <3>1. k = 1 \/ k \in Objs
      BY <1>6, <2>1, <2>2, <2>3, RoomOf
    <3>2. x \in V
      BY <1>1, <2>2, <3>1 DEF ValuesOf
    <3>3. QED
      BY <1>5, <1>12, <2>3, <2>4, <3>2
  <2>5. CASE m.kind[x] # "string"
    BY <1>12, <2>3, <2>5, Names DEF Clearable, NonWhite
  <2>6. QED
    BY <2>4, <2>5
<1>14. \A t \in l : ValuesIn(n, t, NonWhite(n))
  BY <1>13 DEF ValuesIn
<1>15. Grows(g, n) /\ SameGray(g, n)
  BY <1>5, <1>9, <1>12, GrowsOn DEF SameGray, SameLists
<1>16. QED
  BY <1>4, <1>5, <1>9, <1>12, <1>14, <1>15 DEF ClearsValues

\* clearkeys leaves no white key in the tables of a list.
LEMMA KeysCleared ==
    ASSUME NEW g, NEW l, NEW P, Marking(g, P), \A t \in l : t \in Bodies /\ g.kind[t] \in Tables
    PROVE  Marking(ClearKeys(g, l), P) /\ ClearsKeys(g, ClearKeys(g, l), l)
<1>1. PICK m, V : V = UNION {KeysOf(g, t) : t \in l} /\ m = MarkStrings(g, V)
  OBVIOUS
<1>2. PICK v : v = [t \in Bodies |->
         IF t \notin l THEN m.val[t]
         ELSE [k \in Keys |-> IF k \in Objs /\ m.val[t][k] # Nil /\ Clearable(m, k)
                              THEN Nil ELSE m.val[t][k]]]
  OBVIOUS
<1>3. PICK n : n = [m EXCEPT !.val = v]
  OBVIOUS
<1>4. ClearKeys(g, l) = n
  BY <1>1, <1>2, <1>3, Zenon DEF ClearKeys, Clear
<1>5. /\ Marking(m, P) /\ Grows(g, m) /\ m.val = g.val /\ SameGray(g, m)
      /\ \A x \in V : g.kind[x] = "string" /\ x \in Objs => x \in NonWhite(m)
      /\ \A x \in Bodies : g.kind[x] # "string" => m.col[x] = g.col[x]
      /\ m.kind = g.kind
  <2>1. Marking(m, P) /\ MarksStrings(g, m, V)
    BY <1>1, StringsMarked
  <2>2. QED
    BY <2>1 DEF MarksStrings
<1>6. m \in Heap /\ g \in Heap /\ Shaped(g)
  BY <1>5, MarkingFacts
<1>7. \A t \in Bodies, k \in Keys : m.val[t][k] \in Objs \cup {Nil}
  BY <1>6, HeapTypes
<1>8. v \in [Bodies -> [Keys -> Objs \cup {Nil}]]
  BY <1>2, <1>6, <1>7, HeapTypes
<1>9. n \in Heap /\ Fixed(m, n) /\ n.col = m.col /\ SameGray(m, n) /\ n.val = v
  BY <1>3, <1>6, <1>8 DEF Heap, Fixed, SameGray, SameLists
<1>10. \A o \in Bodies, k \in Keys :
         n.val[o][k] = IF o \in l /\ k \in Objs /\ m.val[o][k] # Nil /\ Clearable(m, k)
                       THEN Nil ELSE m.val[o][k]
  BY <1>2, <1>9
<1>11. Clears(m, n, l)
  BY <1>9, <1>10 DEF Clears
<1>12. Marking(n, P) /\ Grows(m, n) /\ NonWhite(n) = NonWhite(m)
  BY <1>5, <1>11, ClearsMarking
<1>13. ASSUME NEW t \in l, NEW k \in Objs, n.val[t][k] # Nil
       PROVE  /\ k \in NonWhite(n) /\ n.val[t][k] = g.val[t][k] /\ g.val[t][k] # Nil
              /\ ~IsWhite(g, k) \/ g.kind[k] = "string"
  <2>1. t \in Bodies /\ k \in Keys /\ k \in Bodies /\ k # Nil
    BY Names
  <2>2. n.val[t][k] = g.val[t][k] /\ g.val[t][k] # Nil /\ ~Clearable(m, k)
    BY <1>5, <1>10, <1>13, <2>1
  <2>3. k \in V
    BY <1>1, <2>2 DEF KeysOf
  <2>4. CASE m.kind[k] = "string"
    BY <1>5, <1>12, <2>2, <2>3, <2>4
  <2>5. CASE m.kind[k] # "string"
    <3>1. ~IsWhite(m, k)
      BY <2>1, <2>2, <2>5 DEF Clearable
    <3>2. m.col[k] = g.col[k]
      BY <1>5, <2>1, <2>5
    <3>3. QED
      BY <1>12, <2>1, <2>2, <3>1, <3>2 DEF NonWhite, IsWhite
  <2>6. QED
    BY <2>4, <2>5
<1>14. \A t \in l : KeysIn(n, t, NonWhite(n))
  BY <1>13 DEF KeysIn
<1>15. Grows(g, n) /\ SameGray(g, n)
  BY <1>5, <1>9, <1>12, GrowsOn DEF SameGray, SameLists
<1>16. NonWhite(g) \subseteq NonWhite(n)
  BY <1>6, <1>15, FollowsWhite DEF Grows
<1>17. \A t \in l : Valued(g, t) => \A k \in Objs : n.val[t][k] \in NonWhite(n) \cup {Nil}
  BY <1>13, <1>16 DEF Valued
<1>18. QED
  BY <1>4, <1>5, <1>9, <1>12, <1>14, <1>15, <1>17 DEF ClearsKeys

\* m is g with o, white or not, marked again.
MarksAgain(g, m, o) ==
  /\ Grows(g, m) /\ m.val = g.val /\ o \in NonWhite(m) /\ SameLists(g, m)
  /\ \A E : Tidy(g, E) /\ Others(g) = {} => Tidy(m, E \ {o})

\* markbeingfnz on one object.
LEMMA AgainMarked ==
    ASSUME NEW g, NEW P, Marking(g, P), NEW o \in Objs, g.kind[o] # "free"
    PROVE  Marking(MarkAgain(g, o), P \ {o}) /\ MarksAgain(g, MarkAgain(g, o), o)
<1>1. PICK c, b : /\ c = [g.col EXCEPT ![o] = g.white]
                  /\ b = (g.looped \/ o \in g.gray \cup g.allweak \cup g.ephemeron)
  OBVIOUS
<1>2. PICK w : w = [MakeWhite(g, o) EXCEPT !.looped = b]
  OBVIOUS
<1>3. g \in Heap /\ Core(g) /\ Live(g) = Sound(g) /\ o \in Bodies /\ Shaped(g)
  BY MarkingFacts, Names
<1>4. /\ w \in Heap /\ Fixed(g, w) /\ SameLists(g, w) /\ w.gray = g.gray /\ w.val = g.val
      /\ w.col = c
  <2>1. c \in [Bodies -> Colors] /\ b \in BOOLEAN
    BY <1>1, <1>3, HeapTypes DEF Colors
  <2>2. w = [[g EXCEPT !.col = c] EXCEPT !.looped = b]
    BY <1>1, <1>2, <1>3 DEF MakeWhite, Heap
  <2>3. QED
    BY <1>3, <2>1, <2>2 DEF Heap, Fixed, SameLists
<1>5. PICK m, W : m = Mark(w, {o}) /\ W = Marked(w, {o})
  OBVIOUS
<1>6. MarkAgain(g, o) = m
  <2>1. [MakeWhite(g, o) EXCEPT !.looped = @ \/ o \in g.gray \cup g.allweak \cup g.ephemeron] = w
    <3>1. MakeWhite(g, o).looped = g.looped
      BY <1>3 DEF MakeWhite, Heap
    <3>2. QED
      BY <1>1, <1>2, <3>1, Zenon
  <2>2. QED
    BY <1>5, <2>1, Zenon DEF MarkAgain
<1>7. /\ Paints(w, m, W) /\ \A v \in {o} : v \in Bodies => ~IsWhite(m, v)
  BY <1>4, <1>5, MarkPaints
<1>8. o \in W
  <2>1. IsWhite(w, o)
    BY <1>1, <1>3, <1>4, HeapTypes DEF IsWhite
  <2>2. {o} \cap Whites(w) \subseteq W
    BY <1>5, MarkedFacts
  <2>3. QED
    BY <1>3, <2>1, <2>2 DEF Whites
<1>9. Whiter(g, w, W)
  <2>1. \A x \in Bodies : x \notin W => w.col[x] = g.col[x]
    BY <1>1, <1>4, <1>8, HeapTypes, <1>3
  <2>2. \A x \in Bodies : x \in W => g.kind[x] # "free"
    <3>1. \A x \in W : x = o \/ g.col[x] \in {"white0", "white1"}
      BY <1>1, <1>3, <1>4, <1>7, HeapTypes DEF Paints, Whites, IsWhite
    <3>2. QED
      BY <1>3, <3>1 DEF Shaped, Colored
  <2>3. QED
    BY <1>4, <2>1, <2>2 DEF Whiter
<1>10. Marking(m, P \ W) /\ Grows(g, m)
  BY <1>7, <1>9, PaintCovers
<1>11. Marking(m, P \ {o})
  BY <1>8, <1>10 DEF Marking, Covered
<1>12. m.val = g.val /\ o \in NonWhite(m) /\ SameLists(g, m)
  BY <1>3, <1>4, <1>7 DEF Paints, NonWhite, SameLists
<1>13. ASSUME NEW E, Tidy(g, E), Others(g) = {}
       PROVE  Tidy(m, E \ {o})
  <2>1. Others(m) = {} /\ GrayLists(m) = m.gray /\ GrayLists(g) = g.gray
    BY <1>12, <1>13 DEF Others, GrayLists, SameLists
  <2>2. /\ m.gray = g.gray \cup {x \in W : g.kind[x] \notin Blackened \cup {"open"}}
        /\ \A x \in Bodies : m.col[x] = IF x \notin W THEN g.col[x]
                               ELSE IF g.kind[x] \in Blackened THEN "black" ELSE "gray"
        /\ W \subseteq Bodies
    BY <1>4, <1>7, <1>9 DEF Paints, Fixed, Whiter, Whites
  <2>3. m.kind = g.kind /\ Live(m) = Live(g) /\ GrayLists(g) \subseteq Bodies
    BY <1>3, <1>10, FollowsWhite, HeapTypes DEF Grows
  <2>4. \A x \in g.gray : g.kind[x] \notin Blackened
    BY <2>1 DEF Marking, Filed, Blackened
  <2>5. \A x \in GrayLists(m) : m.col[x] = "gray"
    BY <1>13, <2>1, <2>2, <2>3, <2>4 DEF Tidy
  <2>6. ASSUME NEW x \in Live(m) \ (E \ {o}), m.col[x] = "gray", m.kind[x] # "open"
        PROVE  x \in GrayLists(m)
    <3>1. CASE x \in W
      BY <2>1, <2>2, <2>3, <2>6, <3>1 DEF Live
    <3>2. CASE x \notin W
      BY <1>8, <1>13, <2>1, <2>2, <2>3, <2>6, <3>2 DEF Live, Tidy
    <3>3. QED
      BY <3>1, <3>2
  <2>7. QED
    BY <2>1, <2>5, <2>6 DEF Tidy
<1>14. QED
  BY <1>6, <1>10, <1>11, <1>12, <1>13 DEF MarksAgain

\* The objects due for finalizers are marked again one by one: after n of them.
Remarks(g, m, n, P) ==
  /\ Marking(m, P \ {g.tobefnz[i] : i \in 1..n}) /\ Grows(g, m) /\ SameLists(g, m)
  /\ \A i \in 1..n : g.tobefnz[i] \in NonWhite(m)
  /\ \A E : Tidy(g, E) /\ Others(g) = {} => Tidy(m, E \ {g.tobefnz[i] : i \in 1..n})

\* One round of markbeingfnz.
LEMMA RemarkOne ==
    ASSUME NEW g, NEW P, NEW n \in 1..Len(g.tobefnz), NEW m, Marking(g, P), Remarks(g, m, n - 1, P)
    PROVE  Remarks(g, MarkAgain(m, g.tobefnz[n]), n, P)
<1>1. PICK o, r : o = g.tobefnz[n] /\ r = MarkAgain(m, o)
  OBVIOUS
<1>2. g \in Heap /\ Listed(g) /\ g.tobefnz \in Seq(Objs)
  BY MarkingFacts, HeapTypes
<1>3. o \in Objs /\ o \in Range(g.tobefnz)
  <2>1. DOMAIN g.tobefnz = 1..Len(g.tobefnz) /\ o \in Objs
    BY <1>1, <1>2
  <2>2. QED
    BY <1>1, <2>1 DEF Range
<1>4. g.kind[o] # "free"
  BY <1>2, <1>3 DEF Listed
<1>5. PICK Q : Q = {g.tobefnz[i] : i \in 1..n - 1}
  OBVIOUS
<1>6. /\ Marking(m, P \ Q) /\ Grows(g, m) /\ SameLists(g, m)
      /\ \A i \in 1..n - 1 : g.tobefnz[i] \in NonWhite(m)
      /\ \A E : Tidy(g, E) /\ Others(g) = {} => Tidy(m, E \ Q)
  BY <1>5 DEF Remarks
<1>7. m.kind = g.kind /\ m \in Heap /\ Others(m) = Others(g)
  BY <1>2, <1>6, FollowsWhite, MarkingFacts DEF Grows, Others, SameLists
<1>8. Marking(r, (P \ Q) \ {o}) /\ MarksAgain(m, r, o)
  BY <1>1, <1>3, <1>4, <1>6, <1>7, AgainMarked
<1>9. n \in Nat /\ \A i : i \in 1..n <=> i = n \/ i \in 1..n - 1
  <2>1. Len(g.tobefnz) \in Nat
    BY <1>2
  <2>2. n \in Nat /\ n >= 1
    BY <2>1
  <2>3. QED
    BY <2>2
<1>10. {g.tobefnz[i] : i \in 1..n} = Q \cup {o}
  BY <1>1, <1>5, <1>9
<1>11. Marking(r, P \ {g.tobefnz[i] : i \in 1..n})
  <2>1. (P \ Q) \ {o} = P \ (Q \cup {o})
    OBVIOUS
  <2>2. QED
    BY <1>8, <1>10, <2>1
<1>12. Grows(g, r) /\ SameLists(g, r)
  BY <1>6, <1>8, GrowsOn DEF MarksAgain, SameLists
<1>13. \A i \in 1..n : g.tobefnz[i] \in NonWhite(r)
  <2>1. NonWhite(m) \subseteq NonWhite(r)
    BY <1>7, <1>8, FollowsWhite DEF MarksAgain, Grows
  <2>2. o \in NonWhite(r)
    BY <1>8 DEF MarksAgain
  <2>3. QED
    BY <1>1, <1>6, <1>9, <2>1, <2>2
<1>14. ASSUME NEW E, Tidy(g, E), Others(g) = {}
       PROVE  Tidy(r, E \ {g.tobefnz[i] : i \in 1..n})
  <2>1. Tidy(m, E \ Q)
    BY <1>6, <1>14
  <2>2. Tidy(r, (E \ Q) \ {o})
    BY <1>7, <1>8, <1>14, <2>1 DEF MarksAgain
  <2>3. (E \ Q) \ {o} = E \ (Q \cup {o})
    OBVIOUS
  <2>4. QED
    BY <1>10, <2>2, <2>3
<1>15. QED
  BY <1>1, <1>11, <1>12, <1>13, <1>14 DEF Remarks

\* markbeingfnz marks every object due for its finalizer.
LEMMA BeingFnzMarked ==
    ASSUME NEW g, NEW P, Marking(g, P)
    PROVE  Remarks(g, MarkBeingFnz(g), Len(g.tobefnz), P)
<1> DEFINE N == Len(g.tobefnz)
           S == Heap
           go(n, m) == MarkAgain(m, g.tobefnz[n])
           f(after) == [n \in 0..N |-> IF n = 0 THEN g ELSE MarkAgain(after[n - 1], g.tobefnz[n])]
           after == CHOOSE after : after = f(after)
           V == [n \in 0..N |-> {m \in S : Remarks(g, m, n, P)}]
<1>1. MarkBeingFnz(g) = after[N]
  BY Zenon DEF MarkBeingFnz
<1>2. g \in Heap /\ g.tobefnz \in Seq(Objs) /\ N \in Nat
  BY MarkingFacts, HeapTypes
<1>3. Remarks(g, g, 0, P) /\ g \in S
  <2>1. 1..0 = {}
    OBVIOUS
  <2>2. Grows(g, g) /\ SameLists(g, g)
    BY FollowsSelf, MarkingFacts DEF SameLists
  <2>3. QED
    BY <1>2, <2>1, <2>2 DEF Remarks
<1>4. \A n \in 1..N : \A m : Remarks(g, m, n - 1, P) => Remarks(g, go(n, m), n, P)
  BY RemarkOne
<1>5. \A n : \A m : Remarks(g, m, n, P) => m \in S
  BY DEF Remarks, Grows, Follows
<1> DEFINE Z == S \cup {go(n, m) : n \in 1..N, m \in S}
           G == [n \in 1..N |-> [m \in S |-> IF go(n, m) \in S THEN go(n, m) ELSE g]]
<1>6. Rounds(1..N, S, G) /\ \A n \in 1..N : \A m \in S : go(n, m) \in S => G[n][m] = go(n, m)
  BY <1>3 DEF Rounds
<1> HIDE DEF S, go, N, G, f
<1>7. PICK u : Runs(N, S, g, G, u)
  BY <1>2, <1>3, <1>6, Iterates
<1>8. u \in [0..N -> S] /\ u[0] = g
  BY <1>7 DEF Runs
<1>9. \A n \in 1..N : n - 1 \in 0..N /\ u[n - 1] \in S /\ n \in 0..N /\ n # 0
  BY <1>2, <1>8
<1> DEFINE T == {n \in 0..N : Remarks(g, u[n], n, P)}
<1>10. 0 \in T
  BY <1>2, <1>3, <1>8
<1>11. \A n \in 1..N : u[n] = G[n][u[n - 1]]
  BY <1>7 DEF Runs, ByRounds
<1>12. ASSUME NEW n \in 1..N, Remarks(g, u[n - 1], n - 1, P)
       PROVE  Remarks(g, u[n], n, P) /\ u[n] = go(n, u[n - 1])
  <2>1. Remarks(g, go(n, u[n - 1]), n, P)
    BY <1>4, <1>12
  <2>2. go(n, u[n - 1]) \in S
    BY <1>5, <2>1
  <2>3. u[n] = go(n, u[n - 1])
    BY <1>6, <1>9, <1>11, <2>2
  <2>4. QED
    BY <2>1, <2>3
<1>13. 0..N \subseteq T
  <2>1. \A n \in 1..N : n - 1 \in T => n \in T
    BY <1>9, <1>12
  <2> HIDE DEF T
  <2>2. QED
    BY <1>2, <1>10, <2>1, StepsTo
<1>14. u = f(u)
  <2>1. \A n \in 0..N : n = 0 \/ n \in 1..N
    BY <1>2
  <2>2. \A n \in 1..N : u[n] = go(n, u[n - 1])
    BY <1>9, <1>12, <1>13
  <2>3. \A n \in 0..N : u[n] = IF n = 0 THEN g ELSE go(n, u[n - 1])
    BY <1>8, <2>1, <2>2, <1>9
  <2>4. QED
    BY <1>8, <2>3 DEF f, go
<1>15. after = f(after)
  BY <1>14, Zenon
<1> DEFINE at == after
<1>16. \A n \in 0..N : at[n] = IF n = 0 THEN g ELSE go(n, at[n - 1])
  <2> HIDE DEF after
  <2>1. QED
    BY <1>15 DEF f, go
<1> HIDE DEF after, at
<1> DEFINE R == {n \in 0..N : Remarks(g, at[n], n, P)}
<1>17. 0 \in R
  BY <1>2, <1>3, <1>16
<1>18. ASSUME NEW n \in 1..N, n - 1 \in R
       PROVE  n \in R
  <2>1. at[n] = go(n, at[n - 1])
    BY <1>9, <1>16
  <2>2. Remarks(g, at[n - 1], n - 1, P)
    BY <1>18
  <2>3. Remarks(g, at[n], n, P)
    BY <1>4, <2>1, <2>2
  <2>4. QED
    BY <1>9, <2>3
<1>19. N \in R
  <2> HIDE DEF R
  <2>1. 0..N \subseteq R
    BY <1>2, <1>17, <1>18, StepsTo
  <2>2. QED
    BY <1>2, <2>1
<1>20. QED
  BY <1>1, <1>19 DEF at, N

\* separatetobefnz: the objects of finobj that are not marked are due for finalizers.
Separates(g, n) ==
  /\ n \in Heap /\ n.kind = g.kind /\ n.val = g.val /\ n.col = g.col /\ n.white = g.white
  /\ n.at = g.at /\ n.cast = g.cast /\ n.allgc = g.allgc /\ SameGray(g, n)
  /\ \A o \in Range(n.finobj) : ~IsWhite(n, o)

\* separatetobefnz leaves only marked objects in finobj, and every object on one list.
LEMMA Separated ==
    ASSUME NEW g, NEW P, Marking(g, P)
    PROVE  Marking(SeparateToBeFnz(g), P) /\ Separates(g, SeparateToBeFnz(g))
<1>1. g \in Heap /\ Core(g) /\ Filed(g) /\ Shaped(g) /\ Listed(g) /\ Solid(g) /\ Live(g) = Sound(g)
  BY MarkingFacts
<1>2. PICK gone : gone = {o \in Range(g.finobj) : IsWhite(g, o)}
  OBVIOUS
<1>3. PICK stay, due, d, F : /\ stay = Without(g.finobj, gone)
                             /\ d = Without(g.finobj, Range(g.finobj) \ gone)
                             /\ due = g.tobefnz \o d /\ F = g.finalized \cup gone
  OBVIOUS
<1>4. PICK n : n = [g EXCEPT !.finobj = stay, !.tobefnz = due, !.finalized = F]
  OBVIOUS
<1>5. SeparateToBeFnz(g) = n
  BY <1>2, <1>3, <1>4, Zenon DEF SeparateToBeFnz
<1>6. g.finobj \in Seq(Objs) /\ g.tobefnz \in Seq(Objs) /\ Range(g.finobj) \subseteq Objs
  BY <1>1, HeapTypes, RangeIs
<1>7. /\ stay \in Seq(Objs) /\ Range(stay) = Range(g.finobj) \ gone
      /\ Distinct(g.finobj) => Distinct(stay)
  BY <1>3, <1>6, WithoutFacts
<1>8. /\ d \in Seq(Objs) /\ Range(d) = Range(g.finobj) \ (Range(g.finobj) \ gone)
      /\ Distinct(g.finobj) => Distinct(d)
  BY <1>3, <1>6, WithoutFacts
<1>9. Range(d) = gone /\ gone \subseteq Range(g.finobj)
  BY <1>2, <1>8
<1>10. Joins(due, g.tobefnz, d)
  BY <1>3 DEF Joins
<1>11. /\ due \in Seq(Objs) /\ Range(due) = Range(g.tobefnz) \cup gone
       /\ \A a, b : Before(due, a, b) <=>
            Before(g.tobefnz, a, b) \/ Before(d, a, b) \/ (a \in Range(g.tobefnz) /\ b \in Range(d))
  <2>1. /\ due \in Seq(Objs) /\ Range(due) = Range(g.tobefnz) \cup Range(d)
        /\ \A a, b : Before(due, a, b) <=>
             Before(g.tobefnz, a, b) \/ Before(d, a, b) \/ (a \in Range(g.tobefnz) /\ b \in Range(d))
    BY <1>6, <1>8, <1>10, Joined
  <2>2. QED
    BY <1>9, <2>1
<1>12. Distinct(due)
  <2>1. /\ \A x \in Objs : ~Before(g.tobefnz, x, x)
        /\ \A x \in Objs : ~Before(d, x, x)
    BY <1>1, <1>6, <1>8, RangeIs DEF Listed
  <2>2. \A x \in Objs : ~(x \in Range(g.tobefnz) /\ x \in Range(d))
    BY <1>1, <1>9 DEF Listed, Apart
  <2>3. \A x \in Objs : ~Before(due, x, x)
    BY <1>11, <2>1, <2>2
  <2>4. QED
    BY <1>11, <2>3, RangeIs
<1>13. F \in SUBSET Objs
  BY <1>1, <1>3, <1>6, <1>9, HeapTypes
<1>14. /\ n \in Heap /\ n.kind = g.kind /\ n.val = g.val /\ n.col = g.col /\ n.white = g.white
       /\ n.at = g.at /\ n.cast = g.cast /\ n.allgc = g.allgc /\ SameGray(g, n)
       /\ n.finobj = stay /\ n.tobefnz = due
  BY <1>1, <1>4, <1>7, <1>11, <1>13 DEF Heap, SameGray, SameLists
<1>15. Listed(n)
  <2>1. Apart(g.allgc, stay) /\ Apart(g.allgc, due) /\ Apart(stay, due)
    BY <1>1, <1>7, <1>9, <1>11 DEF Listed, Apart
  <2>2. Range(g.allgc) \cup Range(stay) \cup Range(due)
          = Range(g.allgc) \cup Range(g.finobj) \cup Range(g.tobefnz)
    BY <1>7, <1>9, <1>11
  <2>3. \A o \in Objs : g.kind[o] \notin {"free", "string", "open"} <=>
          o \in Range(g.allgc) \cup Range(stay) \cup Range(due)
    BY <1>1, <2>2 DEF Listed
  <2>4. \A o \in Range(stay) \cup Range(due) : g.cast[o].gc
    BY <1>1, <2>2, <1>7, <1>9, <1>11 DEF Listed
  <2>5. QED
    BY <1>1, <1>7, <1>12, <1>14, <2>1, <2>3, <2>4 DEF Listed
<1>16. /\ Live(n) = Live(g) /\ Sound(n) = Sound(g) /\ NonWhite(n) = NonWhite(g)
       /\ \A o : IsWhite(n, o) <=> IsWhite(g, o)
  BY <1>14 DEF Live, Sound, NonWhite, IsWhite
<1>17. \A o, X : /\ RefsIn(n, o, X) <=> RefsIn(g, o, X)
                 /\ ValuesIn(n, o, X) <=> ValuesIn(g, o, X)
                 /\ KeysIn(n, o, X) <=> KeysIn(g, o, X)
  BY <1>14 DEF RefsIn, ValuesIn, KeysIn, UpIn, UpValue
<1>18. Shaped(n)
  <2>1. \A o : Room(n, o) = Room(g, o)
    BY <1>14 DEF Room
  <2>2. QED
    BY <1>1, <1>14, <2>1 DEF Shaped, Cast, Roomy, Opened, Colored
<1>19. Roots(n) = Roots(g)
  BY <1>7, <1>9, <1>11, <1>14 DEF Roots
<1>20. Core(n)
  BY <1>1, <1>14, <1>15, <1>16, <1>17, <1>18, <1>19 DEF Core, Solid, Closing
<1>21. Filed(n)
  BY <1>1, <1>14, <1>16 DEF Filed, GrayLists, SameGray, SameLists
<1>22. Covered(n, P)
  <2>1. \A o : Done(n, o) <=> Done(g, o)
    BY <1>14, <1>16, <1>17 DEF Done, SameGray, SameLists
  <2>2. QED
    BY <1>14, <1>16, <2>1 DEF Marking, Covered, SameGray
<1>23. \A o \in Range(n.finobj) : ~IsWhite(n, o)
  BY <1>2, <1>7, <1>14, <1>16
<1>24. QED
  BY <1>5, <1>14, <1>20, <1>21, <1>22, <1>23 DEF Marking, Separates

-----------------------------------------------------------------------------
Grays(g) == {o \in Bodies : g.col[o] = "gray"}
\* The heap in the middle of a mark phase.
Propagating(g) ==
  /\ Marking(g, Grays(g)) /\ Tidy(g, {}) /\ ~IsWhite(g, Main)
  /\ g.sweepfin = Nil /\ g.sweepgc = Nil /\ g.strings = {}

\* An open upvalue is visited once its value is marked.
LEMMA OpenDone ==
    ASSUME NEW g \in Heap, Shaped(g), NEW u \in Bodies, g.kind[u] = "open",
           UpValue(g, u) \in NonWhite(g) \cup {Nil}
    PROVE  Done(g, u)
<1>1. \A k \in Keys : g.val[u][k] = Nil
  BY RoomOf
<1>2. RefsIn(g, u, NonWhite(g))
  BY <1>1, Names DEF RefsIn, ValuesIn, KeysIn, UpIn
<1>3. QED
  BY <1>2 DEF Done

\* After remarkupvals only objects that will be visited again are left.
LEMMA UpvalsRemarked ==
    ASSUME NEW g, Marking(g, Grays(g)), Tidy(g, {}), g.gray = {}
    PROVE  LET m == RemarkUpvals(Mark(g, {Main}))
           IN Marking(m, Again(m)) /\ Grows(g, m) /\ Main \in NonWhite(m)
<1>1. PICK a, V, m : /\ a = Mark(g, {Main})
                     /\ V = {UpValue(a, u) : u \in {x \in Of(a, {"open"}) : IsGray(a, x)}}
                     /\ m = Mark(a, V)
  OBVIOUS
<1>2. m = RemarkUpvals(a)
  BY <1>1, Zenon DEF RemarkUpvals
<1>3. PICK P : P = Grays(g)
  OBVIOUS
<1>4. Marking(a, P) /\ Grows(g, a) /\ Main \in NonWhite(a)
  <2>1. /\ Marking(a, P) /\ Grows(g, a) /\ \A v \in {Main} : v \in Bodies => v \in NonWhite(a)
    BY <1>1, <1>3, MarkCovers
  <2>2. QED
    BY <2>1, Names
<1>5. /\ Marking(m, P) /\ Grows(a, m) /\ \A v \in V : v \in Bodies => v \in NonWhite(m)
  BY <1>1, <1>4, MarkCovers
<1>6. g \in Heap /\ a \in Heap /\ m \in Heap /\ Core(a) /\ Shaped(a) /\ Shaped(m) /\ Core(g)
  BY <1>4, <1>5, MarkingFacts
<1>7. /\ a.kind = g.kind /\ m.kind = g.kind /\ Live(m) = Live(g)
      /\ NonWhite(a) \subseteq NonWhite(m)
  BY <1>4, <1>5, <1>6, FollowsWhite DEF Grows
<1>8. Grows(g, m)
  BY <1>4, <1>5, GrowsOn
<1>9. ASSUME NEW o \in P, o \in Live(m), o \notin Again(m)
      PROVE  Done(m, o)
  <2>1. o \in Bodies /\ g.col[o] = "gray" /\ o \in Live(g)
    BY <1>3, <1>7, <1>9 DEF Grays
  <2>2. CASE g.kind[o] = "open"
    <3>1. IsGray(a, o) /\ o \in Of(a, {"open"})
      <4>1. a.col[o] = "gray"
        BY <1>4, <2>1, <2>2 DEF Grows, Follows, NeverBlack
      <4>2. o \in Objs
        BY <1>6, <1>7, <2>1, <2>2 DEF Shaped, Bodies
      <4>3. QED
        BY <1>7, <2>2, <4>1, <4>2 DEF IsGray, Of
    <3>2. UpValue(a, o) \in V
      BY <1>1, <3>1
    <3>3. UpValue(a, o) \in Bodies \cup {Nil} /\ UpValue(m, o) = UpValue(a, o)
      BY <1>5, <1>6, <1>7, <2>1, <2>2, UpType, FollowsUp DEF Grows
    <3>4. UpValue(m, o) \in NonWhite(m) \cup {Nil}
      BY <1>5, <3>2, <3>3
    <3>5. QED
      BY <1>6, <1>7, <2>1, <2>2, <3>4, OpenDone
  <2>3. CASE g.kind[o] # "open"
    <3>1. o \in GrayLists(g) /\ o \notin g.gray
      BY <2>1, <2>3 DEF Tidy
    <3>2. o \in Again(g) \/ o \in g.allweak
      BY <3>1 DEF GrayLists, Again
    <3>3. o \notin Again(g)
      BY <1>8, <1>9 DEF Again, Grows
    <3>4. o \in m.allweak /\ m.kind[o] \in {"allweak", "ephemeron"}
      BY <1>5, <1>8, <3>2, <3>3 DEF Grows, Marking, Filed
    <3>5. QED
      BY <3>4 DEF Done
  <2>4. QED
    BY <2>2, <2>3
<1>10. Marking(m, Again(m))
  BY <1>5, <1>9, MarkingLess
<1>11. QED
  BY <1>1, <1>2, <1>4, <1>7, <1>8, <1>10

\* All strongly reachable objects are marked.
LEMMA StrongMarked ==
    ASSUME NEW g, Marking(g, Grays(g)), Tidy(g, {}), g.gray = {}
    PROVE  LET m == MarkStrong(g)
           IN Marking(m, {}) /\ m.gray = {} /\ Main \in NonWhite(m)
<1>1. PICK a : a = RemarkUpvals(Mark(g, {Main}))
  OBVIOUS
<1>2. PICK b, c, m : b = PropagateAll(a) /\ c = RetraverseGrays(b) /\ m = ConvergeEphemerons(c)
  OBVIOUS
<1>3. MarkStrong(g) = m
  BY <1>1, <1>2 DEF MarkStrong
<1>4. Marking(a, Again(a)) /\ Main \in NonWhite(a)
  BY <1>1, UpvalsRemarked
<1>5. Marking(b, Again(a)) /\ Grows(a, b)
  BY <1>2, <1>4, PropagatesAll DEF Exhausts
<1>6. Again(a) \subseteq Again(b)
  BY <1>5 DEF Again, Grows
<1>7. Marking(c, {}) /\ Follows(b, c) /\ c.gray = {}
  BY <1>2, <1>5, <1>6, RetraversesGrays
<1>8. Marking(m, {}) /\ m.gray = {} /\ Follows(c, m)
  BY <1>2, <1>7, Converges DEF Converging
<1>9. NonWhite(a) \subseteq NonWhite(b) /\ NonWhite(b) \subseteq NonWhite(c) /\ NonWhite(c) \subseteq NonWhite(m)
  BY <1>4, <1>5, <1>7, <1>8, FollowsWhite, MarkingFacts DEF Grows
<1>10. QED
  BY <1>3, <1>4, <1>8, <1>9

\* What the tables of l refer to is marked.
ValuesDone(g, l) == \A t \in l : ValuesIn(g, t, NonWhite(g))
KeysDone(g, l) == \A t \in l : KeysIn(g, t, NonWhite(g))
EntriesDone(g, l) == \A t \in l, k \in Objs : g.val[t][k] \in NonWhite(g) \cup {Nil}

\* What was marked of some tables stays marked.
LEMMA StayDone ==
    ASSUME NEW g, NEW m, NEW l, Core(g), Follows(g, m), l \subseteq Bodies
    PROVE  /\ ValuesDone(g, l) => ValuesDone(m, l)
           /\ KeysDone(g, l) => KeysDone(m, l)
           /\ EntriesDone(g, l) => EntriesDone(m, l)
<1>1. g \in Heap
  BY DEF Core
<1>2. NonWhite(g) \subseteq NonWhite(m)
  BY <1>1, FollowsWhite
<1>3. \A t \in l : /\ ValuesIn(g, t, NonWhite(g)) => ValuesIn(m, t, NonWhite(m))
                   /\ KeysIn(g, t, NonWhite(g)) => KeysIn(m, t, NonWhite(m))
  BY <1>2, FollowsRefs
<1>4. EntriesDone(g, l) => EntriesDone(m, l)
  BY <1>2, Names DEF EntriesDone, Follows
<1>5. QED
  BY <1>3, <1>4 DEF ValuesDone, KeysDone

\* The lists of weak tables hold tables.
LEMMA ListKinds ==
    ASSUME NEW g, NEW P, Marking(g, P)
    PROVE  /\ \A t \in g.weak \cup g.allweak \cup g.ephemeron : t \in Bodies /\ g.kind[t] \in Tables
           /\ g.weak \cup g.allweak \cup g.ephemeron \subseteq Bodies
<1>1. g \in Heap /\ Filed(g) /\ GrayLists(g) \subseteq Bodies
  BY MarkingFacts, HeapTypes
<1>2. QED
  BY <1>1 DEF Filed, GrayLists, Tables

\* The first clearvalues of atomic.
LEMMA AllValuesCleared ==
    ASSUME NEW g, Marking(g, {}), g.gray = {}, Main \in NonWhite(g)
    PROVE  LET m == ClearAllValues(g)
           IN Marking(m, {}) /\ m.gray = {} /\ Main \in NonWhite(m) /\ ValuesDone(m, m.weak \cup m.allweak)
<1>1. PICK a : a = ClearValues(g, g.weak)
  OBVIOUS
<1>2. PICK m : m = ClearValues(a, g.allweak)
  OBVIOUS
<1>3. ClearAllValues(g) = m
  BY <1>1, <1>2 DEF ClearAllValues
<1>4. /\ \A t \in g.weak \cup g.allweak : t \in Bodies /\ g.kind[t] \in Tables
      /\ g \in Heap /\ Core(g) /\ g.weak \subseteq Bodies
  BY ListKinds, MarkingFacts
<1>5. Marking(a, {}) /\ ClearsValues(g, a, g.weak)
  BY <1>1, <1>4, ValuesCleared
<1>6. Follows(g, a) /\ SameGray(g, a) /\ ValuesDone(a, g.weak)
  BY <1>5 DEF ClearsValues, Grows, ValuesDone
<1>7. a.kind = g.kind /\ NonWhite(g) \subseteq NonWhite(a) /\ Core(a) /\ a \in Heap
  BY <1>4, <1>5, <1>6, FollowsWhite, MarkingFacts
<1>8. Marking(m, {}) /\ ClearsValues(a, m, g.allweak)
  BY <1>2, <1>4, <1>5, <1>7, ValuesCleared
<1>9. Follows(a, m) /\ SameGray(a, m) /\ ValuesDone(m, g.allweak)
  BY <1>8 DEF ClearsValues, Grows, ValuesDone
<1>10. NonWhite(a) \subseteq NonWhite(m) /\ ValuesDone(m, g.weak)
  BY <1>4, <1>6, <1>7, <1>9, FollowsWhite, StayDone
<1>11. m.gray = {} /\ m.weak = g.weak /\ m.allweak = g.allweak
  BY <1>6, <1>9 DEF SameGray, SameLists
<1>12. QED
  BY <1>3, <1>7, <1>8, <1>9, <1>10, <1>11 DEF ValuesDone

\* After the objects due for finalizers are marked again.
Revived(g, m) ==
  /\ Marking(m, {}) /\ m.gray = {} /\ Roots(m) \subseteq NonWhite(m)
  /\ \A t \in m.ephemeron : Valued(m, t)
  /\ g.weak \subseteq m.weak /\ g.allweak \subseteq m.allweak
  /\ ValuesDone(m, g.weak \cup g.allweak)

\* atomic marks what the objects due for finalizers need.
LEMMA RevivedMarked ==
    ASSUME NEW g, Marking(g, {}), g.gray = {}, Main \in NonWhite(g),
           ValuesDone(g, g.weak \cup g.allweak)
    PROVE  Revived(g, MarkRevived(g))
<1>1. PICK s : s = SeparateToBeFnz(g)
  OBVIOUS
<1>2. PICK b, c, m : b = MarkBeingFnz(s) /\ c = PropagateAll(b) /\ m = ConvergeEphemerons(c)
  OBVIOUS
<1>3. MarkRevived(g) = m
  BY <1>1, <1>2 DEF MarkRevived
<1>4. Marking(s, {}) /\ Separates(g, s)
  BY <1>1, Separated
<1>5. Remarks(s, b, Len(s.tobefnz), {})
  BY <1>2, <1>4, BeingFnzMarked
<1>6. Marking(b, {}) /\ Grows(s, b)
  BY <1>5 DEF Remarks, Marking, Covered
<1>7. Marking(c, {}) /\ Grows(b, c) /\ c.gray = {}
  BY <1>2, <1>6, PropagatesAll DEF Exhausts
<1>8. Grows(s, c)
  BY <1>6, <1>7, GrowsOn
<1>9. Converging(c, m) /\ \A t \in m.ephemeron : Valued(m, t)
  BY <1>2, <1>7, Converges
<1>10. Marking(m, {}) /\ m.gray = {} /\ Follows(c, m) /\ c.weak \subseteq m.weak /\ c.allweak \subseteq m.allweak
  BY <1>9 DEF Converging
<1>11. s \in Heap /\ b \in Heap /\ c \in Heap /\ m \in Heap /\ Core(s) /\ Core(b)
  BY <1>4, <1>6, <1>7, <1>10, MarkingFacts
<1>12. Follows(s, m) /\ Follows(s, b) /\ Follows(b, m)
  BY <1>6, <1>7, <1>8, <1>10, FollowsOn DEF Grows
<1>13. s.weak = g.weak /\ s.allweak = g.allweak /\ s.kind = g.kind /\ s.val = g.val /\ s.col = g.col
  BY <1>4 DEF Separates, SameGray, SameLists
<1>14. g.weak \subseteq m.weak /\ g.allweak \subseteq m.allweak
  BY <1>8, <1>10, <1>13 DEF Grows
<1>15. ValuesDone(m, g.weak \cup g.allweak)
  <2>1. NonWhite(s) = NonWhite(g)
    BY <1>13 DEF NonWhite, IsWhite
  <2>2. ValuesDone(s, g.weak \cup g.allweak)
    BY <1>13, <2>1 DEF ValuesDone, ValuesIn
  <2>3. g.weak \cup g.allweak \subseteq Bodies
    BY ListKinds
  <2>4. QED
    BY <1>11, <1>12, <2>2, <2>3, StayDone
<1>16. Roots(m) \subseteq NonWhite(m)
  <2>1. m.finobj = s.finobj /\ m.tobefnz = s.tobefnz
    BY <1>12 DEF Follows, Fixed
  <2>2. NonWhite(s) \subseteq NonWhite(m) /\ NonWhite(b) \subseteq NonWhite(m)
    BY <1>11, <1>12, FollowsWhite
  <2>3. Main \in NonWhite(s)
    BY <1>13 DEF NonWhite, IsWhite
  <2>4. Range(s.finobj) \subseteq NonWhite(s)
    <3>1. \A o \in Range(s.finobj) : ~IsWhite(s, o)
      BY <1>4 DEF Separates
    <3>2. Range(s.finobj) \subseteq Bodies
      BY <1>11, HeapTypes, RangeIs, Names
    <3>3. QED
      BY <3>1, <3>2 DEF NonWhite
  <2>5. Range(s.tobefnz) \subseteq NonWhite(b)
    <3>1. s.tobefnz \in Seq(Objs)
      BY <1>11, HeapTypes
    <3>2. \A x \in Range(s.tobefnz) : \E i \in 1..Len(s.tobefnz) : s.tobefnz[i] = x
      BY <3>1, RangeIs
    <3>3. QED
      BY <1>5, <3>2 DEF Remarks
  <2>6. QED
    BY <2>1, <2>2, <2>3, <2>4, <2>5 DEF Roots
<1>17. QED
  BY <1>3, <1>9, <1>10, <1>14, <1>15, <1>16 DEF Revived

\* The clearkeys of atomic.
LEMMA AllKeysCleared ==
    ASSUME NEW o, NEW g, Revived(o, g)
    PROVE  LET m == ClearAllKeys(g)
           IN /\ Marking(m, {}) /\ m.gray = {} /\ Roots(m) \subseteq NonWhite(m)
              /\ o.weak \subseteq m.weak /\ o.allweak \subseteq m.allweak
              /\ ValuesDone(m, o.weak \cup o.allweak)
              /\ KeysDone(m, m.ephemeron \cup m.allweak) /\ EntriesDone(m, m.ephemeron)
<1>1. PICK a : a = ClearKeys(g, g.ephemeron)
  OBVIOUS
<1>2. PICK m : m = ClearKeys(a, g.allweak)
  OBVIOUS
<1>3. ClearAllKeys(g) = m
  BY <1>1, <1>2 DEF ClearAllKeys
<1>4. Marking(g, {})
  BY DEF Revived
<1>5. /\ \A t \in g.ephemeron \cup g.allweak : t \in Bodies /\ g.kind[t] \in Tables
      /\ g \in Heap /\ Core(g) /\ g.ephemeron \subseteq Bodies /\ g.weak \cup g.allweak \subseteq Bodies
  BY <1>4, ListKinds, MarkingFacts
<1>6. Marking(a, {}) /\ ClearsKeys(g, a, g.ephemeron)
  BY <1>1, <1>4, <1>5, KeysCleared
<1>7. Follows(g, a) /\ SameGray(g, a) /\ KeysDone(a, g.ephemeron) /\ EntriesDone(a, g.ephemeron)
  BY <1>6 DEF ClearsKeys, Grows, KeysDone, EntriesDone, Revived
<1>8. a.kind = g.kind /\ NonWhite(g) \subseteq NonWhite(a) /\ Core(a) /\ a \in Heap
  BY <1>5, <1>6, <1>7, FollowsWhite, MarkingFacts
<1>9. Marking(m, {}) /\ ClearsKeys(a, m, g.allweak)
  BY <1>2, <1>5, <1>6, <1>8, KeysCleared
<1>10. Follows(a, m) /\ SameGray(a, m) /\ KeysDone(m, g.allweak)
  BY <1>9 DEF ClearsKeys, Grows, KeysDone
<1>11. NonWhite(a) \subseteq NonWhite(m) /\ KeysDone(m, g.ephemeron) /\ EntriesDone(m, g.ephemeron)
  BY <1>5, <1>7, <1>8, <1>10, FollowsWhite, StayDone
<1>12. m.gray = {} /\ m.weak = g.weak /\ m.allweak = g.allweak /\ m.ephemeron = g.ephemeron
  BY <1>7, <1>10 DEF SameGray, SameLists, Revived
<1>13. Follows(g, m)
  BY <1>7, <1>10, FollowsOn
<1>14. ValuesDone(m, o.weak \cup o.allweak)
  <2>1. o.weak \cup o.allweak \subseteq Bodies
    BY <1>5 DEF Revived
  <2>2. QED
    BY <1>5, <1>13, <2>1, StayDone DEF Revived
<1>15. Roots(m) \subseteq NonWhite(m)
  <2>1. Roots(m) = Roots(g)
    BY <1>13 DEF Follows, Fixed, Roots
  <2>2. QED
    BY <1>8, <1>11, <2>1 DEF Revived
<1>16. KeysDone(m, m.ephemeron \cup m.allweak)
  BY <1>10, <1>11, <1>12 DEF KeysDone
<1>17. QED
  BY <1>3, <1>9, <1>11, <1>12, <1>14, <1>15, <1>16 DEF Revived

\* The end of the mark phase: what is marked refers to nothing that is not.
Finished(m) ==
  /\ Core(m) /\ Roots(m) \subseteq NonWhite(m)
  /\ \A o \in Live(m) : ~IsWhite(m, o) => RefsIn(m, o, NonWhite(m))

\* After the last clearvalues the marked objects refer to marked objects only.
LEMMA RevivedCleared ==
    ASSUME NEW o, NEW g, Revived(o, g)
    PROVE  Finished(ClearRevived(o, ClearAllKeys(g)))
<1>1. PICK c : c = ClearAllKeys(g)
  OBVIOUS
<1>2. /\ Marking(c, {}) /\ c.gray = {} /\ Roots(c) \subseteq NonWhite(c)
      /\ o.weak \subseteq c.weak /\ o.allweak \subseteq c.allweak
      /\ ValuesDone(c, o.weak \cup o.allweak)
      /\ KeysDone(c, c.ephemeron \cup c.allweak) /\ EntriesDone(c, c.ephemeron)
  BY <1>1, AllKeysCleared
<1>3. PICK l, r : l = c.weak \ o.weak /\ r = c.allweak \ o.allweak
  OBVIOUS
<1>4. PICK a : a = ClearValues(c, l)
  OBVIOUS
<1>5. PICK m : m = ClearValues(a, r)
  OBVIOUS
<1>6. ClearRevived(o, c) = m
  BY <1>3, <1>4, <1>5 DEF ClearRevived
<1>7. /\ \A t \in l \cup r : t \in Bodies /\ c.kind[t] \in Tables
      /\ c \in Heap /\ Core(c) /\ c.weak \cup c.allweak \cup c.ephemeron \subseteq Bodies
  BY <1>2, <1>3, ListKinds, MarkingFacts
<1>8. Marking(a, {}) /\ ClearsValues(c, a, l)
  BY <1>2, <1>4, <1>7, ValuesCleared
<1>9. Follows(c, a) /\ SameGray(c, a) /\ ValuesDone(a, l)
  BY <1>8 DEF ClearsValues, Grows, ValuesDone
<1>10. a.kind = c.kind /\ NonWhite(c) \subseteq NonWhite(a) /\ Core(a) /\ a \in Heap
  BY <1>7, <1>8, <1>9, FollowsWhite, MarkingFacts
<1>11. Marking(m, {}) /\ ClearsValues(a, m, r)
  BY <1>5, <1>7, <1>8, <1>10, ValuesCleared
<1>12. Follows(a, m) /\ SameGray(a, m) /\ ValuesDone(m, r)
  BY <1>11 DEF ClearsValues, Grows, ValuesDone
<1>13. Follows(c, m) /\ l \subseteq Bodies /\ o.weak \cup o.allweak \subseteq Bodies
  BY <1>2, <1>3, <1>7, <1>9, <1>12, FollowsOn
<1>14. NonWhite(c) \subseteq NonWhite(m) /\ ValuesDone(m, l)
  BY <1>7, <1>9, <1>10, <1>12, <1>13, FollowsWhite, StayDone
<1>15. ValuesDone(m, o.weak \cup o.allweak)
  BY <1>2, <1>7, <1>13, StayDone
<1>16. KeysDone(m, c.ephemeron \cup c.allweak) /\ EntriesDone(m, c.ephemeron)
  <2>1. c.ephemeron \cup c.allweak \subseteq Bodies
    BY <1>7
  <2>2. KeysDone(m, c.ephemeron \cup c.allweak)
    BY <1>2, <1>7, <1>13, <2>1, StayDone
  <2>3. EntriesDone(m, c.ephemeron)
    BY <1>2, <1>7, <1>13, StayDone
  <2>4. QED
    BY <2>2, <2>3
<1>17. m.gray = {} /\ m.weak = c.weak /\ m.allweak = c.allweak /\ m.ephemeron = c.ephemeron
  BY <1>2, <1>9, <1>12 DEF SameGray, SameLists
<1>18. ValuesDone(m, m.weak \cup m.allweak)
  BY <1>3, <1>12, <1>14, <1>15, <1>17 DEF ValuesDone
<1>19. m \in Heap /\ Core(m) /\ Shaped(m)
  BY <1>11, MarkingFacts
<1>20. ASSUME NEW x \in Live(m), ~IsWhite(m, x)
       PROVE  RefsIn(m, x, NonWhite(m))
  <2>1. Done(m, x) /\ x \in Bodies
    BY <1>11, <1>17, <1>20 DEF Marking, Covered, Live
  <2>2. CASE m.kind[x] \notin {"weakvalue", "allweak", "ephemeron"}
    BY <2>1, <2>2 DEF Done
  <2>3. CASE m.kind[x] = "weakvalue"
    BY <1>18, <2>1, <2>3 DEF Done, ValuesDone, RefsIn, UpIn
  <2>4. CASE m.kind[x] = "allweak"
    BY <1>16, <1>17, <1>18, <2>1, <2>4 DEF Done, ValuesDone, KeysDone, RefsIn, UpIn
  <2>5. CASE m.kind[x] = "ephemeron"
    <3>1. CASE x \in m.allweak
      BY <1>16, <1>17, <1>18, <2>5, <3>1 DEF ValuesDone, KeysDone, RefsIn, UpIn
    <3>2. CASE x \in m.ephemeron /\ m.val[x][1] \in NonWhite(m) \cup {Nil}
      <4>1. KeysIn(m, x, NonWhite(m)) /\ \A k \in Objs : m.val[x][k] \in NonWhite(m) \cup {Nil}
        BY <1>16, <1>17, <3>2 DEF KeysDone, EntriesDone
      <4>2. \A k \in Keys : k = 1 \/ k \in Objs \/ m.val[x][k] = Nil
        BY <1>19, <2>1, <2>5, RoomOf DEF Tables
      <4>3. ValuesIn(m, x, NonWhite(m))
        BY <3>2, <4>1, <4>2 DEF ValuesIn
      <4>4. QED
        BY <2>5, <4>1, <4>3 DEF RefsIn, UpIn
    <3>3. QED
      BY <2>1, <2>5, <3>1, <3>2 DEF Done
  <2>6. QED
    BY <2>2, <2>3, <2>4, <2>5
<1>21. Roots(m) \subseteq NonWhite(m)
  <2>1. Roots(m) = Roots(c)
    BY <1>13 DEF Follows, Fixed, Roots
  <2>2. QED
    BY <1>2, <1>14, <2>1
<1>22. QED
  BY <1>1, <1>6, <1>19, <1>20, <1>21 DEF Finished

\* The heap when the sweep starts.
PreSweep(g) == g \in Heap /\ Shaped(g) /\ Listed(g) /\ Solid(g)

\* atomic flips the current white: what is not marked is dead.
LEMMA WhiteFlipped ==
    ASSUME NEW m, Finished(m), NEW n, n = [m EXCEPT !.white = Other(@)]
    PROVE  PreSweep(n)
<1>1. m \in Heap /\ Core(m) /\ Shaped(m) /\ Listed(m) /\ Solid(m) /\ Live(m) = Sound(m)
  BY DEF Finished, Core
<1>2. PICK w : w = Other(m.white)
  OBVIOUS
<1>3. /\ w \in {"white0", "white1"} /\ w # m.white /\ Other(w) = m.white /\ Other(m.white) = w
      /\ m.white \in {"white0", "white1"}
  BY <1>1, <1>2, HeapTypes DEF Other
<1>4. n = [m EXCEPT !.white = w]
  BY <1>2
<1>5. /\ n \in Heap /\ n.kind = m.kind /\ n.val = m.val /\ n.at = m.at /\ n.col = m.col /\ n.white = w
      /\ n.cast = m.cast /\ n.allgc = m.allgc /\ n.finobj = m.finobj /\ n.tobefnz = m.tobefnz
  BY <1>1, <1>3, <1>4 DEF Heap
<1>6. Listed(n)
  BY <1>1, <1>5 DEF Listed
<1>7. Shaped(n)
  <2>1. \A o : Room(n, o) = Room(m, o)
    BY <1>5 DEF Room
  <2>2. QED
    BY <1>1, <1>5, <2>1 DEF Shaped, Cast, Roomy, Opened, Colored
<1>8. Live(n) = Live(m) /\ \A o, S : RefsIn(n, o, S) <=> RefsIn(m, o, S)
  BY <1>5 DEF Live, RefsIn, ValuesIn, KeysIn, UpIn, UpValue
<1>9. \A o : o \in Sound(n) <=> o \in Live(m) /\ o \in NonWhite(m)
  BY <1>1, <1>3, <1>5, <1>8 DEF Sound, NonWhite, IsWhite, Live
<1>10. ASSUME NEW o \in Sound(n)
       PROVE  RefsIn(n, o, Sound(n)) /\ Closing(n, o)
  <2>1. o \in Live(m) /\ ~IsWhite(m, o) /\ o \in Sound(m)
    BY <1>1, <1>9 DEF NonWhite
  <2>2. RefsIn(m, o, NonWhite(m)) /\ RefsIn(m, o, Live(m)) /\ Closing(m, o)
    BY <1>1, <2>1 DEF Finished, Solid
  <2>3. RefsIn(m, o, Sound(n))
    BY <1>9, <2>2 DEF RefsIn, ValuesIn, KeysIn, UpIn
  <2>4. QED
    BY <1>5, <1>8, <2>2, <2>3 DEF Closing
<1>11. Roots(n) \subseteq Sound(n)
  <2>1. Roots(n) = Roots(m)
    BY <1>5 DEF Roots
  <2>2. QED
    BY <1>1, <1>9, <2>1 DEF Finished, Solid
<1>12. QED
  BY <1>5, <1>6, <1>7, <1>10, <1>11 DEF PreSweep, Solid

\* atomic leaves a heap where nothing that is not dead refers to what is.
LEMMA AtomicPreSweep ==
    ASSUME NEW g, Propagating(g), g.gray = {}
    PROVE  PreSweep(Atomic(g))
<1>1. PICK a : a = [g EXCEPT !.state = "atomic"]
  OBVIOUS
<1>2. PICK b, c, d, e : b = MarkStrong(a) /\ c = ClearAllValues(b) /\ d = MarkRevived(c)
                        /\ e = ClearRevived(c, ClearAllKeys(d))
  OBVIOUS
<1>3. Atomic(g) = [e EXCEPT !.white = Other(@)]
  BY <1>1, <1>2, Zenon DEF Atomic, Revive
<1>4. g \in Heap /\ Marking(g, Grays(g)) /\ Tidy(g, {})
  BY MarkingFacts DEF Propagating
<1>5. Alike(g, a) /\ SameGray(g, a) /\ a.gray = {}
  BY <1>1, <1>4 DEF Heap, States, Alike, SameGray, SameLists
<1>6. Marking(a, Grays(a)) /\ Tidy(a, {})
  <2>1. Grays(a) = Grays(g)
    BY <1>5 DEF Alike, Grays
  <2>2. QED
    BY <1>4, <1>5, <2>1, AlikeMarking
<1>7. Marking(b, {}) /\ b.gray = {} /\ Main \in NonWhite(b)
  BY <1>2, <1>5, <1>6, StrongMarked
<1>8. Marking(c, {}) /\ c.gray = {} /\ Main \in NonWhite(c) /\ ValuesDone(c, c.weak \cup c.allweak)
  BY <1>2, <1>7, AllValuesCleared
<1>9. Revived(c, d)
  BY <1>2, <1>8, RevivedMarked
<1>10. Finished(e)
  BY <1>2, <1>9, RevivedCleared
<1>11. QED
  BY <1>3, <1>10, WhiteFlipped

\* The objects a sweep that stands at p has still to come to in list s.
Behind(s, p) == IF p = "header" THEN Range(s) ELSE {b \in Objs : Before(s, p, b)}
\* p may stand in list s.
Stands(s, p) == p = "header" \/ p \in Range(s)

\* Where a pointer stands in a list.
LEMMA PlaceOf ==
    ASSUME NEW s \in Seq(Objs), Distinct(s), NEW p, Stands(s, p)
    PROVE  /\ Place(s, p) \in 0..Len(s)
           /\ p = "header" => Place(s, p) = 0
           /\ p # "header" => Place(s, p) \in 1..Len(s) /\ s[Place(s, p)] = p
<1>1. Len(s) \in Nat
  OBVIOUS
<1>2. CASE p = "header"
  BY <1>1, <1>2 DEF Place
<1>3. CASE p # "header"
  <2>1. \E i \in 1..Len(s) : s[i] = p
    BY <1>3, RangeIs DEF Stands
  <2>2. PICK q : q = CHOOSE i \in 1..Len(s) : s[i] = p
    OBVIOUS
  <2>3. q \in 1..Len(s) /\ s[q] = p
    BY <2>1, <2>2
  <2>4. Place(s, p) = q
    BY <1>3, <2>2 DEF Place
  <2>5. QED
    BY <1>1, <1>3, <2>3, <2>4
<1>4. QED
  BY <1>2, <1>3

\* At the end of a list nothing is left to sweep.
LEMMA NothingBehind ==
    ASSUME NEW s \in Seq(Objs), Distinct(s), NEW p, Stands(s, p), AtEnd(s, p)
    PROVE  Behind(s, p) = {}
<1>1. Len(s) \in Nat /\ Place(s, p) = Len(s)
  BY DEF AtEnd
<1>2. CASE p = "header"
  <2>1. Len(s) = 0
    BY <1>1, <1>2, PlaceOf
  <2>2. \A x : x \notin Range(s)
    <3>1. \A i : i \notin 1..Len(s)
      BY <2>1
    <3>2. \A x : x \in Range(s) <=> \E i \in 1..Len(s) : s[i] = x
      BY RangeIs
    <3>3. QED
      BY <3>1, <3>2
  <2>3. QED
    BY <1>2, <2>2 DEF Behind
<1>3. CASE p # "header"
  <2>1. Len(s) \in 1..Len(s) /\ s[Len(s)] = p
    BY <1>1, <1>3, PlaceOf
  <2>2. \A b : ~Before(s, p, b)
    <3>1. ASSUME NEW i \in 1..Len(s), NEW j \in 1..Len(s), i < j, s[i] = p
          PROVE  FALSE
      <4>1. i = Len(s)
        BY <2>1, <3>1 DEF Distinct
      <4>2. QED
        BY <1>1, <3>1, <4>1
    <3>2. QED
      BY <3>1 DEF Before
  <2>3. QED
    BY <1>3, <2>2 DEF Behind
<1>4. QED
  BY <1>2, <1>3

\* The next object of the sweep.
LEMMA NextOf ==
    ASSUME NEW s \in Seq(Objs), Distinct(s), NEW p, Stands(s, p), ~AtEnd(s, p), NEW o,
           o = s[Place(s, p) + 1]
    PROVE  /\ o \in Range(s) /\ o \in Objs /\ o # p /\ Behind(s, p) = {o} \cup Behind(s, o)
           /\ o \notin Behind(s, o)
<1>1. PICK q, n : q = Place(s, p) /\ n = Len(s)
  OBVIOUS
<1>2. n \in Nat /\ q \in 0..n /\ q # n
  BY <1>1, PlaceOf DEF AtEnd
<1>3. q + 1 \in 1..n /\ s[q + 1] = o /\ q + 1 \in 1..Len(s)
  BY <1>1, <1>2
<1>4. o \in Range(s) /\ o \in Objs
  BY <1>3, RangeIs
<1>5. o # "header"
  BY <1>4, GCAssumption
<1>6. \A i \in 1..Len(s) : s[i] = o => i = q + 1
  BY <1>3 DEF Distinct
<1>7. \A b : Before(s, o, b) <=> \E j \in 1..Len(s) : q + 1 < j /\ s[j] = b
  BY <1>3, <1>6 DEF Before
<1>8. o \notin Behind(s, o)
  <2>1. ~Before(s, o, o)
    BY <1>4, RangeIs
  <2>2. QED
    BY <1>5, <2>1 DEF Behind
<1>9. \A b : b \in Behind(s, o) <=> \E j \in 1..Len(s) : q + 1 < j /\ s[j] = b
  <2>1. \A j \in 1..Len(s) : s[j] \in Objs
    OBVIOUS
  <2>2. QED
    BY <1>5, <1>7, <2>1 DEF Behind
<1>10. \A b : b \in Behind(s, p) <=> \E j \in 1..Len(s) : q < j /\ s[j] = b
  <2>1. CASE p = "header"
    <3>1. q = 0 /\ \A j \in 1..Len(s) : 0 < j
      BY <1>1, <2>1, PlaceOf
    <3>2. Behind(s, p) = Range(s)
      BY <2>1 DEF Behind
    <3>3. \A b : b \in Range(s) <=> \E j \in 1..Len(s) : s[j] = b
      BY RangeIs
    <3>4. QED
      BY <3>1, <3>2, <3>3
  <2>2. CASE p # "header"
    <3>1. q \in 1..Len(s) /\ s[q] = p
      BY <1>1, <2>2, PlaceOf
    <3>2. \A i \in 1..Len(s) : s[i] = p => i = q
      BY <3>1 DEF Distinct
    <3>3. \A b : Before(s, p, b) <=> \E j \in 1..Len(s) : q < j /\ s[j] = b
      BY <3>1, <3>2 DEF Before
    <3>4. \A j \in 1..Len(s) : s[j] \in Objs
      OBVIOUS
    <3>5. QED
      BY <2>2, <3>3, <3>4 DEF Behind
  <2>3. QED
    BY <2>1, <2>2
<1>11. \A j \in 1..Len(s) : q < j <=> j = q + 1 \/ q + 1 < j
  BY <1>1, <1>2
<1>12. \A b : b \in Behind(s, p) <=> b = o \/ b \in Behind(s, o)
  BY <1>3, <1>9, <1>10, <1>11
<1>13. o # p
  <2>1. CASE p = "header"
    BY <1>5, <2>1
  <2>2. CASE p # "header"
    <3>1. s[q] = p /\ q \in 1..Len(s)
      BY <1>1, <2>2, PlaceOf
    <3>2. q # q + 1
      BY <1>2
    <3>3. QED
      BY <1>6, <3>1, <3>2
  <2>3. QED
    BY <2>1, <2>2
<1>14. QED
  BY <1>4, <1>8, <1>12, <1>13

\* w is s with objects linked before those it has.
Extends(s, w) == Range(s) \subseteq Range(w) /\ \A a, b : Before(s, a, b) => Before(w, a, b)

\* Linking at the head of a list does not disturb the sweep inside it.
LEMMA BehindExtends ==
    ASSUME NEW s, NEW w, Extends(s, w), NEW p
    PROVE  Behind(s, p) \subseteq Behind(w, p) /\ (Stands(s, p) => Stands(w, p))
BY DEF Extends, Behind, Stands

\* w is s without o.
Lacks(w, s, o) == w = Without(s, {o})

\* Nor does unlinking an object the sweep does not stand on.
LEMMA BehindWithout ==
    ASSUME NEW s \in Seq(Objs), NEW o, NEW p, p # o, NEW w, Lacks(w, s, o)
    PROVE  /\ Behind(w, p) = Behind(s, p) \ {o}
           /\ Stands(s, p) => Stands(w, p)
<1>1. w = Without(s, {o})
  BY DEF Lacks
<1>2. /\ Range(w) = Range(s) \ {o}
      /\ \A a, b : Before(w, a, b) <=> Before(s, a, b) /\ a \notin {o} /\ b \notin {o}
  <2>1. PICK X : X = {o}
    OBVIOUS
  <2>2. w = Without(s, X)
    BY <1>1, <2>1
  <2>3. /\ Range(w) = Range(s) \ X
        /\ \A a, b : Before(w, a, b) <=> Before(s, a, b) /\ a \notin X /\ b \notin X
    BY <2>2, WithoutFacts
  <2>4. QED
    BY <2>1, <2>3
<1>3. \A b : b \in Behind(w, p) <=> b \in Behind(s, p) /\ b # o
  BY <1>2 DEF Behind
<1>4. Stands(s, p) => Stands(w, p)
  BY <1>2 DEF Stands
<1>5. QED
  BY <1>1, <1>3, <1>4

\* The heap in order, but that the objects of X, about to be freed, are on no list.
ListedBut(g, X) ==
  /\ Distinct(g.allgc) /\ Distinct(g.finobj) /\ Distinct(g.tobefnz)
  /\ Apart(g.allgc, g.finobj) /\ Apart(g.allgc, g.tobefnz) /\ Apart(g.finobj, g.tobefnz)
  /\ \A o \in Objs : g.kind[o] \notin {"free", "string", "open"} /\ o \notin X <=>
        o \in Range(g.allgc) \cup Range(g.finobj) \cup Range(g.tobefnz)
  /\ \A o \in Range(g.finobj) \cup Range(g.tobefnz) : g.cast[o].gc
Structure(g, X) == g \in Heap /\ Shaped(g) /\ ListedBut(g, X) /\ Solid(g)

\* The two names of the heap when the sweep starts.
LEMMA StructureIs ==
    ASSUME NEW g
    PROVE  PreSweep(g) <=> Structure(g, {})
BY DEF PreSweep, Structure, Listed, ListedBut

\* What is not white is what the sweep has still to come to, or on a thread that is.
Swept1(g, A) ==
  \A o \in Objs : g.kind[o] # "free" /\ g.col[o] # g.white =>
    IF g.kind[o] = "open" THEN g.at[o][1] \in A ELSE o \in A

\* Swept1 is monotone.
LEMMA SweptMore ==
    ASSUME NEW g, NEW A, NEW B, Swept1(g, A), A \subseteq B
    PROVE  Swept1(g, B)
BY DEF Swept1

\* What a sweep step leaves alone.
Stays(g, m) ==
  /\ m.cast = g.cast /\ m.white = g.white /\ m.state = g.state /\ m.full = g.full
  /\ m.looped = g.looped /\ SameGray(g, m) /\ m.tobefnz = g.tobefnz
  /\ m.sweepfin = g.sweepfin /\ m.sweepgc = g.sweepgc /\ m.strings = g.strings
  /\ Live(m) \subseteq Live(g) /\ Sound(m) = Sound(g)
  /\ \A o \in Sound(g) : m.kind[o] = g.kind[o] \/ (g.kind[o] = "open" /\ m.kind[o] = "closed")
SweptFrom(g, m) == Stays(g, m) /\ \A o \in Objs : g.kind[o] = "string" => m.kind[o] = "string"

\* Sweep steps in a row.
LEMMA SweptFromOn ==
    ASSUME NEW g, NEW m, NEW n, SweptFrom(g, m), SweptFrom(m, n)
    PROVE  SweptFrom(g, n)
BY DEF SweptFrom, Stays, SameGray, SameLists

\* m is g with the objects of W made white.
Whitens(g, m, W) ==
  /\ m \in Heap /\ m.cast = g.cast /\ m.kind = g.kind /\ m.val = g.val /\ m.at = g.at
  /\ m.white = g.white /\ m.allgc = g.allgc /\ m.finobj = g.finobj /\ m.tobefnz = g.tobefnz
  /\ SweptFrom(g, m)
  /\ \A o \in Bodies : m.col[o] = IF o \in W THEN g.white ELSE g.col[o]

\* Making objects white that are not dead.
LEMMA WhitenStructure ==
    ASSUME NEW g, NEW m, NEW W, NEW X, Structure(g, X), W \subseteq Sound(g), m \in Heap,
           m.cast = g.cast, m.kind = g.kind, m.val = g.val, m.at = g.at,
           m.white = g.white, m.allgc = g.allgc, m.finobj = g.finobj, m.tobefnz = g.tobefnz,
           \A o \in Bodies : m.col[o] = IF o \in W THEN g.white ELSE g.col[o]
    PROVE  /\ Structure(m, X) /\ Sound(m) = Sound(g) /\ Live(m) = Live(g)
           /\ \A A : Swept1(g, A) => Swept1(m, A)
<1>1. g \in Heap /\ Shaped(g) /\ ListedBut(g, X) /\ Solid(g) /\ g.white \in {"white0", "white1"}
  BY HeapTypes DEF Structure
<1>2. Live(m) = Live(g) /\ Sound(m) = Sound(g)
  <2>1. g.white # Other(g.white)
    BY <1>1 DEF Other
  <2>2. QED
    BY <2>1 DEF Live, Sound
<1>3. Shaped(m)
  <2>1. \A o : Room(m, o) = Room(g, o)
    BY DEF Room
  <2>2. W \subseteq Live(g)
    BY DEF Sound
  <2>3. Colored(m)
    BY <1>1, <2>2 DEF Shaped, Colored, Live
  <2>4. QED
    BY <1>1, <2>1, <2>3 DEF Shaped, Cast, Roomy, Opened
<1>4. ListedBut(m, X)
  BY <1>1 DEF ListedBut
<1>5. Solid(m)
  <2>1. \A o, S : RefsIn(m, o, S) <=> RefsIn(g, o, S)
    BY DEF RefsIn, ValuesIn, KeysIn, UpIn, UpValue
  <2>2. QED
    BY <1>1, <1>2, <2>1 DEF Solid, Closing, Roots
<1>6. \A A : Swept1(g, A) => Swept1(m, A)
  BY Names DEF Swept1
<1>7. QED
  BY <1>2, <1>3, <1>4, <1>5, <1>6 DEF Structure

\* makewhite on an object that is not dead
LEMMA WhiteMade ==
    ASSUME NEW g, NEW X, Structure(g, X), NEW o \in Sound(g)
    PROVE  /\ Structure(MakeWhite(g, o), X) /\ Whitens(g, MakeWhite(g, o), {o})
           /\ \A A : Swept1(g, A) => Swept1(MakeWhite(g, o), A)
<1>1. PICK c, m : c = [g.col EXCEPT ![o] = g.white] /\ m = MakeWhite(g, o)
  OBVIOUS
<1>2. g \in Heap /\ o \in Bodies
  BY DEF Structure, Sound, Live
<1>3. c \in [Bodies -> Colors] /\ \A x \in Bodies : c[x] = IF x \in {o} THEN g.white ELSE g.col[x]
  BY <1>1, <1>2, HeapTypes DEF Colors
<1>4. m = [g EXCEPT !.col = c]
  BY <1>1, <1>2 DEF MakeWhite, Heap
<1>5. /\ m \in Heap /\ m.cast = g.cast /\ m.kind = g.kind /\ m.val = g.val /\ m.at = g.at
      /\ m.white = g.white /\ m.allgc = g.allgc /\ m.finobj = g.finobj /\ m.tobefnz = g.tobefnz
      /\ m.state = g.state /\ m.full = g.full /\ m.looped = g.looped /\ SameGray(g, m)
      /\ m.sweepfin = g.sweepfin /\ m.sweepgc = g.sweepgc /\ m.strings = g.strings /\ m.col = c
  BY <1>2, <1>3, <1>4 DEF Heap, SameGray, SameLists
<1>6. /\ Structure(m, X) /\ Sound(m) = Sound(g) /\ Live(m) = Live(g)
      /\ \A A : Swept1(g, A) => Swept1(m, A)
  <2>1. PICK W : W = {o}
    OBVIOUS
  <2>2. W \subseteq Sound(g) /\ \A x \in Bodies : m.col[x] = IF x \in W THEN g.white ELSE g.col[x]
    BY <1>3, <1>5, <2>1
  <2>3. QED
    BY <1>5, <2>2, WhitenStructure
<1>7. SweptFrom(g, m)
  BY <1>5, <1>6 DEF SweptFrom, Stays
<1>8. QED
  BY <1>1, <1>3, <1>5, <1>6, <1>7 DEF Whitens

\* m is g with the objects of S freed.
Erases(g, m, S) ==
  /\ m \in Heap /\ Stays(g, m) /\ m.allgc = g.allgc /\ m.finobj = g.finobj
  /\ \A o \in Bodies : o \in S => m.kind[o] = "free" /\ m.col[o] = "gray"
  /\ \A o \in Bodies : o \notin S => m.kind[o] = g.kind[o] /\ m.val[o] = g.val[o] /\ m.col[o] = g.col[o]
  /\ \A o \in Objs : o \notin S => m.at[o] = g.at[o]
  /\ Live(m) = Live(g) \ S

\* Freeing dead objects leaves the heap in order.
LEMMA Erased ==
    ASSUME NEW g, NEW X, NEW S, Structure(g, X), S \subseteq Objs,
           \A o \in S : IsDead(g, o),
           \A o \in S : g.kind[o] \in {"open", "string"} \/ o \in X,
           \A u \in Objs : g.kind[u] = "open" /\ u \notin S => g.at[u][1] \notin S
    PROVE  /\ Structure(Erase(g, S), X \ S) /\ Erases(g, Erase(g, S), S)
           /\ (\A o \in S : g.kind[o] # "string") => SweptFrom(g, Erase(g, S))
           /\ \A A : Swept1(g, A) => Swept1(Erase(g, S), A)
<1>1. PICK k, v, a, c, F :
         /\ k = [o \in Bodies |-> IF o \in S THEN "free" ELSE g.kind[o]]
         /\ v = [o \in Bodies |-> IF o \in S THEN [x \in Keys |-> Nil] ELSE g.val[o]]
         /\ a = [o \in Objs |-> IF o \in S THEN Nil ELSE g.at[o]]
         /\ c = [o \in Bodies |-> IF o \in S THEN "gray" ELSE g.col[o]]
         /\ F = g.finalized \ S
  OBVIOUS
<1>2. PICK m : m = [g EXCEPT !.kind = k, !.val = v, !.at = a, !.col = c, !.finalized = F]
  OBVIOUS
<1>3. Erase(g, S) = m
  BY <1>1, <1>2, Zenon DEF Erase
<1>4. /\ g \in Heap /\ Shaped(g) /\ ListedBut(g, X) /\ Solid(g)
  BY DEF Structure
<1>5. /\ k \in [Bodies -> Kinds \cup {"free"}] /\ v \in [Bodies -> [Keys -> Objs \cup {Nil}]]
      /\ a \in [Objs -> (Bodies \X Regs) \cup {Nil}] /\ c \in [Bodies -> Colors] /\ F \in SUBSET Objs
  BY <1>1, <1>4, HeapTypes DEF Colors
<1>6. /\ m \in Heap /\ m.cast = g.cast /\ m.kind = k /\ m.val = v /\ m.at = a
      /\ m.white = g.white /\ m.allgc = g.allgc /\ m.finobj = g.finobj /\ m.tobefnz = g.tobefnz
      /\ m.state = g.state /\ m.full = g.full /\ m.looped = g.looped /\ SameGray(g, m)
      /\ m.sweepfin = g.sweepfin /\ m.sweepgc = g.sweepgc /\ m.strings = g.strings /\ m.col = c
  BY <1>2, <1>4, <1>5 DEF Heap, SameGray, SameLists
<1>7. /\ \A o \in Bodies : o \in S => m.kind[o] = "free" /\ m.col[o] = "gray"
      /\ \A o \in Bodies, x \in Keys : o \in S => m.val[o][x] = Nil
      /\ \A o \in Bodies : o \notin S => m.kind[o] = g.kind[o] /\ m.val[o] = g.val[o] /\ m.col[o] = g.col[o]
      /\ \A o \in Objs : m.at[o] = IF o \in S THEN Nil ELSE g.at[o]
  BY <1>1, <1>6
<1>8. Live(m) = Live(g) \ S
  BY <1>7 DEF Live
<1>9. Sound(m) = Sound(g) /\ \A o \in Sound(g) : o \notin S
  BY <1>6, <1>7, <1>8 DEF Sound, IsDead, Live
<1>10. Main \notin S /\ S \subseteq Bodies
  BY Names
<1>11. Shaped(m)
  <2>1. \A o \in Bodies : o \notin S => Room(m, o) = Room(g, o)
    BY <1>7 DEF Room
  <2>2. Roomy(m)
    BY <1>4, <1>7, <2>1 DEF Shaped, Roomy
  <2>3. Cast(m) /\ m.kind[Main] = "thread"
    BY <1>4, <1>6, <1>7, <1>10, Names DEF Shaped, Cast
  <2>4. Colored(m)
    BY <1>4, <1>7 DEF Shaped, Colored
  <2>5. Opened(m)
    <3>1. \A o \in Objs : m.at[o] # Nil <=> m.kind[o] = "open"
      BY <1>4, <1>7, Names DEF Shaped, Opened
    <3>2. ASSUME NEW o \in Objs, m.kind[o] = "open"
          PROVE  /\ m.kind[m.at[o][1]] = "thread" /\ m.at[o][2] \in Room(m, m.at[o][1])
                 /\ \A u \in Objs : m.at[u] = m.at[o] => u = o
      <4>1. o \notin S /\ g.kind[o] = "open" /\ m.at[o] = g.at[o]
        BY <1>7, <3>2, Names
      <4>2. g.at[o][1] \in Bodies /\ g.at[o][1] \notin S /\ g.at[o] # Nil
        BY <1>4, <4>1, OpenAt DEF Shaped, Opened
      <4>3. g.kind[g.at[o][1]] = "thread" /\ g.at[o][2] \in Room(g, g.at[o][1])
        BY <1>4, <4>1 DEF Shaped, Opened
      <4>4. \A u \in Objs : m.at[u] = m.at[o] => u = o
        BY <1>4, <1>7, <4>1, <4>2 DEF Shaped, Opened
      <4>5. QED
        BY <1>7, <2>1, <4>1, <4>2, <4>3, <4>4
    <3>3. QED
      BY <3>1, <3>2 DEF Opened
  <2>6. QED
    BY <2>2, <2>3, <2>4, <2>5 DEF Shaped
<1>12. ListedBut(m, X \ S)
  <2>1. \A o \in Objs : m.kind[o] \notin {"free", "string", "open"} /\ o \notin X \ S <=>
                        g.kind[o] \notin {"free", "string", "open"} /\ o \notin X
    BY <1>7, Names
  <2>2. QED
    BY <1>4, <1>6, <2>1 DEF ListedBut
<1>13. Solid(m)
  <2>1. Roots(m) = Roots(g)
    BY <1>6 DEF Roots
  <2>2. ASSUME NEW o \in Sound(g)
        PROVE  RefsIn(m, o, Sound(g)) /\ Closing(m, o)
    <3>1. o \in Bodies /\ o \notin S /\ m.kind[o] = g.kind[o] /\ m.val[o] = g.val[o]
      BY <1>7, <1>9 DEF Sound, Live
    <3>2. RefsIn(g, o, Sound(g)) /\ Closing(g, o)
      BY <1>4 DEF Solid
    <3>3. ValuesIn(m, o, Sound(g)) /\ KeysIn(m, o, Sound(g))
      BY <3>1, <3>2 DEF RefsIn, ValuesIn, KeysIn
    <3>4. UpIn(m, o, Sound(g))
      <4>1. SUFFICES ASSUME g.kind[o] = "open"
                     PROVE  UpValue(m, o) = UpValue(g, o)
        BY <3>1, <3>2 DEF RefsIn, UpIn
      <4>2. o \in Objs
        BY <1>4, <3>1, <4>1 DEF Shaped, Bodies
      <4>3. g.at[o][1] \in Bodies /\ g.at[o][1] \notin S
        BY <1>4, <3>1, <4>1, <4>2, OpenAt DEF Shaped
      <4>4. m.at[o] = g.at[o] /\ m.val[g.at[o][1]] = g.val[g.at[o][1]]
        BY <1>7, <3>1, <4>2, <4>3
      <4>5. QED
        BY <3>1, <4>1, <4>4 DEF UpValue
    <3>5. Closing(m, o)
      <4>1. SUFFICES ASSUME g.kind[o] = "lclosure"
                     PROVE  g.val[o][2] # Nil /\ m.kind[g.val[o][2]] \in {"open", "closed"}
        BY <3>1 DEF Closing
      <4>2. g.val[o][2] # Nil /\ g.kind[g.val[o][2]] \in {"open", "closed"}
        BY <3>2, <4>1 DEF Closing
      <4>3. g.val[o][2] \in Sound(g)
        BY <3>2, <4>2, Names DEF RefsIn, ValuesIn
      <4>4. QED
        BY <1>7, <1>9, <4>2, <4>3 DEF Sound, Live
    <3>6. QED
      BY <3>3, <3>4, <3>5 DEF RefsIn
  <2>3. QED
    BY <1>4, <1>9, <2>1, <2>2 DEF Solid
<1>14. Stays(g, m) /\ ((\A o \in S : g.kind[o] # "string") => SweptFrom(g, m))
  <2>1. (\A o \in S : g.kind[o] # "string") => \A o \in Objs : g.kind[o] = "string" => m.kind[o] = "string"
    BY <1>7, Names
  <2>2. \A o \in Sound(g) : m.kind[o] = g.kind[o]
    BY <1>7, <1>9 DEF Sound, Live
  <2>3. QED
    BY <1>6, <1>8, <1>9, <2>1, <2>2 DEF SweptFrom, Stays
<1>15. \A A : Swept1(g, A) => Swept1(m, A)
  BY <1>6, <1>7, Names DEF Swept1
<1>16. Erases(g, m, S)
  BY <1>6, <1>7, <1>8, <1>14 DEF Erases
<1>17. QED
  BY <1>3, <1>6, <1>11, <1>12, <1>13, <1>14, <1>15, <1>16 DEF Structure

\* luaF_close gives an upvalue the value it stands for and links it at the head of allgc.
Closes(g, n, u) ==
  /\ n \in Heap /\ SweptFrom(g, n) /\ n.finobj = g.finobj /\ n.finalized = g.finalized
  /\ n.kind[u] = "closed" /\ \A o \in Bodies : o # u => n.kind[o] = g.kind[o] /\ n.val[o] = g.val[o]
  /\ \A k \in Keys : n.val[u][k] = IF k = 1 THEN UpValue(g, u) ELSE Nil
  /\ n.at[u] = Nil /\ \A o \in Objs : o # u => n.at[o] = g.at[o]
  /\ n.col = g.col /\ u \notin Range(g.allgc) /\ Heads(n.allgc, u, g.allgc)
  /\ Live(n) = Live(g)

Shuts(g, n, u) ==
  n = [g EXCEPT !.kind[u] = "closed", !.val[u][1] = UpValue(g, u), !.at[u] = Nil, !.allgc = <<u>> \o @]

\* Closing an upvalue leaves the heap in order.
LEMMA UpvalCloses ==
    ASSUME NEW g, NEW X, Structure(g, X), NEW u \in Objs, g.kind[u] = "open", ~IsDead(g, u), u \notin X,
           NEW n, Shuts(g, n, u)
    PROVE  Structure(n, X) /\ Closes(g, n, u)
<1>1. PICK k, v, a, l : /\ k = [g.kind EXCEPT ![u] = "closed"]
                        /\ v = [g.val EXCEPT ![u] = [g.val[u] EXCEPT ![1] = UpValue(g, u)]]
                        /\ a = [g.at EXCEPT ![u] = Nil]
                        /\ l = <<u>> \o g.allgc
  OBVIOUS
<1>2. g \in Heap /\ Shaped(g) /\ ListedBut(g, X) /\ Solid(g) /\ u \in Bodies
  BY Names DEF Structure
<1>3. n = [g EXCEPT !.kind = k, !.val = v, !.at = a, !.allgc = l]
  <2>1. g.val \in [Bodies -> [Keys -> Objs \cup {Nil}]]
    BY <1>2, HeapTypes
  <2>2. QED
    BY <1>1, Zenon DEF Shuts
<1>4. Heads(l, u, g.allgc)
  BY <1>1 DEF Heads
<1>5. /\ UpValue(g, u) \in Objs \cup {Nil} /\ UpValue(g, u) \in Sound(g) \cup {Nil} /\ u \in Sound(g)
      /\ \A x \in Keys : g.val[u][x] = Nil
  <2>1. u \in Sound(g)
    BY <1>2 DEF Sound, Live, IsDead
  <2>2. UpValue(g, u) \in Sound(g) \cup {Nil}
    BY <1>2, <2>1 DEF Solid, RefsIn, UpIn
  <2>3. QED
    BY <1>2, <2>1, <2>2, UpType, RoomOf
<1>6. u \notin Range(g.allgc) /\ u \notin Range(g.finobj) /\ u \notin Range(g.tobefnz) /\ g.allgc \in Seq(Objs)
  BY <1>2, HeapTypes DEF ListedBut
<1>7. /\ l \in Seq(Objs) /\ Range(l) = {u} \cup Range(g.allgc)
      /\ Distinct(g.allgc) /\ u \notin Range(g.allgc) => Distinct(l)
  BY <1>4, <1>6, Prepended
<1>8. /\ k \in [Bodies -> Kinds \cup {"free"}] /\ a \in [Objs -> (Bodies \X Regs) \cup {Nil}]
      /\ v \in [Bodies -> [Keys -> Objs \cup {Nil}]]
  <2>1. g.val[u] \in [Keys -> Objs \cup {Nil}]
    BY <1>2, HeapTypes
  <2>2. [g.val[u] EXCEPT ![1] = UpValue(g, u)] \in [Keys -> Objs \cup {Nil}]
    BY <1>5, <2>1
  <2>3. QED
    BY <1>1, <1>2, <2>2, HeapTypes DEF Kinds
<1>9. /\ n \in Heap /\ n.cast = g.cast /\ n.kind = k /\ n.val = v /\ n.at = a /\ n.col = g.col
      /\ n.white = g.white /\ n.allgc = l /\ n.finobj = g.finobj /\ n.tobefnz = g.tobefnz
      /\ n.state = g.state /\ n.full = g.full /\ n.looped = g.looped /\ SameGray(g, n)
      /\ n.sweepfin = g.sweepfin /\ n.sweepgc = g.sweepgc /\ n.strings = g.strings
      /\ n.finalized = g.finalized
  BY <1>2, <1>3, <1>7, <1>8 DEF Heap, SameGray, SameLists
<1>10. /\ n.kind[u] = "closed" /\ \A o \in Bodies : o # u => n.kind[o] = g.kind[o] /\ n.val[o] = g.val[o]
       /\ n.at[u] = Nil /\ \A o \in Objs : o # u => n.at[o] = g.at[o]
  BY <1>1, <1>2, <1>9, HeapTypes
<1>11. \A x \in Keys : n.val[u][x] = IF x = 1 THEN UpValue(g, u) ELSE Nil
  <2>1. g.val[u] \in [Keys -> Objs \cup {Nil}] /\ g.val \in [Bodies -> [Keys -> Objs \cup {Nil}]]
    BY <1>2, HeapTypes
  <2>2. n.val[u] = [g.val[u] EXCEPT ![1] = UpValue(g, u)]
    BY <1>1, <1>2, <1>9, <2>1
  <2>3. QED
    BY <1>5, <2>1, <2>2
<1>12. Live(n) = Live(g) /\ Sound(n) = Sound(g)
  <2>1. \A o \in Bodies : n.kind[o] = "free" <=> g.kind[o] = "free"
    BY <1>10
  <2>2. QED
    BY <1>9, <2>1 DEF Live, Sound
<1>13. u # Main /\ \A o \in Bodies : o # u => Room(n, o) = Room(g, o)
  BY <1>10, Names DEF Room
<1>14. Shaped(n)
  <2>1. Room(n, u) = {1}
    BY <1>10, <1>13 DEF Room, Tables
  <2>2. Roomy(n)
    BY <1>2, <1>10, <1>11, <1>13, <2>1 DEF Shaped, Roomy
  <2>3. Cast(n) /\ n.kind[Main] = "thread"
    BY <1>2, <1>9, <1>10, <1>13, Names DEF Shaped, Cast
  <2>4. Colored(n)
    BY <1>2, <1>9, <1>10 DEF Shaped, Colored, NeverBlack
  <2>5. ASSUME NEW o \in Objs, n.kind[o] = "open"
        PROVE  /\ n.kind[n.at[o][1]] = "thread" /\ n.at[o][2] \in Room(n, n.at[o][1])
               /\ \A x \in Objs : n.at[x] = n.at[o] => x = o
    <3>1. o # u /\ g.kind[o] = "open" /\ n.at[o] = g.at[o]
      BY <1>10, <2>5, Names
    <3>2. g.at[o][1] \in Bodies /\ g.kind[g.at[o][1]] = "thread" /\ g.at[o][2] \in Room(g, g.at[o][1])
      BY <1>2, <3>1, OpenAt DEF Shaped
    <3>3. g.at[o] # Nil /\ \A x \in Objs : g.at[x] = g.at[o] => x = o
      BY <1>2, <3>1 DEF Shaped, Opened
    <3>4. \A x \in Objs : n.at[x] = n.at[o] => x = o
      BY <1>10, <3>1, <3>3
    <3>5. QED
      BY <1>10, <1>13, <3>1, <3>2, <3>4
  <2>6. \A o \in Objs : n.at[o] # Nil <=> n.kind[o] = "open"
    BY <1>2, <1>10, Names DEF Shaped, Opened
  <2>7. QED
    BY <2>2, <2>3, <2>4, <2>5, <2>6 DEF Shaped, Opened
<1>15. ListedBut(n, X)
  <2>1. Apart(l, g.finobj) /\ Apart(l, g.tobefnz)
    BY <1>2, <1>6, <1>7 DEF ListedBut, Apart
  <2>2. \A o \in Objs : n.kind[o] \notin {"free", "string", "open"} /\ o \notin X <=>
             o = u \/ (g.kind[o] \notin {"free", "string", "open"} /\ o \notin X)
    BY <1>10, Names
  <2>3. \A o \in Objs : n.kind[o] \notin {"free", "string", "open"} /\ o \notin X <=>
             o \in Range(l) \cup Range(g.finobj) \cup Range(g.tobefnz)
    BY <1>2, <1>7, <2>2 DEF ListedBut
  <2>4. QED
    BY <1>2, <1>6, <1>7, <1>9, <2>1, <2>3 DEF ListedBut
<1>16. Solid(n)
  <2>1. Roots(n) = Roots(g)
    BY <1>9 DEF Roots
  <2>2. ASSUME NEW o \in Sound(g)
        PROVE  RefsIn(n, o, Sound(g)) /\ Closing(n, o)
    <3>1. o \in Bodies /\ RefsIn(g, o, Sound(g)) /\ Closing(g, o)
      BY <1>2 DEF Solid, Sound, Live
    <3>2. CASE o = u
      BY <1>5, <1>10, <1>11, <3>2, Names DEF RefsIn, ValuesIn, KeysIn, UpIn, Closing
    <3>3. CASE o # u
      <4>1. n.kind[o] = g.kind[o] /\ n.val[o] = g.val[o]
        BY <1>10, <3>1, <3>3
      <4>2. UpIn(n, o, Sound(g))
        <5>1. SUFFICES ASSUME g.kind[o] = "open"
                       PROVE  UpValue(n, o) = UpValue(g, o)
          BY <3>1, <4>1 DEF RefsIn, UpIn
        <5>2. o \in Objs
          BY <1>2, <3>1, <5>1 DEF Shaped, Bodies
        <5>3. g.at[o][1] \in Bodies /\ g.at[o][1] # u /\ n.at[o] = g.at[o]
          BY <1>2, <1>10, <3>3, <5>1, <5>2, OpenAt DEF Shaped
        <5>4. n.val[g.at[o][1]] = g.val[g.at[o][1]]
          BY <1>10, <5>3
        <5>5. QED
          BY <4>1, <5>1, <5>3, <5>4 DEF UpValue
      <4>3. Closing(n, o)
        <5>1. SUFFICES ASSUME g.kind[o] = "lclosure"
                       PROVE  g.val[o][2] # Nil /\ n.kind[g.val[o][2]] \in {"open", "closed"}
          BY <4>1 DEF Closing
        <5>2. g.val[o][2] # Nil /\ g.kind[g.val[o][2]] \in {"open", "closed"}
          BY <3>1, <5>1 DEF Closing
        <5>3. g.val[o][2] \in Bodies
          BY <3>1, <5>2, Names DEF RefsIn, ValuesIn, Sound, Live
        <5>4. QED
          BY <1>10, <5>2, <5>3
      <4>4. QED
        BY <3>1, <4>1, <4>2, <4>3 DEF RefsIn, ValuesIn, KeysIn
    <3>4. QED
      BY <3>2, <3>3
  <2>3. QED
    BY <1>2, <1>12, <2>1, <2>2 DEF Solid
<1>17. SweptFrom(g, n)
  <2>1. \A o \in Objs : g.kind[o] = "string" => n.kind[o] = "string"
    BY <1>10, Names
  <2>2. \A o \in Sound(g) : n.kind[o] = g.kind[o] \/ (g.kind[o] = "open" /\ n.kind[o] = "closed")
    BY <1>10 DEF Sound, Live
  <2>3. QED
    BY <1>9, <1>12, <2>1, <2>2 DEF SweptFrom, Stays
<1>18. QED
  BY <1>4, <1>6, <1>9, <1>10, <1>11, <1>12, <1>14, <1>15, <1>16, <1>17 DEF Structure, Closes

\* Extends is transitive.
LEMMA ExtendsOn ==
    ASSUME NEW s, NEW t, NEW w, Extends(s, t), Extends(t, w)
    PROVE  Extends(s, w)
BY DEF Extends

\* Linking at the head extends a list.
LEMMA HeadsExtend ==
    ASSUME NEW s \in Seq(Objs), NEW u \in Objs, NEW w, Heads(w, u, s)
    PROVE  Extends(s, w)
<1>1. /\ Range(w) = {u} \cup Range(s)
      /\ \A a, b : Before(w, a, b) <=> Before(s, a, b) \/ (a = u /\ b \in Range(s))
  BY Prepended
<1>2. QED
  BY <1>1 DEF Extends

\* m is g, in a sweep, with upvalues closed or freed.
ClosedSome(g, m, X) ==
  /\ Structure(m, X) /\ SweptFrom(g, m) /\ Extends(g.allgc, m.allgc) /\ m.finobj = g.finobj
  /\ \A A : Swept1(g, A) => Swept1(m, A)
  /\ \A x \in Bodies : g.kind[x] # "open" => m.kind[x] = g.kind[x] /\ m.col[x] = g.col[x]
  /\ \A x \in Objs : m.kind[x] = "open" => g.kind[x] = "open" /\ m.at[x] = g.at[x] /\ m.col[x] = g.col[x]

\* Closing upvalues in a row.
LEMMA ClosedOn ==
    ASSUME NEW g, NEW m, NEW n, NEW X, ClosedSome(g, m, X), ClosedSome(m, n, X)
    PROVE  ClosedSome(g, n, X)
<1>1. SweptFrom(g, n) /\ Extends(g.allgc, n.allgc)
  BY SweptFromOn, ExtendsOn DEF ClosedSome
<1>2. \A x \in Bodies : g.kind[x] # "open" => n.kind[x] = g.kind[x] /\ n.col[x] = g.col[x]
  BY DEF ClosedSome
<1>3. QED
  BY <1>1, <1>2 DEF ClosedSome

\* luaF_close on one upvalue while the sweep goes on.
LEMMA UpvalClosed ==
    ASSUME NEW g, NEW X, Structure(g, X), ~KeepInvariant(g), NEW u \in Objs, g.kind[u] = "open", u \notin X
    PROVE  ClosedSome(g, CloseUpval(g, u), X) /\ CloseUpval(g, u).kind[u] # "open"
<1>1. g \in Heap /\ Shaped(g) /\ u \in Bodies
  BY Names DEF Structure
<1>2. CASE IsDead(g, u)
  <2>1. PICK m, S : S = {u} /\ m = Erase(g, S)
    OBVIOUS
  <2>2. CloseUpval(g, u) = m
    BY <1>2, <2>1 DEF CloseUpval
  <2>3. S \subseteq Objs /\ \A o \in S : IsDead(g, o) /\ g.kind[o] = "open"
    BY <1>2, <2>1
  <2>4. \A x \in Objs : g.kind[x] = "open" /\ x \notin S => g.at[x][1] \notin S
    <3>1. ASSUME NEW x \in Objs, g.kind[x] = "open"
          PROVE  g.at[x][1] # u
      BY <1>1, <3>1, OpenAt DEF Shaped
    <3>2. QED
      BY <2>1, <3>1
  <2>5. /\ Structure(m, X \ S) /\ Erases(g, m, S) /\ SweptFrom(g, m)
        /\ \A A : Swept1(g, A) => Swept1(m, A)
    BY <2>1, <2>3, <2>4, Erased
  <2>6. X \ S = X
    BY <2>1
  <2>7. /\ \A x \in Bodies : g.kind[x] # "open" => m.kind[x] = g.kind[x] /\ m.col[x] = g.col[x]
        /\ \A x \in Objs : m.kind[x] = "open" => g.kind[x] = "open" /\ m.at[x] = g.at[x] /\ m.col[x] = g.col[x]
        /\ m.kind[u] = "free"
    BY <1>1, <2>1, <2>3, <2>5, Names DEF Erases
  <2>8. Extends(g.allgc, m.allgc) /\ m.finobj = g.finobj
    BY <2>5 DEF Erases, Extends
  <2>9. QED
    BY <2>2, <2>5, <2>6, <2>7, <2>8 DEF ClosedSome
<1>3. CASE ~IsDead(g, u)
  <2>1. PICK n : n = [g EXCEPT !.kind[u] = "closed", !.val[u][1] = UpValue(g, u),
                                !.at[u] = Nil, !.allgc = <<u>> \o @]
    OBVIOUS
  <2>2. Structure(n, X) /\ Closes(g, n, u)
    BY <1>3, <2>1, UpvalCloses DEF Shuts
  <2>3. CloseUpval(g, u) = CheckUpvalColor(n, u)
    BY <1>3, <2>1, Zenon DEF CloseUpval
  <2>4. ~KeepInvariant(n)
    BY <2>2 DEF Closes, SweptFrom, Stays, KeepInvariant
  <2>5. PICK m : m = CheckUpvalColor(n, u)
    OBVIOUS
  <2>6. m = IF ~IsGray(n, u) THEN n ELSE MakeWhite(n, u)
    BY <2>4, <2>5 DEF CheckUpvalColor
  <2>7. u \in Sound(g) /\ Sound(n) = Sound(g) /\ g.col[u] # "black" /\ g.col[u] \in Colors
    BY <1>1, <1>3, <2>2, HeapTypes DEF Sound, Live, IsDead, Closes, SweptFrom, Stays, Shaped, Colored, NeverBlack
  <2>8. /\ Structure(m, X) /\ SweptFrom(n, m) /\ m.allgc = n.allgc /\ m.finobj = n.finobj
        /\ m.kind = n.kind /\ m.at = n.at /\ m.white = n.white
        /\ \A x \in Bodies : x # u => m.col[x] = n.col[x]
        /\ m.col[u] = g.white
    <3>1. CASE IsGray(n, u)
      BY <1>1, <2>2, <2>6, <2>7, <3>1, WhiteMade DEF Whitens, Closes, SweptFrom, Stays
    <3>2. CASE ~IsGray(n, u)
      <4>1. g.col[u] = g.white
        <5>1. g.white \in {"white0", "white1"}
          BY <1>1, HeapTypes
        <5>2. g.col[u] # Other(g.white) /\ g.col[u] # "gray"
          BY <1>3, <2>2, <2>7, <3>2 DEF Closes, IsGray, IsDead, Sound, Live
        <5>3. QED
          BY <2>7, <5>1, <5>2 DEF Colors, Other
      <4>2. m = n /\ SweptFrom(n, n)
        BY <2>6, <3>2 DEF SweptFrom, Stays, SameGray, SameLists
      <4>3. QED
        BY <2>2, <4>1, <4>2 DEF Closes
    <3>3. QED
      BY <3>1, <3>2
  <2>9. SweptFrom(g, m)
    BY <2>2, <2>8, SweptFromOn DEF Closes
  <2>10. Extends(g.allgc, m.allgc)
    <3>1. g.allgc \in Seq(Objs)
      BY <1>1, HeapTypes
    <3>2. QED
      BY <2>2, <2>8, <3>1, HeadsExtend DEF Closes
  <2>11. /\ \A x \in Bodies : g.kind[x] # "open" => m.kind[x] = g.kind[x] /\ m.col[x] = g.col[x]
         /\ \A x \in Objs : m.kind[x] = "open" => g.kind[x] = "open" /\ m.at[x] = g.at[x] /\ m.col[x] = g.col[x]
         /\ m.kind[u] = "closed"
    BY <2>2, <2>8, Names DEF Closes
  <2>12. ASSUME NEW A, Swept1(g, A)
         PROVE  Swept1(m, A)
    <3>1. \A x \in Objs : x # u => m.kind[x] = g.kind[x] /\ m.at[x] = g.at[x] /\ m.col[x] = g.col[x]
      BY <2>2, <2>8, Names DEF Closes
    <3>2. m.white = g.white
      BY <2>9 DEF SweptFrom, Stays
    <3>3. QED
      BY <2>8, <2>12, <3>1, <3>2 DEF Swept1
  <2>13. m.finobj = g.finobj
    BY <2>2, <2>8 DEF Closes
  <2>14. QED
    BY <2>3, <2>5, <2>8, <2>9, <2>10, <2>11, <2>12, <2>13 DEF ClosedSome
<1>4. QED
  BY <1>2, <1>3

-----------------------------------------------------------------------------
\* The open upvalue of a stack slot, if there is one.
UpvalsAt(m, th, s) == {u \in Of(m, {"open"}) : m.at[u] = <<th, s>>}

\* luaF_close slot by slot: V[n] holds the heaps there may be after n slots.
LEMMA UpvalsClosed ==
    ASSUME NEW th, NEW level \in 0..NSlots + 1, NEW V, NEW g,
           V \in [0..NSlots + 1 - level -> SUBSET Heap], g \in V[0],
           \A n \in 1..NSlots + 1 - level : \A m \in V[n - 1] :
             /\ UpvalsAt(m, th, NSlots + 1 - n) = {} => m \in V[n]
             /\ \A u \in UpvalsAt(m, th, NSlots + 1 - n) : CloseUpval(m, u) \in V[n]
    PROVE  CloseUpvals(g, th, level) \in V[NSlots + 1 - level]
<1> DEFINE N == NSlots + 1 - level
           S == Heap
           U(n, m) == {u \in Of(m, {"open"}) : m.at[u] = <<th, NSlots + 1 - n>>}
           go(n, m) == IF U(n, m) = {} THEN m ELSE CloseUpval(m, CHOOSE u \in U(n, m) : TRUE)
           f(after) == [n \in 0..N |-> IF n = 0 THEN g ELSE go(n, after[n - 1])]
           after == CHOOSE after : after = f(after)
<1>1. CloseUpvals(g, th, level) = after[N]
  BY Zenon DEF CloseUpvals
<1>2. N \in Nat /\ NSlots \in Nat
  BY Names
<1>3. \A n \in 1..N : \A m \in V[n - 1] : go(n, m) \in V[n]
  <2> SUFFICES ASSUME NEW n \in 1..N, NEW m \in V[n - 1]
               PROVE  go(n, m) \in V[n]
    OBVIOUS
  <2>1. U(n, m) = UpvalsAt(m, th, NSlots + 1 - n)
    BY DEF UpvalsAt
  <2> HIDE DEF U
  <2>2. CASE U(n, m) = {}
    BY <2>1, <2>2
  <2>3. CASE U(n, m) # {}
    <3>1. PICK c : c = CHOOSE u \in U(n, m) : TRUE
      OBVIOUS
    <3>2. c \in U(n, m)
      BY <2>3, <3>1
    <3>3. CloseUpval(m, c) \in V[n]
      BY <2>1, <3>2
    <3>4. QED
      BY <2>3, <3>1, <3>3
  <2>4. QED
    BY <2>2, <2>3
<1> HIDE DEF go
<1>4. \A n \in 0..N : V[n] \subseteq S
  OBVIOUS
<1> DEFINE G == [n \in 1..N |-> [m \in S |-> IF go(n, m) \in S THEN go(n, m) ELSE g]]
<1>5. g \in S /\ 0 \in 0..N
  BY <1>2, <1>4
<1>6. Rounds(1..N, S, G) /\ \A n \in 1..N : \A m \in S : go(n, m) \in S => G[n][m] = go(n, m)
  BY <1>5 DEF Rounds
<1> HIDE DEF S, N, G, f
<1>7. PICK u : Runs(N, S, g, G, u)
  BY <1>2, <1>5, <1>6, Iterates
<1>8. u \in [0..N -> S] /\ u[0] = g /\ \A n \in 1..N : u[n] = G[n][u[n - 1]]
  BY <1>7 DEF Runs, ByRounds
<1>9. \A n \in 1..N : n - 1 \in 0..N /\ n \in 0..N /\ n # 0
  BY <1>2
<1>10. ASSUME NEW n \in 1..N, u[n - 1] \in V[n - 1]
       PROVE  u[n] \in V[n] /\ u[n] = go(n, u[n - 1])
  <2>1. go(n, u[n - 1]) \in V[n]
    BY <1>3, <1>10
  <2>2. go(n, u[n - 1]) \in S /\ u[n - 1] \in S
    BY <1>4, <1>8, <1>9, <2>1
  <2>3. u[n] = go(n, u[n - 1])
    BY <1>6, <1>8, <2>2
  <2>4. QED
    BY <2>1, <2>3
<1> DEFINE T == {n \in 0..N : u[n] \in V[n]}
<1>11. 0..N \subseteq T
  <2>1. 0 \in T
    BY <1>5, <1>8
  <2>2. \A n \in 1..N : n - 1 \in T => n \in T
    BY <1>9, <1>10
  <2> HIDE DEF T
  <2>3. QED
    BY <1>2, <2>1, <2>2, StepsTo
<1>12. u = f(u)
  <2>1. \A n \in 0..N : n = 0 \/ n \in 1..N
    BY <1>2
  <2>2. \A n \in 1..N : u[n] = go(n, u[n - 1])
    BY <1>9, <1>10, <1>11
  <2>3. \A n \in 0..N : u[n] = IF n = 0 THEN g ELSE go(n, u[n - 1])
    BY <1>8, <1>9, <2>1, <2>2
  <2>4. QED
    BY <1>8, <2>3 DEF f
<1>13. after = f(after)
  BY <1>12, Zenon
<1> DEFINE at == after
<1>14. \A n \in 0..N : at[n] = IF n = 0 THEN g ELSE go(n, at[n - 1])
  <2> HIDE DEF after
  <2>1. QED
    BY <1>13 DEF f
<1> HIDE DEF after, at
<1> DEFINE R == {n \in 0..N : at[n] \in V[n]}
<1>15. 0 \in R
  BY <1>5, <1>14
<1>16. ASSUME NEW n \in 1..N, n - 1 \in R
       PROVE  n \in R
  <2>1. at[n] = go(n, at[n - 1])
    BY <1>9, <1>14
  <2>2. QED
    BY <1>3, <1>9, <1>16, <2>1
<1>17. N \in R
  <2> HIDE DEF R
  <2>1. 0..N \subseteq R
    BY <1>2, <1>15, <1>16, StepsTo
  <2>2. QED
    BY <1>2, <2>1
<1>18. QED
  BY <1>1, <1>17 DEF at, N

\* The slot of an open upvalue.
LEMMA AtPair ==
    ASSUME NEW g \in Heap, Shaped(g), NEW u \in Objs, g.kind[u] = "open"
    PROVE  /\ g.at[u] = <<g.at[u][1], g.at[u][2]>> /\ g.at[u][1] \in Bodies
           /\ g.at[u][2] \in 1..NSlots /\ g.at[u][2] \in Int
           /\ g.kind[g.at[u][1]] = "thread"
<1>1. g.at[u] \in Bodies \X Regs /\ g.kind[g.at[u][1]] = "thread"
  BY OpenAt DEF Shaped
<1>2. NSlots \in Nat
  BY Names
<1>3. QED
  BY <1>1, <1>2 DEF Regs

\* In a sweep the upvalues of a thread are closed from a level up.
LEMMA ClosedFrom ==
    ASSUME NEW g, NEW X, NEW th, NEW level \in 0..NSlots + 1, Structure(g, X), ~KeepInvariant(g),
           \A x \in X : x \in Objs /\ g.kind[x] # "open"
    PROVE  LET r == CloseUpvals(g, th, level)
           IN /\ ClosedSome(g, r, X)
              /\ \A u \in Objs : r.kind[u] = "open" /\ r.at[u][1] = th => r.at[u][2] < level
<1> DEFINE N == NSlots + 1 - level
           Low(m, s) == \A u \in Objs : m.kind[u] = "open" /\ m.at[u][1] = th => m.at[u][2] < s
           In(m, n) == ClosedSome(g, m, X) /\ Low(m, NSlots + 1 - n)
           V == [n \in 0..N |-> {m \in Heap : In(m, n)}]
<1>1. NSlots \in Nat /\ N \in Nat
  BY Names
<1>2. g \in Heap /\ Shaped(g)
  BY DEF Structure
<1>3. ClosedSome(g, g, X)
  BY DEF ClosedSome, SweptFrom, Stays, SameGray, SameLists, Extends
<1>4. Low(g, NSlots + 1 - 0)
  BY <1>1, <1>2, AtPair
<1>5. ASSUME NEW n \in 1..N, NEW m, In(m, n - 1)
      PROVE  /\ m \in Heap
             /\ UpvalsAt(m, th, NSlots + 1 - n) = {} => In(m, n)
             /\ \A u \in UpvalsAt(m, th, NSlots + 1 - n) :
                  CloseUpval(m, u) \in Heap /\ In(CloseUpval(m, u), n)
  <2>1. PICK s : s = NSlots + 1 - n
    OBVIOUS
  <2>2. s \in Int /\ NSlots + 1 - (n - 1) = s + 1 /\ \A i \in Int : i < s + 1 => i = s \/ i < s
    BY <1>1, <2>1
  <2>3. ClosedSome(g, m, X) /\ Low(m, s + 1)
    BY <1>5, <2>2
  <2>4. m \in Heap /\ Shaped(m) /\ Structure(m, X) /\ ~KeepInvariant(m)
    BY <2>3 DEF ClosedSome, Structure, SweptFrom, Stays, KeepInvariant
  <2>5. CASE UpvalsAt(m, th, s) = {}
    <3>1. ASSUME NEW u \in Objs, m.kind[u] = "open", m.at[u][1] = th
          PROVE  m.at[u][2] < s
      <4>1. m.at[u] # <<th, s>>
        BY <2>5, <3>1 DEF UpvalsAt, Of
      <4>2. m.at[u][2] < s + 1 /\ m.at[u][2] # s /\ m.at[u][2] \in Int
        BY <2>3, <2>4, <3>1, <4>1, AtPair
      <4>3. QED
        BY <2>2, <4>2
    <3>2. QED
      BY <2>1, <2>3, <2>4, <2>5, <3>1
  <2>6. ASSUME NEW u \in UpvalsAt(m, th, s)
        PROVE  CloseUpval(m, u) \in Heap /\ In(CloseUpval(m, u), n)
    <3>1. u \in Objs /\ m.kind[u] = "open" /\ m.at[u] = <<th, s>>
      BY DEF UpvalsAt, Of
    <3>2. u \notin X
      <4>1. \A x \in X : m.kind[x] # "open"
        BY <2>3, Names DEF ClosedSome
      <4>2. QED
        BY <3>1, <4>1
    <3>3. PICK r : r = CloseUpval(m, u)
      OBVIOUS
    <3>4. ClosedSome(m, r, X) /\ r.kind[u] # "open"
      BY <2>4, <3>1, <3>2, <3>3, UpvalClosed
    <3>5. ClosedSome(g, r, X)
      BY <2>3, <3>4, ClosedOn
    <3>6. ASSUME NEW x \in Objs, r.kind[x] = "open", r.at[x][1] = th
          PROVE  r.at[x][2] < s
      <4>1. m.kind[x] = "open" /\ r.at[x] = m.at[x] /\ x # u
        BY <3>4, <3>6 DEF ClosedSome
      <4>2. m.at[x] # m.at[u]
        BY <2>4, <3>1, <4>1 DEF Shaped, Opened
      <4>3. m.at[x][2] < s + 1 /\ m.at[x][2] # s /\ m.at[x][2] \in Int
        BY <2>3, <2>4, <3>1, <3>6, <4>1, <4>2, AtPair
      <4>4. QED
        BY <2>2, <4>1, <4>3
    <3>7. r \in Heap
      BY <3>5 DEF ClosedSome, Structure
    <3>8. QED
      BY <2>1, <3>3, <3>5, <3>6, <3>7
  <2>7. QED
    BY <2>1, <2>4, <2>5, <2>6
<1> HIDE DEF In
<1>6. V \in [0..N -> SUBSET Heap]
  OBVIOUS
<1>7. \A n \in 0..N : V[n] = {m \in Heap : In(m, n)}
  OBVIOUS
<1>8. 0 \in 0..N /\ N \in 0..N /\ \A n \in 1..N : n \in 0..N /\ n - 1 \in 0..N
  BY <1>1
<1>9. g \in V[0]
  BY <1>2, <1>3, <1>4, <1>7, <1>8 DEF In
<1> HIDE DEF V
<1>10. \A n \in 1..N : \A m \in V[n - 1] :
         /\ UpvalsAt(m, th, NSlots + 1 - n) = {} => m \in V[n]
         /\ \A u \in UpvalsAt(m, th, NSlots + 1 - n) : CloseUpval(m, u) \in V[n]
  BY <1>5, <1>7, <1>8
<1>11. CloseUpvals(g, th, level) \in V[N]
  BY <1>6, <1>9, <1>10, UpvalsClosed
<1>12. In(CloseUpvals(g, th, level), N)
  BY <1>7, <1>8, <1>11
<1>13. NSlots + 1 - N = level
  BY <1>1
<1>14. QED
  BY <1>12, <1>13 DEF In

\* freeobj on an object that was taken from its list
LEMMA ObjFreed ==
    ASSUME NEW g, NEW o \in Objs, Structure(g, {o}), ~KeepInvariant(g), IsDead(g, o),
           g.kind[o] \notin {"free", "string", "open"}
    PROVE  LET r == FreeObj(g, o)
           IN /\ Structure(r, {}) /\ SweptFrom(g, r) /\ Extends(g.allgc, r.allgc) /\ r.finobj = g.finobj
              /\ \A A : Swept1(g, A) => Swept1(r, A)
              /\ r.kind[o] = "free" /\ o \notin Live(r)
<1>1. PICK X : X = {o}
  OBVIOUS
<1>2. PICK c : c = IF g.kind[o] = "thread" THEN CloseUpvals(g, o, 0) ELSE g
  OBVIOUS
<1>3. o \in Bodies /\ Structure(g, X) /\ NSlots \in Nat /\ 0 \in 0..NSlots + 1
  BY <1>1, Names
<1>4. ClosedSome(g, c, X) /\ \A u \in Objs : c.kind[u] = "open" => c.at[u][1] # o
  <2>1. CASE g.kind[o] = "thread"
    <3>1. PICK zero : zero = 0
      OBVIOUS
    <3>2. \A x \in X : x \in Objs /\ g.kind[x] # "open"
      BY <1>1
    <3>3. /\ ClosedSome(g, c, X)
          /\ \A u \in Objs : c.kind[u] = "open" /\ c.at[u][1] = o => c.at[u][2] < 0
      BY <1>2, <1>3, <2>1, <3>2, ClosedFrom
    <3>4. c \in Heap /\ Shaped(c)
      BY <3>3 DEF ClosedSome, Structure
    <3>5. \A u \in Objs : c.kind[u] = "open" => c.at[u][2] \in 1..NSlots
      BY <3>4, AtPair
    <3>6. \A i \in 1..NSlots : ~(i < 0)
      BY <1>3
    <3>7. QED
      BY <3>3, <3>5, <3>6
  <2>2. CASE g.kind[o] # "thread"
    <3>1. c = g
      BY <1>2, <2>2
    <3>2. ClosedSome(g, g, X)
      BY <1>3 DEF ClosedSome, SweptFrom, Stays, SameGray, SameLists, Extends
    <3>3. \A u \in Objs : g.kind[u] = "open" => g.kind[g.at[u][1]] = "thread"
      BY <1>3, AtPair DEF Structure
    <3>4. QED
      BY <2>2, <3>1, <3>2, <3>3
  <2>3. QED
    BY <2>1, <2>2
<1>5. PICK r : r = Erase(c, X)
  OBVIOUS
<1>6. FreeObj(g, o) = r
  BY <1>1, <1>2, <1>5, Zenon DEF FreeObj
<1>7. IsDead(c, o) /\ c.kind[o] = g.kind[o]
  BY <1>3, <1>4 DEF ClosedSome, IsDead, SweptFrom, Stays
<1>8. /\ Structure(r, X \ X) /\ Erases(c, r, X) /\ SweptFrom(c, r)
      /\ \A A : Swept1(c, A) => Swept1(r, A)
  <2>1. X \subseteq Objs /\ (\A x \in X : IsDead(c, x)) /\ (\A x \in X : c.kind[x] # "string")
    BY <1>1, <1>7
  <2>2. \A u \in Objs : c.kind[u] = "open" /\ u \notin X => c.at[u][1] \notin X
    BY <1>1, <1>4
  <2>3. Structure(c, X)
    BY <1>4 DEF ClosedSome
  <2>4. QED
    BY <1>5, <2>1, <2>2, <2>3, Erased
<1>9. X \ X = {}
  OBVIOUS
<1>10. SweptFrom(g, r) /\ Extends(g.allgc, r.allgc) /\ r.finobj = g.finobj
  BY <1>4, <1>8, SweptFromOn DEF ClosedSome, Erases
<1>11. \A A : Swept1(g, A) => Swept1(r, A)
  BY <1>4, <1>8 DEF ClosedSome
<1>12. r.kind[o] = "free" /\ o \notin Live(r)
  BY <1>1, <1>3, <1>8 DEF Erases, Live
<1>13. QED
  BY <1>6, <1>8, <1>9, <1>10, <1>11, <1>12

\* The open upvalues of a thread are swept with it.
LEMMA ThreadSwept ==
    ASSUME NEW g, NEW X, NEW th, Structure(g, X)
    PROVE  LET r == SweepThread(g, th)
           IN /\ Structure(r, X) /\ SweptFrom(g, r) /\ r.allgc = g.allgc /\ r.finobj = g.finobj
              /\ \A A : Swept1(g, A) => Swept1(r, A)
              /\ \A u \in Objs : r.kind[u] = "open" /\ r.at[u][1] = th => r.col[u] = r.white
              /\ \A x \in Bodies : g.kind[x] # "open" => r.kind[x] = g.kind[x]
              /\ \A x \in Bodies : g.kind[x] # "open" => r.col[x] = g.col[x]
<1>1. PICK U, dead : U = OpenUpvals(g, th, 0) /\ dead = {u \in U : IsDead(g, u)}
  OBVIOUS
<1>2. PICK n : n = Erase(g, dead)
  OBVIOUS
<1>3. PICK W, c : W = U \ dead /\ c = [o \in Bodies |-> IF o \in U \ dead THEN g.white ELSE n.col[o]]
  OBVIOUS
<1>4. PICK r : r = [n EXCEPT !.col = c]
  OBVIOUS
<1>5. SweepThread(g, th) = r
  BY <1>1, <1>2, <1>3, <1>4, Zenon DEF SweepThread
<1>6. g \in Heap /\ Shaped(g)
  BY DEF Structure
<1>7. U \subseteq Objs /\ \A u \in U : g.kind[u] = "open"
  BY <1>1 DEF OpenUpvals, Of
<1>8. dead \subseteq Objs /\ \A u \in dead : IsDead(g, u) /\ g.kind[u] = "open" /\ u \in U
  BY <1>1, <1>7
<1>9. \A u \in Objs : g.kind[u] = "open" /\ u \notin dead => g.at[u][1] \notin dead
  BY <1>6, <1>8, AtPair
<1>10. /\ Structure(n, X \ dead) /\ Erases(g, n, dead) /\ SweptFrom(g, n)
       /\ \A A : Swept1(g, A) => Swept1(n, A)
  <2>1. \A u \in dead : g.kind[u] # "string" /\ IsDead(g, u) /\ g.kind[u] \in {"open", "string"}
    BY <1>8
  <2>2. QED
    BY <1>2, <1>8, <1>9, <2>1, Erased
<1>11. Structure(n, X)
  <2>1. n \in Heap /\ Shaped(n) /\ Solid(n) /\ ListedBut(n, X \ dead)
    BY <1>10 DEF Structure
  <2>2. \A o \in dead : n.kind[o] = "free"
    BY <1>8, <1>10, Names DEF Erases
  <2>3. ListedBut(n, X)
    <3>1. \A o \in Objs : (n.kind[o] \notin {"free", "string", "open"} /\ o \notin X) <=>
                          (n.kind[o] \notin {"free", "string", "open"} /\ o \notin X \ dead)
      BY <2>2
    <3>2. QED
      BY <2>1, <3>1 DEF ListedBut
  <2>4. QED
    BY <2>1, <2>3 DEF Structure
<1>12. \A o \in Objs : o \in W => n.kind[o] = "open" /\ ~IsDead(g, o)
  BY <1>1, <1>3, <1>7, <1>10, Names DEF Erases
<1>13. W \subseteq Sound(n)
  <2>1. \A o \in W : o \in Sound(g)
    BY <1>3, <1>7, <1>12, Names DEF Sound, Live, IsDead
  <2>2. QED
    BY <1>10, <2>1 DEF SweptFrom, Stays
<1>14. n \in Heap /\ n.white = g.white /\ g.white \in Colors
  BY <1>6, <1>10, HeapTypes DEF Erases, Stays, Colors
<1>15. c \in [Bodies -> Colors] /\ \A o \in Bodies : c[o] = IF o \in W THEN n.white ELSE n.col[o]
  BY <1>3, <1>14, HeapTypes
<1>16. /\ r \in Heap /\ r.cast = n.cast /\ r.kind = n.kind /\ r.val = n.val /\ r.at = n.at
       /\ r.white = n.white /\ r.allgc = n.allgc /\ r.finobj = n.finobj /\ r.tobefnz = n.tobefnz
       /\ r.state = n.state /\ r.full = n.full /\ r.looped = n.looped /\ SameGray(n, r)
       /\ r.sweepfin = n.sweepfin /\ r.sweepgc = n.sweepgc /\ r.strings = n.strings /\ r.col = c
  BY <1>4, <1>14, <1>15 DEF Heap, SameGray, SameLists
<1>17. /\ Structure(r, X) /\ Sound(r) = Sound(n) /\ Live(r) = Live(n)
       /\ \A A : Swept1(n, A) => Swept1(r, A)
  <2>1. /\ \A o \in Bodies : r.col[o] = IF o \in W THEN n.white ELSE n.col[o]
        /\ r \in Heap /\ r.cast = n.cast /\ r.kind = n.kind /\ r.val = n.val /\ r.at = n.at
        /\ r.white = n.white /\ r.allgc = n.allgc /\ r.finobj = n.finobj /\ r.tobefnz = n.tobefnz
    BY <1>15, <1>16
  <2>2. QED
    BY <1>11, <1>13, <2>1, WhitenStructure
<1>18. SweptFrom(n, r)
  BY <1>16, <1>17 DEF SweptFrom, Stays
<1>19. SweptFrom(g, r)
  BY <1>10, <1>18, SweptFromOn
<1>20. ASSUME NEW u \in Objs, r.kind[u] = "open", r.at[u][1] = th
       PROVE  r.col[u] = r.white
  <2>1. u \notin dead /\ g.kind[u] = "open" /\ g.at[u][1] = th
    BY <1>10, <1>16, <1>20, Names DEF Erases
  <2>2. g.at[u][2] \in 1..NSlots /\ NSlots \in Nat
    BY <1>6, <2>1, AtPair, Names
  <2>3. g.at[u][2] >= 0
    BY <2>2
  <2>4. u \in W
    BY <1>1, <1>3, <2>1, <2>3 DEF OpenUpvals, Of
  <2>5. QED
    BY <1>15, <1>16, <2>4, Names
<1>21. /\ \A x \in Bodies : g.kind[x] # "open" => r.kind[x] = g.kind[x]
       /\ \A x \in Bodies : g.kind[x] # "open" => r.col[x] = g.col[x]
  <2>1. \A x \in Bodies : g.kind[x] # "open" => x \notin dead /\ x \notin W
    BY <1>3, <1>7, <1>8
  <2>2. QED
    BY <1>10, <1>15, <1>16, <2>1 DEF Erases
<1>22. r.allgc = g.allgc /\ r.finobj = g.finobj /\ \A A : Swept1(g, A) => Swept1(r, A)
  BY <1>10, <1>16, <1>17 DEF Erases
<1>23. QED
  BY <1>5, <1>17, <1>19, <1>20, <1>21, <1>22

\* m is g with objects on other lists.
Relinks(g, m) ==
  /\ m \in Heap /\ m.cast = g.cast /\ m.kind = g.kind /\ m.val = g.val /\ m.at = g.at
  /\ m.col = g.col /\ m.white = g.white

\* Objects may be moved between lists.
LEMMA Relinked ==
    ASSUME NEW g, NEW m, NEW X, NEW Y, Structure(g, Y), Relinks(g, m), ListedBut(m, X),
           Roots(m) \subseteq Sound(g)
    PROVE  /\ Structure(m, X) /\ Live(m) = Live(g) /\ Sound(m) = Sound(g)
           /\ \A A : Swept1(g, A) => Swept1(m, A)
<1>1. /\ g \in Heap /\ Shaped(g) /\ Solid(g) /\ m \in Heap /\ m.cast = g.cast /\ m.kind = g.kind
      /\ m.val = g.val /\ m.at = g.at /\ m.col = g.col /\ m.white = g.white
  BY DEF Structure, Relinks
<1>2. Live(m) = Live(g) /\ Sound(m) = Sound(g)
  BY <1>1 DEF Live, Sound
<1>3. Shaped(m)
  <2>1. \A o : Room(m, o) = Room(g, o)
    BY <1>1 DEF Room
  <2>2. QED
    BY <1>1, <2>1 DEF Shaped, Cast, Roomy, Opened, Colored
<1>4. Solid(m)
  <2>1. \A o, S : RefsIn(m, o, S) <=> RefsIn(g, o, S)
    BY <1>1 DEF RefsIn, ValuesIn, KeysIn, UpIn, UpValue
  <2>2. QED
    BY <1>1, <1>2, <2>1 DEF Solid, Closing
<1>5. \A A : Swept1(g, A) => Swept1(m, A)
  BY <1>1 DEF Swept1
<1>6. QED
  BY <1>1, <1>2, <1>3, <1>4, <1>5 DEF Structure

\* A sweep step takes heap g, standing at p in list l, to heap m, standing at q.
SweptOn(g, m, l, p, q) ==
  /\ Structure(m, {}) /\ SweptFrom(g, m)
  /\ l = "allgc" => m.finobj = g.finobj
  /\ l = "finobj" => Extends(g.allgc, m.allgc)
  /\ \A R : Swept1(g, Behind(List(g, l), p) \cup R) => Swept1(m, Behind(List(m, l), q) \cup R)
  /\ q = Nil \/ (Stands(List(m, l), q) /\ (q = "header" => p = "header"))
  /\ q # p \/ Live(m) # Live(g)

\* The two lists that are swept.
LEMMA ListFacts ==
    ASSUME NEW g, NEW X, NEW l \in {"allgc", "finobj"}, Structure(g, X)
    PROVE  /\ List(g, l) \in Seq(Objs) /\ Distinct(List(g, l))
           /\ \A o \in Range(List(g, l)) :
                o \in Objs /\ o \in Bodies /\ g.kind[o] \notin {"free", "string", "open"} /\ o \notin X
           /\ l = "finobj" => Range(List(g, l)) \subseteq Sound(g)
<1>1. g \in Heap /\ ListedBut(g, X) /\ Solid(g) /\ g.allgc \in Seq(Objs) /\ g.finobj \in Seq(Objs)
  BY HeapTypes DEF Structure
<1>2. List(g, l) \in {g.allgc, g.finobj} /\ (l = "finobj" => List(g, l) = g.finobj)
  BY DEF List
<1>3. List(g, l) \in Seq(Objs) /\ Range(List(g, l)) \subseteq Objs
  <2>1. Range(g.allgc) \subseteq Objs
    BY <1>1, RangeIs
  <2>2. Range(g.finobj) \subseteq Objs
    BY <1>1, RangeIs
  <2>3. QED
    BY <1>1, <1>2, <2>1, <2>2
<1>4. \A o \in Range(List(g, l)) : g.kind[o] \notin {"free", "string", "open"} /\ o \notin X
  BY <1>1, <1>2, <1>3 DEF ListedBut
<1>5. QED
  BY <1>1, <1>2, <1>3, <1>4, Names DEF ListedBut, Solid, Roots

\* An object is taken from allgc.
Unlinks(g, n, o) == n = [g EXCEPT !.allgc = Without(g.allgc, {o})]

\* An object taken from allgc is the only one on no list.
LEMMA Unlinked ==
    ASSUME NEW g, Structure(g, {}), NEW o \in Range(g.allgc), NEW n,
           Unlinks(g, n, o)
    PROVE  /\ Structure(n, {o}) /\ SweptFrom(g, n) /\ Relinks(g, n) /\ n.finobj = g.finobj
           /\ Lacks(n.allgc, g.allgc, o) /\ Live(n) = Live(g) /\ n.kind = g.kind
           /\ n.finalized = g.finalized
           /\ \A A : Swept1(g, A) => Swept1(n, A)
<1>1. PICK w, X : X = {o} /\ w = Without(g.allgc, X)
  OBVIOUS
<1>2. g \in Heap /\ g.allgc \in Seq(Objs) /\ ListedBut(g, {}) /\ Solid(g)
  BY HeapTypes DEF Structure
<1>3. w \in Seq(Objs) /\ Range(w) = Range(g.allgc) \ X /\ (Distinct(g.allgc) => Distinct(w))
  BY <1>1, <1>2, WithoutFacts
<1>4. n = [g EXCEPT !.allgc = w]
  BY <1>1 DEF Unlinks
<1>5. /\ n \in Heap /\ Relinks(g, n) /\ n.allgc = w /\ n.finobj = g.finobj /\ n.tobefnz = g.tobefnz
      /\ n.state = g.state /\ n.full = g.full /\ n.looped = g.looped /\ SameGray(g, n)
      /\ n.sweepfin = g.sweepfin /\ n.sweepgc = g.sweepgc /\ n.strings = g.strings
      /\ n.finalized = g.finalized
  BY <1>2, <1>3, <1>4 DEF Heap, SameGray, SameLists, Relinks
<1>6. ListedBut(n, X)
  <2>1. n.kind = g.kind /\ n.cast = g.cast /\ o \notin Range(g.finobj) \cup Range(g.tobefnz)
    BY <1>2, <1>5 DEF Relinks, ListedBut, Apart
  <2>2. Range(w) \subseteq Range(g.allgc) /\ Distinct(w)
    BY <1>2, <1>3 DEF ListedBut
  <2>3. \A x \in Objs : n.kind[x] \notin {"free", "string", "open"} /\ x \notin X <=>
                        x \in Range(w) \cup Range(g.finobj) \cup Range(g.tobefnz)
    BY <1>1, <1>2, <1>3, <2>1 DEF ListedBut
  <2>4. QED
    BY <1>2, <1>5, <2>1, <2>2, <2>3 DEF ListedBut, Apart
<1>7. Roots(n) \subseteq Sound(g)
  BY <1>2, <1>5 DEF Solid, Roots
<1>8. /\ Structure(n, X) /\ Live(n) = Live(g) /\ Sound(n) = Sound(g)
      /\ \A A : Swept1(g, A) => Swept1(n, A)
  <2>1. ASSUME NEW q, q = n
        PROVE  /\ Structure(q, X) /\ Live(q) = Live(g) /\ Sound(q) = Sound(g)
               /\ \A A : Swept1(g, A) => Swept1(q, A)
    <3>1. Relinks(g, q) /\ ListedBut(q, X) /\ Roots(q) \subseteq Sound(g)
      BY <1>5, <1>6, <1>7, <2>1
    <3>2. QED
      BY <3>1, Relinked
  <2>2. QED
    BY <2>1
<1>9. SweptFrom(g, n)
  BY <1>5, <1>8 DEF SweptFrom, Stays, Relinks
<1>10. QED
  BY <1>1, <1>5, <1>8, <1>9 DEF Relinks, Lacks

Frees(n, o, m) == m = FreeObj(n, o)

\* sweeplist frees the next object of allgc.
LEMMA DeadSwept ==
    ASSUME NEW g, Structure(g, {}), ~KeepInvariant(g), NEW p, Stands(g.allgc, p), ~AtEnd(g.allgc, p),
           NEW o, o = g.allgc[Place(g.allgc, p) + 1], IsDead(g, o), NEW n,
           Unlinks(g, n, o), NEW m, Frees(n, o, m)
    PROVE  SweptOn(g, m, "allgc", p, p)
<1>2. /\ g.allgc \in Seq(Objs) /\ Distinct(g.allgc)
      /\ \A x \in Range(g.allgc) : x \in Objs /\ x \in Bodies /\ g.kind[x] \notin {"free", "string", "open"}
  <2>1. g.allgc = List(g, "allgc")
    BY DEF List
  <2>2. QED
    BY <2>1, ListFacts
<1>3. /\ o \in Range(g.allgc) /\ o \in Objs /\ o # p /\ Behind(g.allgc, p) = {o} \cup Behind(g.allgc, o)
      /\ g.kind[o] \notin {"free", "string", "open"} /\ o \in Bodies
  BY <1>2, NextOf
<1>4. /\ Structure(n, {o}) /\ SweptFrom(g, n) /\ Relinks(g, n) /\ n.finobj = g.finobj
      /\ Lacks(n.allgc, g.allgc, o) /\ Live(n) = Live(g) /\ n.kind = g.kind
      /\ \A A : Swept1(g, A) => Swept1(n, A)
  BY <1>3, Unlinked
<1>5. ~KeepInvariant(n) /\ IsDead(n, o)
  BY <1>4 DEF KeepInvariant, SweptFrom, Stays, IsDead, Relinks
<1>7. /\ Structure(m, {}) /\ SweptFrom(n, m) /\ Extends(n.allgc, m.allgc) /\ m.finobj = n.finobj
      /\ \A A : Swept1(n, A) => Swept1(m, A)
      /\ m.kind[o] = "free" /\ o \notin Live(m)
  <2>1. ASSUME NEW r, Frees(n, o, r)
        PROVE  /\ Structure(r, {}) /\ SweptFrom(n, r) /\ Extends(n.allgc, r.allgc) /\ r.finobj = n.finobj
               /\ \A A : Swept1(n, A) => Swept1(r, A)
               /\ r.kind[o] = "free" /\ o \notin Live(r)
    BY <1>3, <1>4, <1>5, <2>1, ObjFreed DEF Frees
  <2>2. QED
    BY <2>1
<1>8. SweptFrom(g, m)
  BY <1>4, <1>7, SweptFromOn
<1>9. Behind(n.allgc, p) = Behind(g.allgc, p) \ {o} /\ Stands(n.allgc, p)
  <2>1. PICK s, w : s = g.allgc /\ w = n.allgc
    OBVIOUS
  <2>2. s \in Seq(Objs) /\ Lacks(w, s, o) /\ p # o /\ Stands(s, p)
    BY <1>2, <1>3, <1>4, <2>1
  <2>3. ASSUME NEW x, Lacks(w, s, x), p # x
        PROVE  Behind(w, p) = Behind(s, p) \ {x} /\ Stands(w, p)
    BY <2>2, <2>3, BehindWithout
  <2>4. QED
    BY <2>1, <2>2, <2>3
<1>10. Behind(n.allgc, p) \subseteq Behind(m.allgc, p) /\ Stands(m.allgc, p)
  BY <1>7, <1>9, BehindExtends
<1>11. ASSUME NEW R, Swept1(g, Behind(g.allgc, p) \cup R)
       PROVE  Swept1(m, Behind(m.allgc, p) \cup R)
  <2>1. Swept1(m, Behind(g.allgc, p) \cup R)
    BY <1>4, <1>7, <1>11
  <2>2. \A x : x \in Behind(g.allgc, p) => x = o \/ x \in Behind(m.allgc, p)
    BY <1>9, <1>10
  <2>3. m \in Heap /\ Shaped(m)
    BY <1>7 DEF Structure
  <2>4. \A u \in Objs : m.kind[u] = "open" => m.at[u][1] # o
    BY <1>7, <2>3, AtPair
  <2>5. QED
    BY <1>7, <2>1, <2>2, <2>4 DEF Swept1
<1>12. Live(m) # Live(g)
  BY <1>3, <1>7 DEF Live
<1>13. List(g, "allgc") = g.allgc /\ List(m, "allgc") = m.allgc
  BY DEF List
<1>14. m.finobj = g.finobj
  BY <1>4, <1>7
<1>15. QED
  BY <1>7, <1>8, <1>10, <1>11, <1>12, <1>13, <1>14 DEF SweptOn

\* sweeplist leaves the next object, made white.
LEMMA LiveSwept ==
    ASSUME NEW g, Structure(g, {}), NEW l \in {"allgc", "finobj"}, NEW p,
           Stands(List(g, l), p), ~AtEnd(List(g, l), p),
           NEW o, o = List(g, l)[Place(List(g, l), p) + 1], ~IsDead(g, o), NEW m,
           m = MakeWhite(IF g.kind[o] = "thread" THEN SweepThread(g, o) ELSE g, o)
    PROVE  SweptOn(g, m, l, p, o)
<1>1. PICK n : n = IF g.kind[o] = "thread" THEN SweepThread(g, o) ELSE g
  OBVIOUS
<1>2. /\ List(g, l) \in Seq(Objs) /\ Distinct(List(g, l))
      /\ \A x \in Range(List(g, l)) :
           x \in Objs /\ x \in Bodies /\ g.kind[x] \notin {"free", "string", "open"}
  BY ListFacts
<1>3. /\ o \in Range(List(g, l)) /\ o \in Objs /\ o # p
      /\ Behind(List(g, l), p) = {o} \cup Behind(List(g, l), o)
      /\ g.kind[o] \notin {"free", "string", "open"} /\ o \in Bodies
  BY <1>2, NextOf
<1>4. /\ Structure(n, {}) /\ SweptFrom(g, n) /\ n.allgc = g.allgc /\ n.finobj = g.finobj
      /\ \A A : Swept1(g, A) => Swept1(n, A)
      /\ g.kind[o] = "thread" =>
           \A u \in Objs : n.kind[u] = "open" /\ n.at[u][1] = o => n.col[u] = n.white
      /\ n.kind[o] = g.kind[o]
  <2>1. CASE g.kind[o] = "thread"
    <3>1. n = SweepThread(g, o)
      BY <1>1, <2>1
    <3>2. QED
      BY <1>3, <3>1, ThreadSwept
  <2>2. CASE g.kind[o] # "thread"
    <3>1. n = g
      BY <1>1, <2>2
    <3>2. SweptFrom(g, g)
      BY DEF SweptFrom, Stays, SameGray, SameLists
    <3>3. QED
      BY <2>2, <3>1, <3>2
  <2>3. QED
    BY <2>1, <2>2
<1>5. o \in Sound(n)
  BY <1>3, <1>4 DEF Sound, Live, IsDead, SweptFrom, Stays
<1>6. m = MakeWhite(n, o)
  BY <1>1
<1>7. /\ Structure(m, {}) /\ Whitens(n, m, {o}) /\ \A A : Swept1(n, A) => Swept1(m, A)
  BY <1>4, <1>5, <1>6, WhiteMade
<1>8. SweptFrom(g, m) /\ m.allgc = g.allgc /\ m.finobj = g.finobj /\ List(m, l) = List(g, l)
  BY <1>4, <1>7, SweptFromOn DEF Whitens, List
<1>9. ASSUME NEW R, Swept1(g, Behind(List(g, l), p) \cup R)
      PROVE  Swept1(m, Behind(List(m, l), o) \cup R)
  <2>1. Swept1(m, Behind(List(g, l), p) \cup R)
    BY <1>4, <1>7, <1>9
  <2>2. \A x : x \in Behind(List(g, l), p) => x = o \/ x \in Behind(List(m, l), o)
    BY <1>3, <1>8
  <2>3. m.col[o] = m.white
    BY <1>3, <1>7 DEF Whitens
  <2>4. ASSUME NEW u \in Objs, m.kind[u] = "open", m.at[u][1] = o
        PROVE  m.col[u] = m.white
    <3>1. m.kind[o] = "thread"
      BY <1>7, <2>4, AtPair DEF Structure
    <3>2. g.kind[o] = "thread"
      BY <1>4, <1>7, <3>1 DEF Whitens
    <3>3. n.col[u] = n.white
      BY <1>4, <1>7, <2>4, <3>2 DEF Whitens
    <3>4. QED
      BY <1>7, <3>3, Names DEF Whitens
  <2>5. QED
    BY <2>1, <2>2, <2>3, <2>4 DEF Swept1
<1>10. Stands(List(m, l), o) /\ o # "header"
  BY <1>3, <1>8, GCAssumption DEF Stands
<1>11. Extends(g.allgc, m.allgc)
  BY <1>8 DEF Extends
<1>12. QED
  BY <1>3, <1>7, <1>8, <1>9, <1>10, <1>11 DEF SweptOn

\* sweeplist on the next object
LEMMA NextSwept ==
    ASSUME NEW g, Structure(g, {}), ~KeepInvariant(g), NEW l \in {"allgc", "finobj"}, NEW p,
           Stands(List(g, l), p), ~AtEnd(List(g, l), p)
    PROVE  SweptOn(g, SweepNext(g, l, p).g, l, p, SweepNext(g, l, p).p)
<1>1. PICK o : o = List(g, l)[Place(List(g, l), p) + 1]
  OBVIOUS
<1>2. CASE IsDead(g, o)
  <2>1. List(g, l) \in Seq(Objs) /\ Distinct(List(g, l))
        /\ (l = "finobj" => Range(List(g, l)) \subseteq Sound(g))
    BY ListFacts
  <2>2. o \in Range(List(g, l))
    BY <1>1, <2>1, NextOf
  <2>3. l = "allgc"
    BY <1>2, <2>1, <2>2 DEF Sound, IsDead
  <2>4. List(g, l) = g.allgc
    BY <2>3 DEF List
  <2>5. PICK n, m : Unlinks(g, n, o) /\ Frees(n, o, m)
    BY DEF Unlinks, Frees
  <2>6. SweepNext(g, l, p) = [g |-> m, p |-> p]
    BY <1>1, <1>2, <2>3, <2>4, <2>5 DEF SweepNext, Relist, Unlinks, Frees
  <2>7. SweptOn(g, m, "allgc", p, p)
    BY <1>1, <1>2, <2>4, <2>5, DeadSwept
  <2>8. QED
    BY <2>3, <2>6, <2>7
<1>3. CASE ~IsDead(g, o)
  <2>1. PICK m : m = MakeWhite(IF g.kind[o] = "thread" THEN SweepThread(g, o) ELSE g, o)
    OBVIOUS
  <2>2. SweepNext(g, l, p) = [g |-> m, p |-> o]
    BY <1>1, <1>3, <2>1, Zenon DEF SweepNext
  <2>3. SweptOn(g, m, l, p, o)
    BY <1>1, <1>3, <2>1, LiveSwept
  <2>4. QED
    BY <2>2, <2>3
<1>4. QED
  BY <1>2, <1>3

\* Nil is no place in a list.
LEMMA NilNotHere ==
    ASSUME NEW s \in Seq(Objs), NEW p, Stands(s, p)
    PROVE  p # Nil /\ Behind(s, Nil) = {} /\ (p = "header" \/ p \in Objs)
<1>1. /\ Range(s) \subseteq Objs /\ \A a, b : Before(s, a, b) => a \in Range(s)
  BY RangeIs
<1>2. Nil # "header" /\ Nil \notin Objs
  BY GCAssumption, Names
<1>3. QED
  BY <1>1, <1>2 DEF Stands, Behind

\* sweeplist
LEMMA ListSwept ==
    ASSUME NEW g, Structure(g, {}), ~KeepInvariant(g), NEW l \in {"allgc", "finobj"}, NEW p,
           Stands(List(g, l), p)
    PROVE  \E m, q : /\ SweepList(g, l, p) = [g |-> m, p |-> q] /\ SweptOn(g, m, l, p, q)
                     /\ q \in Objs \cup {Nil, "header"}
<1>1. List(g, l) \in Seq(Objs) /\ Distinct(List(g, l)) /\ p # Nil
  BY ListFacts, NilNotHere
<1>2. CASE AtEnd(List(g, l), p)
  <2>1. SweepList(g, l, p) = [g |-> g, p |-> Nil]
    BY <1>2 DEF SweepList, NilAtEnd
  <2>2. SweptFrom(g, g) /\ Extends(g.allgc, g.allgc)
    BY DEF SweptFrom, Stays, SameGray, SameLists, Extends
  <2>3. Behind(List(g, l), p) = {} /\ Behind(List(g, l), Nil) = {}
    BY <1>1, <1>2, NothingBehind, NilNotHere
  <2>4. SweptOn(g, g, l, p, Nil)
    BY <1>1, <2>2, <2>3 DEF SweptOn
  <2>5. QED
    BY <2>1, <2>4, Zenon
<1>3. CASE ~AtEnd(List(g, l), p)
  <2>1. PICK m, q : m = SweepNext(g, l, p).g /\ q = SweepNext(g, l, p).p
    OBVIOUS
  <2>2. SweepNext(g, l, p) = [g |-> m, p |-> q]
    BY <2>1 DEF SweepNext
  <2>3. SweptOn(g, m, l, p, q)
    BY <1>3, <2>1, NextSwept
  <2>4. CASE q # Nil /\ AtEnd(List(m, l), q)
    <3>1. SweepList(g, l, p) = [g |-> m, p |-> Nil]
      BY <1>3, <2>2, <2>4 DEF SweepList, NilAtEnd
    <3>2. List(m, l) \in Seq(Objs) /\ Distinct(List(m, l)) /\ Stands(List(m, l), q)
      BY <2>3, <2>4, ListFacts DEF SweptOn
    <3>3. Behind(List(m, l), q) = {} /\ Behind(List(m, l), Nil) = {}
      BY <2>4, <3>2, NothingBehind, NilNotHere
    <3>4. SweptOn(g, m, l, p, Nil)
      BY <1>1, <2>3, <3>3 DEF SweptOn
    <3>5. QED
      BY <3>1, <3>4, Zenon
  <2>5. CASE q = Nil \/ ~AtEnd(List(m, l), q)
    <3>1. SweepList(g, l, p) = [g |-> m, p |-> q]
      BY <1>3, <2>2, <2>5 DEF SweepList, NilAtEnd
    <3>2. List(m, l) \in Seq(Objs)
      BY <2>3, ListFacts DEF SweptOn
    <3>3. q \in Objs \cup {Nil, "header"}
      BY <2>3, <3>2, NilNotHere DEF SweptOn
    <3>4. QED
      BY <2>3, <3>1, <3>3, Zenon
  <2>6. QED
    BY <2>4, <2>5
<1>4. QED
  BY <1>2, <1>3

\* A sweep that goes on from where it stopped.
LEMMA SweptOnOn ==
    ASSUME NEW g, NEW m, NEW n, NEW l, NEW p, NEW q, SweptOn(g, m, l, p, p), SweptOn(m, n, l, p, q)
    PROVE  SweptOn(g, n, l, p, q)
<1>1. SweptFrom(g, n)
  BY SweptFromOn DEF SweptOn
<1>2. l = "finobj" => Extends(g.allgc, n.allgc)
  BY ExtendsOn DEF SweptOn
<1>3. Live(n) # Live(g)
  BY DEF SweptOn, SweptFrom, Stays
<1>4. QED
  BY <1>1, <1>2, <1>3 DEF SweptOn

\* After n + 1 rounds of sweeptolive the pointer has moved or as many objects are freed.
Places == Objs \cup {Nil, "header"}
Near(x, n, g, l, p) ==
  \E m, q : /\ x = [g |-> m, p |-> q] /\ SweptOn(g, m, l, p, q) /\ q \in Places
            /\ q = p => Cardinality(Live(m)) <= Cardinality(Bodies) - 1 - n
\* The next round.
Onward(x, l, p) == IF x.p = p THEN SweepList(x.g, l, p) ELSE x

\* A sweep step that frees an object leaves fewer.
LEMMA LiveCounts ==
    ASSUME NEW g, NEW m, SweptFrom(g, m), Live(m) # Live(g)
    PROVE  /\ Cardinality(Live(m)) \in Nat /\ Cardinality(Live(g)) \in Nat
           /\ Cardinality(Live(m)) <= Cardinality(Live(g)) - 1
           /\ Cardinality(Live(g)) <= Cardinality(Bodies)
<1>1. Live(g) \subseteq Bodies /\ Live(m) \subseteq Live(g)
  BY DEF Live, SweptFrom, Stays
<1>2. PICK o \in Live(g) : o \notin Live(m)
  BY <1>1
<1>3. QED
  BY <1>1, <1>2, Finite, Fewer

\* The first round of sweeptolive.
LEMMA NearFirst ==
    ASSUME NEW g, Structure(g, {}), ~KeepInvariant(g), NEW l \in {"allgc", "finobj"}, NEW p,
           Stands(List(g, l), p)
    PROVE  Near(SweepList(g, l, p), 0, g, l, p)
<1>1. PICK m, q : SweepList(g, l, p) = [g |-> m, p |-> q] /\ SweptOn(g, m, l, p, q) /\ q \in Places
  BY ListSwept DEF Places
<1>2. Cardinality(Bodies) \in Nat
  BY Finite
<1>3. q = p => Cardinality(Live(m)) <= Cardinality(Bodies) - 1 - 0
  <2>1. SUFFICES ASSUME q = p
                 PROVE  Cardinality(Live(m)) <= Cardinality(Bodies) - 1 - 0
    OBVIOUS
  <2>2. SweptFrom(g, m) /\ Live(m) # Live(g)
    BY <1>1, <2>1 DEF SweptOn
  <2>3. QED
    BY <1>2, <2>2, LiveCounts
<1>4. QED
  BY <1>1, <1>3, Zenon DEF Near

\* Each round moves the pointer or frees an object.
LEMMA NearNext ==
    ASSUME NEW g, Structure(g, {}), ~KeepInvariant(g), NEW l \in {"allgc", "finobj"}, NEW p,
           Stands(List(g, l), p), NEW n \in Nat \ {0}, NEW x, Near(x, n - 1, g, l, p)
    PROVE  Near(Onward(x, l, p), n, g, l, p)
<1>1. PICK m, q : /\ x = [g |-> m, p |-> q] /\ SweptOn(g, m, l, p, q) /\ q \in Places
                  /\ q = p => Cardinality(Live(m)) <= Cardinality(Bodies) - 1 - (n - 1)
  BY Zenon DEF Near
<1>2. x.g = m /\ x.p = q
  BY <1>1
<1>3. CASE q # p
  <2>1. Onward(x, l, p) = x
    BY <1>2, <1>3 DEF Onward
  <2>2. QED
    BY <1>1, <1>3, <2>1, Zenon DEF Near
<1>4. CASE q = p
  <2>1. List(g, l) \in Seq(Objs) /\ p # Nil
    BY ListFacts, NilNotHere
  <2>2. Structure(m, {}) /\ ~KeepInvariant(m) /\ Stands(List(m, l), p) /\ SweptOn(g, m, l, p, p)
    BY <1>1, <1>4, <2>1 DEF SweptOn, SweptFrom, Stays, KeepInvariant
  <2>3. PICK r, s : SweepList(m, l, p) = [g |-> r, p |-> s] /\ SweptOn(m, r, l, p, s) /\ s \in Places
    BY <2>2, ListSwept DEF Places
  <2>4. Onward(x, l, p) = [g |-> r, p |-> s]
    BY <1>2, <1>4, <2>3 DEF Onward
  <2>5. SweptOn(g, r, l, p, s)
    BY <2>2, <2>3, SweptOnOn
  <2>6. s = p => Cardinality(Live(r)) <= Cardinality(Bodies) - 1 - n
    <3>1. SUFFICES ASSUME s = p
                   PROVE  Cardinality(Live(r)) <= Cardinality(Bodies) - 1 - n
      OBVIOUS
    <3>2. SweptFrom(m, r) /\ Live(r) # Live(m)
      BY <2>3, <3>1 DEF SweptOn
    <3>3. /\ Cardinality(Live(r)) \in Nat /\ Cardinality(Live(m)) \in Nat
          /\ Cardinality(Live(r)) <= Cardinality(Live(m)) - 1 /\ Cardinality(Bodies) \in Nat
      BY <3>2, LiveCounts, Finite
    <3>4. Cardinality(Live(m)) <= Cardinality(Bodies) - 1 - (n - 1)
      BY <1>1, <1>4
    <3>5. QED
      BY <3>3, <3>4
  <2>7. QED
    BY <2>3, <2>4, <2>5, <2>6, Zenon DEF Near
<1>5. QED
  BY <1>3, <1>4

\* What the rounds of sweeptolive yield.
LEMMA NearTypes ==
    ASSUME NEW g, NEW l, NEW p, NEW n, NEW x, Near(x, n, g, l, p)
    PROVE  x \in [g : Heap, p : Places]
<1>1. PICK m, q : x = [g |-> m, p |-> q] /\ SweptOn(g, m, l, p, q) /\ q \in Places
  BY Zenon DEF Near
<1>2. m \in Heap
  BY <1>1 DEF SweptOn, Structure
<1>3. QED
  BY <1>1, <1>2

\* sweeptolive: its pointer moves.
LEMMA ToLiveSwept ==
    ASSUME NEW g, Structure(g, {}), ~KeepInvariant(g), NEW l \in {"allgc", "finobj"}, NEW p,
           Stands(List(g, l), p)
    PROVE  \E m, q : /\ SweepToLive(g, l, p) = [g |-> m, p |-> q] /\ SweptOn(g, m, l, p, q)
                     /\ q \in Places /\ q # p
<1> DEFINE N == Cardinality(Bodies)
           S == [g : Heap, p : Places]
           b == SweepList(g, l, p)
           go(x) == IF x.p = p THEN SweepList(x.g, l, p) ELSE x
           f(after) == [n \in 0..N |-> IF n = 0 THEN b ELSE go(after[n - 1])]
           after == CHOOSE after : after = f(after)
<1>1. SweepToLive(g, l, p) = after[N]
  BY Zenon DEF SweepToLive
<1>2. N \in Nat
  BY Finite
<1>3. Near(b, 0, g, l, p)
  BY NearFirst
<1>4. ASSUME NEW n \in 1..N, NEW x, Near(x, n - 1, g, l, p)
      PROVE  Near(go(x), n, g, l, p)
  <2>1. n \in Nat \ {0}
    OBVIOUS
  <2>2. Near(Onward(x, l, p), n, g, l, p)
    BY <1>4, <2>1, NearNext
  <2>3. go(x) = Onward(x, l, p)
    BY DEF Onward
  <2>4. QED
    BY <2>2, <2>3
<1>5. \A n, x : Near(x, n, g, l, p) => x \in S
  BY NearTypes
<1>6. b \in S
  BY <1>3, <1>5
<1> HIDE DEF go, b, S
<1> DEFINE G == [n \in 1..N |-> [x \in S |-> IF go(x) \in S THEN go(x) ELSE b]]
<1>7. Rounds(1..N, S, G) /\ \A n \in 1..N : \A x \in S : go(x) \in S => G[n][x] = go(x)
  BY <1>6 DEF Rounds
<1> HIDE DEF N, G, f
<1>8. PICK u : Runs(N, S, b, G, u)
  BY <1>2, <1>6, <1>7, Iterates
<1>9. u \in [0..N -> S] /\ u[0] = b /\ \A n \in 1..N : u[n] = G[n][u[n - 1]]
  BY <1>8 DEF Runs, ByRounds
<1>10. \A n \in 1..N : n - 1 \in 0..N /\ n \in 0..N /\ n # 0
  BY <1>2
<1>11. ASSUME NEW n \in 1..N, Near(u[n - 1], n - 1, g, l, p)
       PROVE  Near(u[n], n, g, l, p) /\ u[n] = go(u[n - 1])
  <2>1. Near(go(u[n - 1]), n, g, l, p)
    BY <1>4, <1>11
  <2>2. go(u[n - 1]) \in S /\ u[n - 1] \in S
    BY <1>5, <1>9, <1>10, <2>1
  <2>3. u[n] = go(u[n - 1])
    BY <1>7, <1>9, <2>2
  <2>4. QED
    BY <2>1, <2>3
<1> DEFINE T == {n \in 0..N : Near(u[n], n, g, l, p)}
<1>12. 0..N \subseteq T
  <2>1. 0 \in T
    BY <1>2, <1>3, <1>9
  <2>2. \A n \in 1..N : n - 1 \in T => n \in T
    BY <1>10, <1>11
  <2> HIDE DEF T
  <2>3. QED
    BY <1>2, <2>1, <2>2, StepsTo
<1>13. u = f(u)
  <2>1. \A n \in 0..N : n = 0 \/ n \in 1..N
    BY <1>2
  <2>2. \A n \in 1..N : u[n] = go(u[n - 1])
    BY <1>10, <1>11, <1>12
  <2>3. \A n \in 0..N : u[n] = IF n = 0 THEN b ELSE go(u[n - 1])
    BY <1>9, <1>10, <2>1, <2>2
  <2>4. QED
    BY <1>9, <2>3 DEF f
<1>14. after = f(after)
  BY <1>13, Zenon
<1> DEFINE at == after
<1>15. \A n \in 0..N : at[n] = IF n = 0 THEN b ELSE go(at[n - 1])
  <2> HIDE DEF after
  <2>1. QED
    BY <1>14 DEF f
<1> HIDE DEF after, at
<1> DEFINE R == {n \in 0..N : Near(at[n], n, g, l, p)}
<1>16. 0 \in R
  BY <1>2, <1>3, <1>15
<1>17. ASSUME NEW n \in 1..N, n - 1 \in R
       PROVE  n \in R
  <2>1. at[n] = go(at[n - 1])
    BY <1>10, <1>15
  <2>2. QED
    BY <1>4, <1>10, <1>17, <2>1
<1>18. N \in R
  <2> HIDE DEF R
  <2>1. 0..N \subseteq R
    BY <1>2, <1>16, <1>17, StepsTo
  <2>2. QED
    BY <1>2, <2>1
<1>19. Near(SweepToLive(g, l, p), N, g, l, p)
  BY <1>1, <1>18 DEF at
<1>20. PICK m, q : /\ SweepToLive(g, l, p) = [g |-> m, p |-> q] /\ SweptOn(g, m, l, p, q) /\ q \in Places
                   /\ q = p => Cardinality(Live(m)) <= N - 1 - N
  BY <1>19, Zenon DEF Near, N
<1>21. q # p
  <2>1. Cardinality(Live(m)) \in Nat
    BY Finite DEF Live
  <2>2. QED
    BY <1>2, <1>20, <2>1
<1>22. QED
  BY <1>20, <1>21, Zenon

-----------------------------------------------------------------------------
\* What the sweep has still to come to.
Ahead(g) ==
  {Main} \cup g.strings \cup Range(g.tobefnz)
    \cup Behind(g.finobj, g.sweepfin) \cup Behind(g.allgc, g.sweepgc)
\* The heap between the steps of a sweep, or between two cycles.
Sweeping(g) ==
  /\ GrayLists(g) = {} /\ g.strings \subseteq Strings(g)
  /\ g.sweepgc \in Range(g.allgc) \cup {Nil} /\ g.sweepfin \in Range(g.finobj) \cup {Nil}
  /\ Swept1(g, Ahead(g))
  /\ g.state # "sweepstring" => g.strings = {}
  /\ g.state \in {"sweep", "pause"} => g.sweepfin = Nil
  /\ g.state = "pause" =>
       /\ g.sweepgc = Nil /\ g.col[Main] = g.white
       /\ \A u \in Objs : g.kind[u] = "open" /\ g.at[u][1] = Main => g.col[u] = g.white

\* entersweep starts a sweep that has everything ahead of it.
LEMMA SweepEntered ==
    ASSUME NEW g, Structure(g, {})
    PROVE  LET m == EnterSweep(g)
           IN Structure(m, {}) /\ Sweeping(m) /\ m.state = "sweepstring" /\ m.looped = g.looped
<1>1. PICK T : T = Strings(g)
  OBVIOUS
<1>2. PICK g1 : g1 = [g EXCEPT !.state = "sweepstring", !.strings = T, !.gray = {},
                      !.grayagain = {}, !.weak = {}, !.allweak = {}, !.ephemeron = {}]
  OBVIOUS
<1>3. g \in Heap /\ ListedBut(g, {}) /\ Solid(g)
  BY DEF Structure
<1>4. T \subseteq Objs
  BY <1>1 DEF Strings, Of
<1>5. /\ g1 \in Heap /\ Relinks(g, g1) /\ g1.allgc = g.allgc /\ g1.finobj = g.finobj
      /\ g1.tobefnz = g.tobefnz /\ g1.looped = g.looped /\ g1.state = "sweepstring"
      /\ g1.strings = T /\ GrayLists(g1) = {}
  BY <1>2, <1>3, <1>4 DEF Heap, Relinks, GrayLists, States
<1>6. Structure(g1, {})
  <2>1. ListedBut(g1, {}) /\ Roots(g1) \subseteq Sound(g)
    BY <1>3, <1>5 DEF ListedBut, Relinks, Solid, Roots
  <2>2. QED
    BY <1>5, <2>1, Relinked
<1>7. /\ ~KeepInvariant(g1) /\ Stands(List(g1, "finobj"), "header")
      /\ List(g1, "finobj") = g1.finobj
  BY <1>5 DEF KeepInvariant, Stands, List
<1>8. PICK m, q : /\ SweepToLive(g1, "finobj", "header") = [g |-> m, p |-> q]
                  /\ SweptOn(g1, m, "finobj", "header", q) /\ q \in Places /\ q # "header"
  BY <1>6, <1>7, ToLiveSwept
<1>9. /\ Structure(m, {}) /\ ~KeepInvariant(m) /\ Stands(List(m, "allgc"), "header")
      /\ List(m, "allgc") = m.allgc /\ List(m, "finobj") = m.finobj
  BY <1>7, <1>8 DEF SweptOn, SweptFrom, Stays, KeepInvariant, Stands, List
<1>10. PICK n, p : /\ SweepToLive(m, "allgc", "header") = [g |-> n, p |-> p]
                   /\ SweptOn(m, n, "allgc", "header", p) /\ p \in Places /\ p # "header"
  BY <1>9, ToLiveSwept
<1>11. PICK r : r = [n EXCEPT !.sweepfin = q, !.sweepgc = p]
  OBVIOUS
<1>12. EnterSweep(g) = r
  <2>1. /\ SweepToLive(g1, "finobj", "header").g = m /\ SweepToLive(g1, "finobj", "header").p = q
        /\ SweepToLive(m, "allgc", "header").g = n /\ SweepToLive(m, "allgc", "header").p = p
    BY <1>8, <1>10
  <2>2. g1 = [g EXCEPT !.state = "sweepstring", !.strings = Strings(g), !.gray = {},
                      !.grayagain = {}, !.weak = {}, !.allweak = {}, !.ephemeron = {}]
    BY <1>1, <1>2
  <2>3. QED
    BY <1>11, <2>1, <2>2, Zenon DEF EnterSweep
<1>13. /\ Structure(n, {}) /\ SweptFrom(m, n) /\ n.finobj = m.finobj /\ List(n, "allgc") = n.allgc
       /\ SweptFrom(g1, m)
  BY <1>8, <1>10 DEF SweptOn, List
<1>14. q \in Range(n.finobj) \cup {Nil} /\ p \in Range(n.allgc) \cup {Nil}
  BY <1>8, <1>9, <1>10, <1>13 DEF SweptOn, Stands
<1>15. q \in Objs \cup {Nil} /\ p \in Objs \cup {Nil} /\ n \in Heap
  BY <1>8, <1>10, <1>13 DEF Places, Structure
<1>16. /\ r \in Heap /\ Relinks(n, r) /\ r.allgc = n.allgc /\ r.finobj = n.finobj
       /\ r.tobefnz = n.tobefnz /\ r.looped = n.looped /\ r.state = n.state
       /\ r.strings = n.strings /\ SameGray(n, r) /\ r.sweepfin = q /\ r.sweepgc = p
  BY <1>11, <1>15 DEF Heap, Relinks, SameGray, SameLists
<1>17. Structure(r, {}) /\ \A A : Swept1(n, A) => Swept1(r, A)
  <2>1. ListedBut(r, {}) /\ Roots(r) \subseteq Sound(n)
    BY <1>13, <1>16 DEF Structure, ListedBut, Relinks, Solid, Roots
  <2>2. QED
    BY <1>13, <1>16, <2>1, Relinked
<1>18. /\ n.state = "sweepstring" /\ n.looped = g.looped /\ n.strings = T /\ n.tobefnz = g.tobefnz
       /\ GrayLists(n) = {} /\ T \subseteq Strings(n)
  <2>1. SweptFrom(g1, n)
    BY <1>13, SweptFromOn
  <2>2. T \subseteq Strings(n)
    BY <1>1, <1>5, <2>1 DEF SweptFrom, Relinks, Strings, Of
  <2>3. QED
    BY <1>5, <2>1, <2>2 DEF SweptFrom, Stays, SameGray, SameLists, GrayLists
<1>19. Swept1(r, Ahead(r))
  <2>1. PICK R : R = {Main} \cup T \cup Range(g.tobefnz)
    OBVIOUS
  <2>2. Behind(g1.finobj, "header") = Range(g.finobj) /\ Behind(m.allgc, "header") = Range(m.allgc)
    BY <1>5 DEF Behind
  <2>3. Range(g.allgc) \subseteq Range(m.allgc)
    BY <1>5, <1>8 DEF SweptOn, Extends
  <2>4. Swept1(g1, Range(g.finobj) \cup (Range(m.allgc) \cup R))
    <3>1. \A o \in Objs : g1.kind[o] = g.kind[o] /\ g1.at[o] = g.at[o]
      BY <1>5 DEF Relinks
    <3>2. ASSUME NEW o \in Objs, g.kind[o] \notin {"free", "open"}
          PROVE  o \in Range(g.finobj) \cup (Range(m.allgc) \cup R)
      <4>1. o \in T \/ o \in Range(g.allgc) \cup Range(g.finobj) \cup Range(g.tobefnz)
        BY <1>1, <1>3, <3>2 DEF ListedBut, Strings, Of
      <4>2. QED
        BY <2>1, <2>3, <4>1
    <3>3. ASSUME NEW u \in Objs, g.kind[u] = "open"
          PROVE  g.at[u][1] \in Range(g.finobj) \cup (Range(m.allgc) \cup R)
      <4>1. g.at[u][1] \in Bodies /\ g.kind[g.at[u][1]] = "thread"
        BY <1>3, <3>3, AtPair DEF Structure
      <4>2. QED
        BY <2>1, <3>2, <4>1 DEF Bodies
    <3>4. QED
      BY <3>1, <3>2, <3>3 DEF Swept1
  <2>5. Swept1(m, Behind(m.finobj, q) \cup (Range(m.allgc) \cup R))
    BY <1>7, <1>8, <1>9, <2>2, <2>4 DEF SweptOn
  <2>6. Swept1(m, Behind(m.allgc, "header") \cup (Behind(m.finobj, q) \cup R))
    <3>1. Behind(m.finobj, q) \cup (Range(m.allgc) \cup R) = Behind(m.allgc, "header") \cup (Behind(m.finobj, q) \cup R)
      BY <2>2
    <3>2. QED
      BY <2>5, <3>1
  <2>7. Swept1(n, Behind(n.allgc, p) \cup (Behind(m.finobj, q) \cup R))
    BY <1>9, <1>10, <1>13, <2>6 DEF SweptOn
  <2>8. Behind(n.allgc, p) \cup (Behind(m.finobj, q) \cup R) = Ahead(r)
    BY <1>13, <1>16, <1>18, <2>1 DEF Ahead
  <2>9. QED
    BY <1>17, <2>7, <2>8
<1>20. Sweeping(r)
  <2>1. GrayLists(r) = {} /\ Strings(r) = Strings(n)
    BY <1>16, <1>18 DEF GrayLists, SameGray, SameLists, Strings, Of, Relinks
  <2>2. QED
    BY <1>14, <1>16, <1>18, <1>19, <2>1 DEF Sweeping
<1>21. QED
  BY <1>12, <1>16, <1>17, <1>18, <1>20

\* Black objects, those of X excepted, refer to no white one.
Blacks(g, X) == \A x \in Live(g) \ X : g.col[x] = "black" => RefsIn(g, x, NonWhite(g))
\* The heap between the steps of a mark phase, but for the objects of X.
Loose(g, X) ==
  /\ Filed(g) /\ Tidy(g, {}) /\ Live(g) = Sound(g) /\ Blacks(g, X) /\ ~IsWhite(g, Main)
  /\ g.sweepfin = Nil /\ g.sweepgc = Nil /\ g.strings = {}
\* The heap in any phase.
Phase(g, X) ==
  /\ Structure(g, {}) /\ g.state # "atomic"
  /\ g.state = "propagate" => Loose(g, X)
  /\ g.state # "propagate" => Sweeping(g)

\* The two names of the heap while nothing is dead.
LEMMA CoreIs ==
    ASSUME NEW g
    PROVE  Core(g) <=> Structure(g, {}) /\ Live(g) = Sound(g)
BY StructureIs DEF Core, PreSweep

\* The two names of the heap in the middle of a mark phase.
LEMMA PropagatingIs ==
    ASSUME NEW g
    PROVE  /\ Structure(g, {}) /\ Loose(g, {}) => Propagating(g)
           /\ Propagating(g) => Structure(g, {}) /\ Loose(g, {})
<1>1. ASSUME Structure(g, {}), Loose(g, {})
      PROVE  Propagating(g)
  <2>1. Core(g) /\ g \in Heap /\ Colored(g)
    BY <1>1, CoreIs DEF Loose, Structure, Shaped
  <2>2. Covered(g, Grays(g))
    <3>1. SUFFICES ASSUME NEW o \in Live(g), ~IsWhite(g, o), o \notin g.gray \cup Grays(g)
                   PROVE  Done(g, o)
      BY DEF Covered
    <3>2. o \in Bodies /\ g.col[o] \in Colors /\ g.col[o] # "gray"
      BY <2>1, <3>1, HeapTypes DEF Live, Grays
    <3>3. g.col[o] = "black"
      BY <3>1, <3>2 DEF Colors, IsWhite
    <3>4. g.kind[o] \notin NeverBlack
      BY <2>1, <3>2, <3>3 DEF Colored
    <3>5. RefsIn(g, o, NonWhite(g))
      BY <1>1, <3>3 DEF Loose, Blacks
    <3>6. QED
      BY <3>4, <3>5 DEF Done, NeverBlack
  <2>3. QED
    BY <1>1, <2>1, <2>2 DEF Loose, Propagating, Marking
<1>2. ASSUME Propagating(g)
      PROVE  Structure(g, {}) /\ Loose(g, {})
  <2>1. /\ Core(g) /\ Filed(g) /\ Covered(g, Grays(g)) /\ Tidy(g, {})
        /\ g \in Heap /\ Colored(g)
    BY <1>2 DEF Propagating, Marking, Core, Shaped
  <2>2. Structure(g, {}) /\ Live(g) = Sound(g)
    BY <2>1, CoreIs
  <2>3. Blacks(g, {})
    <3>1. SUFFICES ASSUME NEW x \in Live(g), g.col[x] = "black"
                   PROVE  RefsIn(g, x, NonWhite(g))
      BY DEF Blacks
    <3>2. x \notin g.gray /\ x \notin Grays(g) /\ ~IsWhite(g, x)
      BY <2>1, <3>1 DEF Tidy, GrayLists, Grays, IsWhite
    <3>3. Done(g, x) /\ g.kind[x] \notin NeverBlack
      BY <2>1, <3>1, <3>2 DEF Covered, Colored, Live
    <3>4. QED
      BY <3>3 DEF Done, NeverBlack
  <2>4. QED
    BY <1>2, <2>1, <2>2, <2>3 DEF Propagating, Loose
<1>3. QED
  BY <1>1, <1>2

\* What Phase says of its parts.
LEMMA PhaseFacts ==
    ASSUME NEW g, NEW X, Phase(g, X)
    PROVE  /\ g \in Heap /\ Structure(g, {}) /\ Shaped(g) /\ ListedBut(g, {}) /\ Solid(g)
           /\ Cast(g) /\ Roomy(g) /\ Opened(g) /\ Colored(g) /\ g.kind[Main] = "thread"
           /\ Main \in Sound(g) /\ Main \in Live(g) /\ Sound(g) \subseteq Live(g) /\ Live(g) \subseteq Bodies
           /\ g.white \in {"white0", "white1"} /\ g.white # Other(g.white)
           /\ g.white \in Colors
           /\ KeepInvariant(g) <=> g.state = "propagate"
<1>1. g \in Heap /\ Structure(g, {}) /\ Shaped(g) /\ ListedBut(g, {}) /\ Solid(g)
  BY DEF Phase, Structure
<1>2. g.white \in {"white0", "white1"} /\ g.white # Other(g.white)
  BY <1>1, HeapTypes DEF Other
<1>3. Main \in Sound(g) /\ Sound(g) \subseteq Live(g) /\ Live(g) \subseteq Bodies
  BY <1>1 DEF Solid, Roots, Sound, Live
<1>4. QED
  BY <1>1, <1>2, <1>3 DEF Shaped, Phase, KeepInvariant, Colors

\* More exceptions.
LEMMA PhaseMore ==
    ASSUME NEW g, NEW X, NEW Y, Phase(g, X), X \subseteq Y
    PROVE  Phase(g, Y)
BY DEF Phase, Loose, Blacks

\* What the sweep's own state depends on besides the objects and their lists.
Still(g, m) ==
  /\ SameGray(g, m) /\ m.strings = g.strings /\ m.state = g.state /\ m.tobefnz = g.tobefnz
  /\ m.sweepfin = g.sweepfin /\ m.sweepgc = g.sweepgc /\ m.white = g.white

\* The sweep does not depend on what objects refer to, nor on upvalues, lists and colours
\* but for what they show here.
LEMMA SweepingKept ==
    ASSUME NEW g, NEW m, Sweeping(g), Still(g, m),
           \A o \in g.strings : m.kind[o] = "string",
           Extends(g.allgc, m.allgc), Extends(g.finobj, m.finobj),
           \A A : Swept1(g, A) => Swept1(m, A),
           g.col[Main] = g.white => m.col[Main] = g.white,
           \A u \in Objs : m.kind[u] = "open" /\ m.at[u][1] = Main =>
             m.col[u] = g.white \/ (g.kind[u] = "open" /\ g.at[u][1] = Main /\ m.col[u] = g.col[u])
    PROVE  Sweeping(m)
<1>1. /\ GrayLists(m) = GrayLists(g) /\ m.strings = g.strings /\ m.state = g.state
      /\ m.sweepfin = g.sweepfin /\ m.sweepgc = g.sweepgc /\ m.tobefnz = g.tobefnz /\ m.white = g.white
  BY DEF Still, SameGray, SameLists, GrayLists
<1>2. Range(g.allgc) \subseteq Range(m.allgc) /\ Range(g.finobj) \subseteq Range(m.finobj)
  BY DEF Extends
<1>3. Behind(g.allgc, g.sweepgc) \subseteq Behind(m.allgc, g.sweepgc)
  BY BehindExtends
<1>4. Behind(g.finobj, g.sweepfin) \subseteq Behind(m.finobj, g.sweepfin)
  BY BehindExtends
<1>5. Ahead(g) \subseteq Ahead(m)
  BY <1>1, <1>3, <1>4 DEF Ahead
<1>6. Swept1(m, Ahead(m))
  BY <1>5, SweptMore DEF Sweeping
<1>7. m.strings \subseteq Strings(m)
  BY <1>1 DEF Sweeping, Strings, Of
<1>8. QED
  BY <1>1, <1>2, <1>6, <1>7 DEF Sweeping

\* What marks alone decide.
LEMMA LooseKept ==
    ASSUME NEW g, NEW m, NEW X, Loose(g, X), m.col = g.col, m.kind = g.kind, SameGray(g, m),
           m.white = g.white,
           m.sweepfin = g.sweepfin, m.sweepgc = g.sweepgc, m.strings = g.strings
    PROVE  /\ Filed(m) /\ Tidy(m, {}) /\ Live(m) = Sound(m) /\ ~IsWhite(m, Main)
           /\ Live(m) = Live(g) /\ NonWhite(m) = NonWhite(g)
           /\ m.sweepfin = Nil /\ m.sweepgc = Nil /\ m.strings = {}
<1>1. \A o : IsWhite(m, o) <=> IsWhite(g, o)
  BY DEF IsWhite
<1>2. Live(m) = Live(g) /\ Sound(m) = Sound(g) /\ NonWhite(m) = NonWhite(g)
  BY <1>1 DEF Live, Sound, NonWhite
<1>3. GrayLists(m) = GrayLists(g) /\ Others(m) = Others(g) /\ m.gray = g.gray
  BY DEF GrayLists, Others, SameGray, SameLists
<1>4. Filed(m) /\ Tidy(m, {})
  BY <1>1, <1>2, <1>3 DEF Loose, Filed, Tidy, SameGray, SameLists
<1>5. QED
  BY <1>1, <1>2, <1>4 DEF Loose

-----------------------------------------------------------------------------
\* m is g where o refers to v under k.
Puts(g, m, o, k, v) ==
  /\ g \in Heap /\ o \in Bodies /\ k \in Keys /\ v \in Objs \cup {Nil}
  /\ m = [g EXCEPT !.val[o][k] = v]

\* What a store leaves alone.
LEMMA PutFields ==
    ASSUME NEW g, NEW m, NEW o, NEW k, NEW v, Puts(g, m, o, k, v)
    PROVE  /\ m \in Heap /\ m.cast = g.cast /\ m.kind = g.kind /\ m.at = g.at /\ m.col = g.col
           /\ m.white = g.white /\ m.state = g.state /\ m.full = g.full /\ m.looped = g.looped
           /\ SameGray(g, m) /\ m.allgc = g.allgc /\ m.finobj = g.finobj /\ m.tobefnz = g.tobefnz
           /\ m.finalized = g.finalized
           /\ m.sweepfin = g.sweepfin /\ m.sweepgc = g.sweepgc /\ m.strings = g.strings
           /\ \A x \in Bodies : x # o => m.val[x] = g.val[x]
           /\ \A j \in Keys : m.val[o][j] = IF j = k THEN v ELSE g.val[o][j]
<1> USE DEF Puts
<1>1. PICK f, w : f = [g.val[o] EXCEPT ![k] = v] /\ w = [g.val EXCEPT ![o] = f]
  OBVIOUS
<1>2. m = [g EXCEPT !.val = w]
  BY <1>1, Zenon DEF Puts
<1>3. g.val \in [Bodies -> [Keys -> Objs \cup {Nil}]] /\ g.val[o] \in [Keys -> Objs \cup {Nil}]
  BY HeapTypes
<1>4. f \in [Keys -> Objs \cup {Nil}] /\ \A j \in Keys : f[j] = IF j = k THEN v ELSE g.val[o][j]
  BY <1>1, <1>3
<1>5. w \in [Bodies -> [Keys -> Objs \cup {Nil}]] /\ w[o] = f /\ \A x \in Bodies : x # o => w[x] = g.val[x]
  BY <1>1, <1>3, <1>4
<1>6. /\ m \in Heap /\ m.cast = g.cast /\ m.kind = g.kind /\ m.at = g.at /\ m.col = g.col
      /\ m.white = g.white /\ m.state = g.state /\ m.full = g.full /\ m.looped = g.looped
      /\ SameGray(g, m) /\ m.allgc = g.allgc /\ m.finobj = g.finobj /\ m.tobefnz = g.tobefnz
      /\ m.finalized = g.finalized
      /\ m.sweepfin = g.sweepfin /\ m.sweepgc = g.sweepgc /\ m.strings = g.strings /\ m.val = w
  BY <1>2, <1>5 DEF Heap, SameGray, SameLists
<1>7. QED
  BY <1>4, <1>5, <1>6

\* A store of what the program has into an object it has.
MayPut(g, o, k, v) ==
  /\ o \in Live(g) /\ k \in Room(g, o) /\ v \in Sound(g) \cup {Nil} /\ g.kind[o] # "lclosure"
  /\ k \in Objs /\ v # Nil => k \in Sound(g)

\* After such a store the marks of o are to be seen to.
LEMMA PutPhase ==
    ASSUME NEW g, NEW m, NEW o, NEW k, NEW v, Phase(g, {}), Puts(g, m, o, k, v), MayPut(g, o, k, v)
    PROVE  /\ Phase(m, {o}) /\ Sound(m) = Sound(g) /\ m.kind = g.kind /\ m.col = g.col
           /\ m.state = g.state /\ m.white = g.white
           /\ ~IsBlack(g, o) => Phase(m, {})
           /\ \A S : RefsIn(g, o, S) /\ v \in S \cup {Nil} /\ (k \in Objs /\ v # Nil => k \in S) => RefsIn(m, o, S)
<1> USE DEF MayPut
<1>1. /\ o \in Bodies /\ g \in Heap /\ Shaped(g) /\ ListedBut(g, {}) /\ Solid(g) /\ g.kind[o] # "free"
      /\ k \in Keys /\ v \in Objs \cup {Nil}
  BY PhaseFacts DEF Sound, Live, Puts
<1>2. /\ m \in Heap /\ m.cast = g.cast /\ m.kind = g.kind /\ m.at = g.at /\ m.col = g.col
      /\ m.white = g.white /\ m.state = g.state /\ m.full = g.full /\ m.looped = g.looped
      /\ SameGray(g, m) /\ m.allgc = g.allgc /\ m.finobj = g.finobj /\ m.tobefnz = g.tobefnz
      /\ m.sweepfin = g.sweepfin /\ m.sweepgc = g.sweepgc /\ m.strings = g.strings
      /\ \A x \in Bodies : x # o => m.val[x] = g.val[x]
      /\ \A j \in Keys : m.val[o][j] = IF j = k THEN v ELSE g.val[o][j]
  BY PutFields
<1>3. Live(m) = Live(g) /\ Sound(m) = Sound(g)
  BY <1>2 DEF Live, Sound
<1>4. Shaped(m)
  <2>1. \A x : Room(m, x) = Room(g, x)
    BY <1>2 DEF Room
  <2>2. Roomy(m)
    BY <1>1, <1>2, <2>1 DEF Shaped, Roomy
  <2>3. QED
    BY <1>1, <1>2, <2>1, <2>2 DEF Shaped, Cast, Opened, Colored
<1>5. ListedBut(m, {})
  BY <1>1, <1>2 DEF ListedBut
<1>6. g.kind[o] # "open"
  BY <1>1, Names DEF Room, Tables, Shaped
<1>7. \A S : RefsIn(g, o, S) /\ v \in S \cup {Nil} /\ (k \in Objs /\ v # Nil => k \in S) => RefsIn(m, o, S)
  <2>1. SUFFICES ASSUME NEW S, RefsIn(g, o, S), v \in S \cup {Nil}, k \in Objs /\ v # Nil => k \in S
                 PROVE  RefsIn(m, o, S)
    OBVIOUS
  <2>2. ValuesIn(m, o, S)
    BY <1>2, <2>1 DEF RefsIn, ValuesIn
  <2>3. KeysIn(m, o, S)
    BY <1>2, <2>1, Names DEF RefsIn, KeysIn
  <2>4. UpIn(m, o, S)
    BY <1>2, <1>6 DEF UpIn
  <2>5. QED
    BY <2>2, <2>3, <2>4 DEF RefsIn
<1>8. Solid(m)
  <2>1. Roots(m) = Roots(g)
    BY <1>2 DEF Roots
  <2>2. ASSUME NEW x \in Sound(g)
        PROVE  RefsIn(m, x, Sound(g)) /\ Closing(m, x)
    <3>1. x \in Bodies /\ RefsIn(g, x, Sound(g)) /\ Closing(g, x)
      BY <1>1 DEF Solid, Sound, Live
    <3>2. CASE x = o
      BY <1>2, <1>7, <3>1, <3>2 DEF Closing
    <3>3. CASE x # o
      <4>1. m.val[x] = g.val[x]
        BY <1>2, <3>1, <3>3
      <4>2. UpIn(m, x, Sound(g))
        <5>1. SUFFICES ASSUME g.kind[x] = "open"
                       PROVE  UpValue(m, x) \in Sound(g) \cup {Nil}
          BY <1>2 DEF UpIn
        <5>2. x \in Objs
          BY <1>1, <3>1, <5>1 DEF Shaped, Bodies
        <5>3. g.at[x][1] \in Bodies /\ g.at[x][2] \in Keys
          BY <1>1, <5>1, <5>2, OpenAt DEF Shaped
        <5>4. UpValue(m, x) = m.val[g.at[x][1]][g.at[x][2]] /\ UpValue(g, x) = g.val[g.at[x][1]][g.at[x][2]]
          BY <1>2, <5>1 DEF UpValue
        <5>5. UpValue(m, x) = v \/ UpValue(m, x) = UpValue(g, x)
          BY <1>2, <5>3, <5>4
        <5>6. QED
          BY <3>1, <5>1, <5>5 DEF RefsIn, UpIn
      <4>3. QED
        BY <1>2, <3>1, <4>1, <4>2 DEF RefsIn, ValuesIn, KeysIn, Closing
    <3>4. QED
      BY <3>2, <3>3
  <2>3. QED
    BY <1>1, <1>3, <2>1, <2>2 DEF Solid
<1>9. Structure(m, {})
  BY <1>2, <1>4, <1>5, <1>8 DEF Structure
<1>10. ASSUME g.state = "propagate"
       PROVE  Loose(m, {o}) /\ (g.col[o] # "black" => Loose(m, {}))
  <2>1. Loose(g, {})
    BY <1>10 DEF Phase
  <2>2. /\ Filed(m) /\ Tidy(m, {}) /\ Live(m) = Sound(m) /\ ~IsWhite(m, Main)
        /\ NonWhite(m) = NonWhite(g) /\ m.sweepfin = Nil /\ m.sweepgc = Nil /\ m.strings = {}
    BY <1>2, <2>1, LooseKept
  <2>3. ASSUME NEW x \in Live(m), x # o, m.col[x] = "black"
        PROVE  RefsIn(m, x, NonWhite(m))
    <3>1. RefsIn(g, x, NonWhite(g)) /\ x \in Bodies /\ g.kind[x] # "open"
      BY <1>1, <1>2, <1>3, <2>1, <2>3 DEF Loose, Blacks, Live, Shaped, Colored, NeverBlack
    <3>2. m.val[x] = g.val[x] /\ m.kind[x] # "open"
      BY <1>2, <2>3, <3>1
    <3>3. QED
      BY <2>2, <3>1, <3>2 DEF RefsIn, ValuesIn, KeysIn, UpIn
  <2>4. Blacks(m, {o}) /\ (g.col[o] # "black" => Blacks(m, {}))
    BY <1>2, <2>3 DEF Blacks
  <2>5. QED
    BY <2>2, <2>4 DEF Loose
<1>11. ASSUME g.state # "propagate"
       PROVE  Sweeping(m)
  <2>1. Sweeping(g)
    BY <1>11 DEF Phase
  <2>2. Still(g, m)
    BY <1>2 DEF Still
  <2>3. \A A : Swept1(g, A) => Swept1(m, A)
    BY <1>2 DEF Swept1
  <2>4. Extends(g.allgc, m.allgc) /\ Extends(g.finobj, m.finobj)
    BY <1>2 DEF Extends
  <2>5. \A x \in g.strings : m.kind[x] = "string"
    BY <1>2, <2>1 DEF Sweeping, Strings, Of
  <2>6. QED
    BY <1>2, <2>1, <2>2, <2>3, <2>4, <2>5, SweepingKept
<1>12. m.state # "atomic"
  BY <1>2 DEF Phase
<1>13. QED
  BY <1>2, <1>3, <1>7, <1>9, <1>10, <1>11, <1>12 DEF Phase, IsBlack

\* A stack slot of Main is set.
LEMMA SlotSet ==
    ASSUME NEW g, NEW m, NEW s \in Slots, NEW v \in Sound(g) \cup {Nil}, Phase(g, {}),
           Puts(g, m, Main, s, v)
    PROVE  Phase(m, {})
<1>1. /\ Main \in Sound(g) /\ g.kind[Main] = "thread" /\ Colored(g) /\ Main \in Bodies /\ s \in Keys
      /\ s \notin Objs
  BY PhaseFacts, Names
<1>2. s \in Room(g, Main) /\ g.kind[Main] # "lclosure" /\ ~IsBlack(g, Main)
  BY <1>1 DEF Room, Colored, NeverBlack, IsBlack
<1>3. MayPut(g, Main, s, v)
  BY <1>1, <1>2 DEF MayPut, Sound
<1>4. QED
  BY <1>2, <1>3, PutPhase

\* Marking keeps the gray objects on their lists.
LEMMA PaintTidy ==
    ASSUME NEW g, NEW m, NEW W, NEW E, Paints(g, m, W), Tidy(g, E)
    PROVE  Tidy(m, E)
<1>1. /\ W \subseteq Whites(g) /\ Others(m) = Others(g) /\ m.kind = g.kind /\ Live(m) = Live(g)
      /\ \A o \in Bodies : m.col[o] = IF o \notin W THEN g.col[o]
                                      ELSE IF g.kind[o] \in Blackened THEN "black" ELSE "gray"
      /\ m.gray = g.gray \cup {o \in W : g.kind[o] \notin Blackened \cup {"open"}}
      /\ m.gray \subseteq Bodies /\ Others(m) \subseteq Bodies
  <2>1. m \in Heap
    BY DEF Paints
  <2>2. m.gray \subseteq Bodies /\ Others(m) \subseteq Bodies
    BY <2>1, HeapTypes DEF GrayLists, Others
  <2>3. QED
    BY <2>2 DEF Paints, Fixed, SameLists, Others, Live
<1>2. \A o \in W : IsWhite(g, o) /\ o \in Bodies /\ g.col[o] # "gray"
  BY <1>1 DEF Whites, IsWhite
<1>3. \A o \in g.gray \cup Others(g) : g.col[o] = "gray"
  BY DEF Tidy, GrayLists, Others
<1>4. \A x : x \in GrayLists(m) <=> x \in m.gray \cup Others(m)
  BY DEF GrayLists, Others
<1>5. ASSUME NEW o \in m.gray \cup Others(m)
      PROVE  m.col[o] = "gray"
  <2>1. o \in Bodies
    BY <1>1, <1>5
  <2>2. CASE o \in g.gray \cup Others(g)
    BY <1>1, <1>2, <1>3, <2>1, <2>2
  <2>3. CASE o \in W /\ g.kind[o] \notin Blackened
    BY <1>1, <2>1, <2>3
  <2>4. QED
    BY <1>1, <1>5, <2>2, <2>3
<1>6. m.gray \cap Others(m) = {}
  <2>1. \A o \in W : o \notin Others(g)
    BY <1>2, <1>3
  <2>2. g.gray \cap Others(g) = {}
    BY DEF Tidy
  <2>3. QED
    BY <1>1, <2>1, <2>2
<1>7. ASSUME NEW o \in Live(m) \ E, m.col[o] = "gray", m.kind[o] # "open"
      PROVE  o \in m.gray \cup Others(m)
  <2>1. o \in Bodies
    BY <1>7 DEF Live
  <2>2. CASE o \in W
    BY <1>1, <1>7, <2>1, <2>2
  <2>3. CASE o \notin W
    <3>1. g.col[o] = "gray" /\ o \in Live(g) \ E /\ g.kind[o] # "open"
      BY <1>1, <1>7, <2>1, <2>3
    <3>2. o \in GrayLists(g)
      BY <3>1 DEF Tidy
    <3>3. QED
      BY <1>1, <3>2 DEF GrayLists, Others
  <2>4. QED
    BY <2>2, <2>3
<1>8. QED
  BY <1>4, <1>5, <1>6, <1>7 DEF Tidy

\* To the lemmas of the mark phase.
LEMMA LooseMarking ==
    ASSUME NEW g, NEW X, Structure(g, {}), Loose(g, X)
    PROVE  Marking(g, Grays(g) \cup X)
<1>1. Core(g) /\ g \in Heap /\ Colored(g)
  BY CoreIs DEF Loose, Structure, Shaped
<1>2. Covered(g, Grays(g) \cup X)
  <2>1. SUFFICES ASSUME NEW o \in Live(g), ~IsWhite(g, o), o \notin g.gray \cup (Grays(g) \cup X)
                 PROVE  Done(g, o)
    BY DEF Covered
  <2>2. o \in Bodies /\ g.col[o] \in Colors /\ g.col[o] # "gray"
    BY <1>1, <2>1, HeapTypes DEF Live, Grays
  <2>3. g.col[o] = "black"
    BY <2>1, <2>2 DEF Colors, IsWhite
  <2>4. g.kind[o] \notin NeverBlack
    BY <1>1, <2>2, <2>3 DEF Colored
  <2>5. RefsIn(g, o, NonWhite(g))
    BY <2>1, <2>3 DEF Loose, Blacks
  <2>6. QED
    BY <2>4, <2>5 DEF Done, NeverBlack
<1>3. QED
  BY <1>1, <1>2 DEF Loose, Marking

\* Back from the lemmas of the mark phase.
LEMMA MarkingLoose ==
    ASSUME NEW g, NEW P, NEW X, Marking(g, P), Tidy(g, {}), ~IsWhite(g, Main),
           g.sweepfin = Nil, g.sweepgc = Nil, g.strings = {},
           \A x \in Live(g) \ X : g.col[x] = "black" /\ x \in P => Done(g, x)
    PROVE  Structure(g, {}) /\ Loose(g, X)
<1>1. Core(g) /\ Filed(g) /\ Covered(g, P) /\ Colored(g)
  BY DEF Marking, Core, Shaped
<1>2. Structure(g, {}) /\ Live(g) = Sound(g)
  BY <1>1, CoreIs
<1>3. Blacks(g, X)
  <2>1. SUFFICES ASSUME NEW x \in Live(g), x \notin X, g.col[x] = "black"
                 PROVE  RefsIn(g, x, NonWhite(g))
    BY DEF Blacks
  <2>2. ~IsWhite(g, x) /\ x \notin g.gray
    BY <2>1 DEF Tidy, GrayLists, IsWhite
  <2>3. Done(g, x) /\ g.kind[x] \notin NeverBlack
    BY <1>1, <2>1, <2>2 DEF Covered, Colored, Live
  <2>4. QED
    BY <2>3 DEF Done, NeverBlack
<1>4. QED
  BY <1>1, <1>2, <1>3 DEF Loose

\* m is g where more objects may be marked.
Marks(g, m, V) ==
  /\ Fixed(g, m) /\ m.val = g.val /\ m.looped = g.looped /\ m \in Heap
  /\ Sound(m) = Sound(g) /\ Live(m) = Live(g) /\ NonWhite(g) \subseteq NonWhite(m)
  /\ \A x \in Bodies : ~IsWhite(g, x) => m.col[x] = g.col[x]
  /\ \A v \in V : v \in Bodies => v \in NonWhite(m)

\* markobject between the steps of a mark phase.
LEMMA LooseMarked ==
    ASSUME NEW g, NEW X, NEW V, Structure(g, {}), Loose(g, X)
    PROVE  Structure(Mark(g, V), {}) /\ Loose(Mark(g, V), X) /\ Marks(g, Mark(g, V), V)
<1>1. PICK m, P : m = Mark(g, V) /\ P = Grays(g) \cup X
  OBVIOUS
<1>2. Marking(g, P) /\ g \in Heap /\ Main \in Bodies
  BY <1>1, LooseMarking, Names DEF Structure
<1>3. /\ Advances(g, m, P, Main) /\ \A v \in V : v \in Bodies => v \in NonWhite(m)
  BY <1>1, <1>2, MarkAdvances
<1>4. Paints(g, m, Marked(g, V))
  BY <1>1, <1>2, MarkPaints
<1>5. Tidy(m, {})
  BY <1>4, PaintTidy DEF Loose
<1>6. /\ Marking(m, P) /\ Grows(g, m) /\ Follows(g, m) /\ Fixed(g, m) /\ m.val = g.val
      /\ \A x \in Bodies : ~IsWhite(g, x) => m.col[x] = g.col[x]
      /\ m.looped = g.looped /\ m \in Heap
  BY <1>3, <1>4 DEF Advances, Grows, Follows, Paints
<1>7. NonWhite(g) \subseteq NonWhite(m) /\ Live(m) = Live(g) /\ ~IsWhite(m, Main)
  BY <1>2, <1>6, FollowsWhite DEF Loose
<1>8. m.sweepfin = Nil /\ m.sweepgc = Nil /\ m.strings = {}
  BY <1>6 DEF Fixed, Loose
<1>9. \A x \in Live(m) \ X : m.col[x] = "black" /\ x \in P => Done(m, x)
  <2>1. SUFFICES ASSUME NEW x \in Bodies, x \in Grays(g)
                 PROVE  m.col[x] = "gray"
    BY <1>1 DEF Live
  <2>2. g.col[x] = "gray" /\ ~IsWhite(g, x)
    BY <2>1 DEF Grays, IsWhite
  <2>3. QED
    BY <1>6, <2>2
<1>10. Structure(m, {}) /\ Loose(m, X)
  BY <1>5, <1>6, <1>7, <1>8, <1>9, MarkingLoose
<1>11. Sound(m) = Sound(g)
  BY <1>7, <1>10 DEF Loose
<1>12. QED
  BY <1>1, <1>3, <1>6, <1>7, <1>10, <1>11 DEF Marks

-----------------------------------------------------------------------------
\* While the sweep goes on, an object that is not dead is made white.
LEMMA WhitePhase ==
    ASSUME NEW g, NEW X, Phase(g, X), g.state # "propagate", NEW o \in Sound(g)
    PROVE  /\ Phase(MakeWhite(g, o), {}) /\ Whitens(g, MakeWhite(g, o), {o})
<1>1. PICK m : m = MakeWhite(g, o)
  OBVIOUS
<1>2. Structure(g, {}) /\ Sweeping(g) /\ g.state # "atomic"
  BY DEF Phase
<1>3. /\ Structure(m, {}) /\ Whitens(g, m, {o}) /\ \A A : Swept1(g, A) => Swept1(m, A)
  BY <1>1, <1>2, WhiteMade
<1>4. /\ Stays(g, m) /\ m.kind = g.kind /\ m.at = g.at /\ m.allgc = g.allgc /\ m.finobj = g.finobj
      /\ \A x \in Bodies : m.col[x] = g.white \/ m.col[x] = g.col[x]
  BY <1>3 DEF Whitens, SweptFrom
<1>5. Extends(g.allgc, m.allgc) /\ Extends(g.finobj, m.finobj)
  BY <1>4 DEF Extends
<1>6. Sweeping(m)
  <2>1. \A x \in g.strings : m.kind[x] = "string"
    BY <1>2, <1>4 DEF Sweeping, Strings, Of
  <2>2. Still(g, m)
    BY <1>4 DEF Stays, Still
  <2>3. QED
    BY <1>2, <1>3, <1>4, <1>5, <2>1, <2>2, Names, SweepingKept
<1>7. m.state = g.state
  BY <1>4 DEF Stays
<1>8. QED
  BY <1>1, <1>2, <1>3, <1>6, <1>7 DEF Phase

\* What a black o refers to is not white, but for what is in V.
Barred(g, o, V) == g.state = "propagate" /\ IsBlack(g, o) => RefsIn(g, o, NonWhite(g) \cup V)

\* An object with nothing for the barriers to do is no exception.
LEMMA BarredPhase ==
    ASSUME NEW g, NEW o, Phase(g, {o}), Barred(g, o, {})
    PROVE  Phase(g, {})
<1>1. NonWhite(g) \cup {} = NonWhite(g)
  OBVIOUS
<1>2. ASSUME g.state = "propagate"
      PROVE  Loose(g, {})
  <2>1. Loose(g, {o}) /\ (IsBlack(g, o) => RefsIn(g, o, NonWhite(g)))
    BY <1>1, <1>2 DEF Phase, Barred
  <2>2. Blacks(g, {})
    BY <2>1 DEF Loose, Blacks, IsBlack
  <2>3. QED
    BY <2>1, <2>2 DEF Loose
<1>3. QED
  BY <1>2 DEF Phase

\* A reference that needs no barrier.
LEMMA BarredLess ==
    ASSUME NEW g \in Heap, NEW o, NEW V, NEW v, Barred(g, o, V \cup {v}),
           v = Nil \/ (v \in Bodies /\ ~IsWhite(g, v)) \/ ~IsBlack(g, o)
    PROVE  Barred(g, o, V)
<1>1. SUFFICES ASSUME g.state = "propagate", IsBlack(g, o), v = Nil \/ (v \in Bodies /\ ~IsWhite(g, v))
               PROVE  RefsIn(g, o, NonWhite(g) \cup V)
  BY DEF Barred
<1>2. RefsIn(g, o, NonWhite(g) \cup (V \cup {v}))
  BY <1>1 DEF Barred
<1>3. \A x : x \in NonWhite(g) \cup (V \cup {v}) => x \in NonWhite(g) \cup V \/ x = Nil
  BY <1>1 DEF NonWhite
<1>4. \A k \in Objs : k # Nil
  BY Names
<1>5. QED
  BY <1>2, <1>3, <1>4 DEF RefsIn, ValuesIn, KeysIn, UpIn

\* m is g but for marks and colours.
Recolors(g, m) ==
  /\ m \in Heap /\ m.cast = g.cast /\ m.kind = g.kind /\ m.val = g.val /\ m.at = g.at
  /\ m.white = g.white /\ m.state = g.state /\ m.allgc = g.allgc /\ m.finobj = g.finobj
  /\ m.tobefnz = g.tobefnz /\ m.finalized = g.finalized /\ m.sweepgc = g.sweepgc
  /\ Sound(m) = Sound(g) /\ Live(m) = Live(g)

\* luaC_barrier
LEMMA BarrierPhase ==
    ASSUME NEW g, NEW o, NEW v, Phase(g, {o}), o \in Sound(g), v \in Bodies \cup {Nil},
           Barred(g, o, {v})
    PROVE  Phase(Barrier(g, o, v), {}) /\ Recolors(g, Barrier(g, o, v))
<1>1. g \in Heap /\ Structure(g, {}) /\ (KeepInvariant(g) <=> g.state = "propagate")
      /\ o \in Bodies /\ o \in Live(g)
  BY PhaseFacts
<1>2. CASE v = Nil \/ ~(IsBlack(g, o) /\ IsWhite(g, v))
  <2>1. Barrier(g, o, v) = g
    BY <1>2 DEF Barrier
  <2>2. Barred(g, o, {})
    <3>1. {} \cup {v} = {v}
      OBVIOUS
    <3>2. v = Nil \/ (v \in Bodies /\ ~IsWhite(g, v)) \/ ~IsBlack(g, o)
      BY <1>2
    <3>3. QED
      BY <1>1, <3>1, <3>2, BarredLess
  <2>3. Recolors(g, g)
    BY <1>1 DEF Recolors
  <2>4. QED
    BY <2>1, <2>2, <2>3, BarredPhase
<1>3. CASE v # Nil /\ IsBlack(g, o) /\ IsWhite(g, v) /\ g.state = "propagate"
  <2>1. Barrier(g, o, v) = Mark(g, {v})
    BY <1>1, <1>3 DEF Barrier
  <2>2. PICK m, V : V = {v} /\ m = Mark(g, V)
    OBVIOUS
  <2>3. Loose(g, {o})
    BY <1>3 DEF Phase
  <2>4. Structure(m, {}) /\ Loose(m, {o}) /\ Marks(g, m, V)
    BY <1>1, <2>2, <2>3, LooseMarked
  <2>5. NonWhite(g) \cup {v} \subseteq NonWhite(m)
    BY <1>3, <2>2, <2>4 DEF Marks
  <2>6. m.val = g.val /\ m.kind = g.kind /\ m.at = g.at /\ m.state = g.state
    BY <2>4 DEF Marks, Fixed
  <2>7. RefsIn(m, o, NonWhite(m) \cup {})
    <3>1. RefsIn(g, o, NonWhite(g) \cup {v})
      BY <1>3 DEF Barred
    <3>2. ValuesIn(m, o, NonWhite(m) \cup {}) /\ KeysIn(m, o, NonWhite(m) \cup {})
      BY <2>5, <2>6, <3>1 DEF RefsIn, ValuesIn, KeysIn
    <3>3. UpIn(m, o, NonWhite(m) \cup {})
      BY <2>5, <2>6, <3>1 DEF RefsIn, UpIn, UpValue
    <3>4. QED
      BY <3>2, <3>3 DEF RefsIn
  <2>8. Phase(m, {o}) /\ Barred(m, o, {})
    BY <1>3, <2>4, <2>6, <2>7 DEF Phase, Barred
  <2>9. Recolors(g, m)
    BY <2>4, <2>6 DEF Recolors, Marks, Fixed, Structure
  <2>10. QED
    BY <2>1, <2>2, <2>8, <2>9, BarredPhase
<1>4. CASE v # Nil /\ IsBlack(g, o) /\ IsWhite(g, v) /\ g.state # "propagate"
  <2>1. Barrier(g, o, v) = MakeWhite(g, o)
    BY <1>1, <1>4 DEF Barrier
  <2>2. Phase(MakeWhite(g, o), {}) /\ Whitens(g, MakeWhite(g, o), {o})
    BY <1>4, WhitePhase
  <2>3. PICK m : m = MakeWhite(g, o)
    OBVIOUS
  <2>4. m.finalized = g.finalized
    BY <1>1, <2>3 DEF MakeWhite, Heap
  <2>5. Live(m) = Live(g)
    BY <2>2, <2>3 DEF Whitens, Live
  <2>6. Recolors(g, m)
    BY <2>2, <2>3, <2>4, <2>5 DEF Recolors, Whitens, SweptFrom, Stays
  <2>7. QED
    BY <2>1, <2>2, <2>3, <2>6
<1>5. QED
  BY <1>2, <1>3, <1>4

\* An object that was black is gray again, and is visited again in a mark phase.
Grayed(g, t) ==
  [g EXCEPT !.col[t] = "gray", !.grayagain = IF KeepInvariant(g) THEN @ \cup {t} ELSE @]

\* The object of a backward barrier is no exception any more.
LEMMA GrayedPhase ==
    ASSUME NEW g, NEW t, Phase(g, {t}), t \in Sound(g), IsBlack(g, t),
           g.kind[t] \notin {"string", "udata", "closed"}
    PROVE  Phase(Grayed(g, t), {}) /\ Recolors(g, Grayed(g, t)) /\ ~IsBlack(Grayed(g, t), t)
<1>1. /\ g \in Heap /\ Structure(g, {}) /\ Colored(g) /\ t \in Bodies /\ g.kind[t] # "free"
      /\ g.white # Other(g.white) /\ g.white \in {"white0", "white1"}
      /\ g.kind[Main] = "thread" /\ (KeepInvariant(g) <=> g.state = "propagate")
  BY PhaseFacts DEF Live
<1>2. g.kind[t] \notin NeverBlack /\ t # Main
  BY <1>1 DEF Colored, IsBlack, NeverBlack
<1>3. PICK c, l : c = [g.col EXCEPT ![t] = "gray"] /\ l = IF KeepInvariant(g) THEN g.grayagain \cup {t} ELSE g.grayagain
  OBVIOUS
<1>4. PICK m : m = [g EXCEPT !.col = c, !.grayagain = l]
  OBVIOUS
<1>5. Grayed(g, t) = m
  BY <1>3, <1>4, Zenon DEF Grayed
<1>6. c \in [Bodies -> Colors] /\ l \subseteq Bodies /\ c[t] = "gray" /\ \A x \in Bodies : x # t => c[x] = g.col[x]
  BY <1>1, <1>3, HeapTypes DEF Colors, GrayLists
<1>7. /\ m \in Heap /\ m.cast = g.cast /\ m.kind = g.kind /\ m.val = g.val /\ m.at = g.at
      /\ m.white = g.white /\ m.state = g.state /\ m.full = g.full /\ m.looped = g.looped
      /\ m.gray = g.gray /\ m.grayagain = l /\ m.weak = g.weak /\ m.allweak = g.allweak
      /\ m.ephemeron = g.ephemeron /\ m.allgc = g.allgc /\ m.finobj = g.finobj /\ m.tobefnz = g.tobefnz
      /\ m.finalized = g.finalized
      /\ m.sweepfin = g.sweepfin /\ m.sweepgc = g.sweepgc /\ m.strings = g.strings /\ m.col = c
  BY <1>1, <1>4, <1>6 DEF Heap
<1>8. Live(m) = Live(g) /\ Sound(m) = Sound(g) /\ NonWhite(m) = NonWhite(g)
  <2>1. g.col[t] = "black" /\ "gray" # Other(g.white) /\ "black" # Other(g.white)
    BY <1>1 DEF IsBlack, Other
  <2>2. QED
    BY <1>6, <1>7, <2>1 DEF Live, Sound, NonWhite, IsWhite
<1>9. \A o, S : RefsIn(m, o, S) <=> RefsIn(g, o, S)
  BY <1>7 DEF RefsIn, ValuesIn, KeysIn, UpIn, UpValue
<1>10. Structure(m, {})
  <2>1. Shaped(g) /\ ListedBut(g, {}) /\ Solid(g)
    BY <1>1 DEF Structure
  <2>2. \A x : Room(m, x) = Room(g, x)
    BY <1>7 DEF Room
  <2>3. Colored(m)
    BY <1>1, <1>2, <1>6, <1>7 DEF Colored
  <2>4. Shaped(m)
    BY <1>7, <2>1, <2>2, <2>3 DEF Shaped, Cast, Roomy, Opened
  <2>5. ListedBut(m, {})
    BY <1>7, <2>1 DEF ListedBut
  <2>6. Solid(m)
    BY <1>7, <1>8, <1>9, <2>1 DEF Solid, Roots, Closing
  <2>7. QED
    BY <1>7, <2>4, <2>5, <2>6 DEF Structure
<1>11. ASSUME g.state = "propagate"
       PROVE  Loose(m, {})
  <2>1. Loose(g, {t}) /\ l = g.grayagain \cup {t}
    BY <1>1, <1>3, <1>11 DEF Phase
  <2>2. /\ \A x : x \in GrayLists(m) <=> x = t \/ x \in GrayLists(g)
        /\ \A x : x \in Others(m) <=> x = t \/ x \in Others(g)
    BY <1>7, <2>1 DEF GrayLists, Others
  <2>3. \A x : IsWhite(m, x) /\ x \in Bodies => IsWhite(g, x)
    BY <1>6, <1>7 DEF IsWhite
  <2>4. GrayLists(g) \subseteq Bodies
    BY <1>1, HeapTypes
  <2>5. t \notin GrayLists(g)
    BY <2>1 DEF Loose, Tidy, IsBlack
  <2>6. Filed(m)
    <3>1. ~IsWhite(m, t) /\ g.kind[t] \notin {"free", "string", "udata", "open", "closed"}
      BY <1>2, <1>6, <1>7 DEF IsWhite, NeverBlack
    <3>2. \A o \in GrayLists(m) : ~IsWhite(m, o) /\ m.kind[o] \notin {"free", "string", "udata", "open", "closed"}
      BY <1>7, <2>1, <2>2, <2>3, <2>4, <3>1 DEF Loose, Filed
    <3>3. QED
      BY <1>7, <2>1, <3>2 DEF Loose, Filed
  <2>7. Tidy(m, {})
    <3>1. \A o \in GrayLists(m) : m.col[o] = "gray"
      BY <1>6, <1>7, <2>1, <2>2, <2>4 DEF Loose, Tidy
    <3>2. m.gray \cap Others(m) = {}
      BY <1>7, <2>1, <2>2, <2>5 DEF Loose, Tidy, GrayLists
    <3>3. \A o \in Live(m) \ {} : m.col[o] = "gray" /\ m.kind[o] # "open" => o \in GrayLists(m)
      BY <1>6, <1>7, <1>8, <2>1, <2>2 DEF Loose, Tidy, Live
    <3>4. QED
      BY <3>1, <3>2, <3>3 DEF Tidy
  <2>8. Blacks(m, {})
    BY <1>6, <1>7, <1>8, <1>9, <2>1 DEF Blacks, Loose, Live
  <2>9. ~IsWhite(m, Main)
    BY <1>2, <1>6, <1>7, <2>1, Names DEF Loose, IsWhite
  <2>10. QED
    BY <1>7, <1>8, <2>1, <2>6, <2>7, <2>8, <2>9 DEF Loose
<1>12. ASSUME g.state # "propagate"
       PROVE  Sweeping(m)
  <2>1. Sweeping(g) /\ l = g.grayagain
    BY <1>1, <1>3, <1>12 DEF Phase
  <2>2. Still(g, m)
    BY <1>7, <2>1 DEF Still, SameGray, SameLists
  <2>3. \A A : Swept1(g, A) => Swept1(m, A)
    <3>1. g.col[t] # g.white
      BY <1>1 DEF IsBlack
    <3>2. QED
      BY <1>6, <1>7, <3>1, Names DEF Swept1
  <2>4. Extends(g.allgc, m.allgc) /\ Extends(g.finobj, m.finobj)
    BY <1>7 DEF Extends
  <2>5. \A x \in g.strings : m.kind[x] = "string"
    BY <1>7, <2>1 DEF Sweeping, Strings, Of
  <2>6. \A u \in Objs : m.kind[u] = "open" => m.col[u] = g.col[u]
    BY <1>2, <1>6, <1>7, Names DEF NeverBlack
  <2>7. m.col[Main] = g.col[Main]
    BY <1>2, <1>6, <1>7, Names
  <2>8. QED
    BY <1>7, <2>1, <2>2, <2>3, <2>4, <2>5, <2>6, <2>7, SweepingKept
<1>13. m.state # "atomic" /\ m.state = g.state
  BY <1>7 DEF Phase
<1>14. Phase(m, {})
  BY <1>10, <1>11, <1>12, <1>13 DEF Phase
<1>15. Recolors(g, m)
  BY <1>7, <1>8 DEF Recolors
<1>16. ~IsBlack(m, t)
  BY <1>6, <1>7 DEF IsBlack
<1>17. QED
  BY <1>5, <1>14, <1>15, <1>16

\* luaC_barrierback
LEMMA BackPhase ==
    ASSUME NEW g, NEW t, NEW v, NEW V, Phase(g, {t}), t \in Sound(g), v \in Bodies \cup {Nil},
           g.kind[t] \notin {"string", "udata", "closed"}, Barred(g, t, V \cup {v}), NEW m,
           m = BarrierBack(g, t, v)
    PROVE  Phase(m, {t}) /\ Recolors(g, m) /\ Barred(m, t, V)
<1>1. g \in Heap /\ t \in Bodies
  BY PhaseFacts
<1>2. CASE v = Nil \/ ~(IsBlack(g, t) /\ IsWhite(g, v))
  <2>1. m = g
    BY <1>2 DEF BarrierBack
  <2>2. v = Nil \/ (v \in Bodies /\ ~IsWhite(g, v)) \/ ~IsBlack(g, t)
    BY <1>2
  <2>3. Barred(g, t, V)
    BY <1>1, <2>2, BarredLess
  <2>4. Recolors(g, g)
    BY <1>1 DEF Recolors
  <2>5. QED
    BY <2>1, <2>3, <2>4
<1>3. CASE v # Nil /\ IsBlack(g, t) /\ IsWhite(g, v)
  <2>1. m = Grayed(g, t)
    BY <1>3 DEF BarrierBack, Grayed
  <2>2. Phase(Grayed(g, t), {}) /\ Recolors(g, Grayed(g, t)) /\ ~IsBlack(Grayed(g, t), t)
    BY <1>3, GrayedPhase
  <2>3. Phase(Grayed(g, t), {t})
    BY <2>2, PhaseMore
  <2>4. Barred(Grayed(g, t), t, V)
    BY <2>2 DEF Barred
  <2>5. QED
    BY <2>1, <2>2, <2>3, <2>4
<1>4. QED
  BY <1>2, <1>3

\* A store into a live object that the barriers have still to look at.
LEMMA PutBarred ==
    ASSUME NEW g, NEW m, NEW o, NEW k, NEW v, Phase(g, {}), Puts(g, m, o, k, v), MayPut(g, o, k, v)
    PROVE  /\ Barred(m, o, {v} \cup {k})
           /\ k \notin Objs \/ v = Nil \/ g.val[o][k] # Nil => Barred(m, o, {v})
<1>1. /\ Phase(m, {o}) /\ m.kind = g.kind /\ m.col = g.col /\ m.state = g.state
      /\ \A S : RefsIn(g, o, S) /\ v \in S \cup {Nil} /\ (k \in Objs /\ v # Nil => k \in S) => RefsIn(m, o, S)
  BY PutPhase
<1>2. NonWhite(m) = NonWhite(g) /\ (IsBlack(m, o) <=> IsBlack(g, o))
  BY <1>1 DEF NonWhite, IsWhite, IsBlack
<1>3. SUFFICES ASSUME g.state = "propagate", IsBlack(g, o)
               PROVE  /\ RefsIn(m, o, NonWhite(g) \cup ({v} \cup {k}))
                      /\ k \notin Objs \/ v = Nil \/ g.val[o][k] # Nil => RefsIn(m, o, NonWhite(g) \cup {v})
  BY <1>1, <1>2 DEF Barred
<1>4. RefsIn(g, o, NonWhite(g))
  BY <1>3 DEF Phase, Loose, Blacks, IsBlack, MayPut
<1>5. \A S : RefsIn(g, o, NonWhite(g) \cup S)
  BY <1>4 DEF RefsIn, ValuesIn, KeysIn, UpIn
<1>6. RefsIn(m, o, NonWhite(g) \cup ({v} \cup {k}))
  <2>1. PICK S : S = NonWhite(g) \cup ({v} \cup {k})
    OBVIOUS
  <2>2. RefsIn(g, o, S) /\ v \in S /\ k \in S
    BY <1>5, <2>1
  <2>3. QED
    BY <1>1, <2>1, <2>2
<1>7. k \notin Objs \/ v = Nil \/ g.val[o][k] # Nil => RefsIn(m, o, NonWhite(g) \cup {v})
  <2>1. SUFFICES ASSUME k \notin Objs \/ v = Nil \/ g.val[o][k] # Nil
                 PROVE  RefsIn(m, o, NonWhite(g) \cup {v})
    OBVIOUS
  <2>2. PICK S : S = NonWhite(g) \cup {v}
    OBVIOUS
  <2>3. RefsIn(g, o, S) /\ v \in S
    BY <1>5, <2>2
  <2>4. k \in Objs /\ v # Nil => k \in S
    BY <2>1, <2>3 DEF RefsIn, KeysIn
  <2>5. QED
    BY <1>1, <2>2, <2>3, <2>4
<1>8. QED
  BY <1>6, <1>7

-----------------------------------------------------------------------------
IInv == Phase(h, {})

\* What a script holds is not dead.
LEMMA StackIs ==
    ASSUME IInv
    PROVE  /\ h \in Heap /\ \A o \in OnStack : o \in Objs /\ o \in Sound(h) /\ o \in Bodies /\ o \in Live(h)
           /\ Values \subseteq OnStack /\ Nil \notin OnStack
<1>1. h \in Heap /\ Solid(h) /\ Main \in Sound(h)
  BY PhaseFacts DEF IInv
<1>2. h.val \in [Bodies -> [Keys -> Objs \cup {Nil}]]
  BY <1>1, HeapTypes
<1>3. \A s \in Slots : Reg(s) \in Objs \cup {Nil} /\ Reg(s) \in Sound(h) \cup {Nil}
  BY <1>1, <1>2, Names DEF Reg, Solid, RefsIn, ValuesIn
<1>4. QED
  BY <1>1, <1>3, Names DEF OnStack, Values, Sound

\* lua_settop, lua_pushvalue and the like: a register is set.
LEMMA RegSet ==
    ASSUME NEW g, Phase(g, {}), NEW r \in Slots, NEW v, v \in Objs \cup {Nil}, v \in Sound(g) \cup {Nil}
    PROVE  Phase(SetReg(g, r, v), {})
<1>1. g \in Heap /\ Main \in Bodies /\ r \in Keys
  BY PhaseFacts, Names
<1>2. Puts(g, SetReg(g, r, v), Main, r, v)
  BY <1>1 DEF Puts, SetReg
<1>3. QED
  BY <1>2, SlotSet

\* lua_pushvalue, lua_settop and the like
LEMMA MoveKeeps ==
    ASSUME IInv, NEW r \in Regs, NEW v \in Values \cup {Nil}, Move(r, v)
    PROVE  IInv'
<1>1. v \in Objs \cup {Nil} /\ v \in Sound(h) \cup {Nil} /\ r \in Slots
  BY StackIs, Names
<1>2. Phase(SetReg(h, r, v), {})
  BY <1>1, RegSet DEF IInv
<1>3. QED
  BY <1>2 DEF Move, IInv

\* What a script can load is not dead.
LEMMA RefIs ==
    ASSUME IInv, NEW o \in Sound(h), NEW k \in Keys
    PROVE  h.val[o][k] \in Objs \cup {Nil} /\ h.val[o][k] \in Sound(h) \cup {Nil}
<1>1. h \in Heap /\ Solid(h) /\ o \in Bodies
  BY PhaseFacts DEF IInv
<1>2. h.val \in [Bodies -> [Keys -> Objs \cup {Nil}]]
  BY <1>1, HeapTypes
<1>3. QED
  BY <1>1, <1>2 DEF Solid, RefsIn, ValuesIn

\* luaV_gettable and the like
LEMMA LoadKeeps ==
    ASSUME IInv, NEW r \in Regs, NEW o \in OnStack, NEW k \in Keys, Load(r, o, k)
    PROVE  IInv'
<1>1. r \in Slots /\ o \in Sound(h)
  BY StackIs, Names
<1>2. h.val[o][k] \in Objs \cup {Nil} /\ h.val[o][k] \in Sound(h) \cup {Nil}
  BY <1>1, RefIs
<1>3. Phase(SetReg(h, r, h.val[o][k]), {})
  BY <1>1, <1>2, RegSet DEF IInv
<1>4. QED
  BY <1>3 DEF Load, IInv

\* luaH_next
LEMMA LoadKeyKeeps ==
    ASSUME IInv, NEW r \in Regs, NEW o \in OnStack, NEW k \in Keys, LoadKey(r, o, k)
    PROVE  IInv'
<1>1. r \in Slots /\ o \in Sound(h) /\ Solid(h)
  BY StackIs, PhaseFacts, Names DEF IInv
<1>2. k \in Objs /\ k \in Sound(h)
  BY <1>1 DEF LoadKey, KeysOf, Solid, RefsIn, KeysIn
<1>3. Phase(SetReg(h, r, k), {})
  BY <1>1, <1>2, RegSet DEF IInv
<1>4. QED
  BY <1>3 DEF LoadKey, IInv

\* The upvalue of a Lua function the program has.
LEMMA UpvalIs ==
    ASSUME IInv, NEW c \in OnStack, h.kind[c] = "lclosure"
    PROVE  LET u == h.val[c][2]
           IN /\ u \in Objs /\ u \in Sound(h) /\ h.kind[u] \in {"open", "closed"}
              /\ UpValue(h, u) \in Objs \cup {Nil} /\ UpValue(h, u) \in Sound(h) \cup {Nil}
<1>1. c \in Sound(h) /\ h \in Heap /\ Shaped(h) /\ Solid(h) /\ 2 \in Keys
  BY StackIs, PhaseFacts, Names DEF IInv
<1>2. PICK u : u = h.val[c][2]
  OBVIOUS
<1>3. u \in Objs \cup {Nil} /\ u \in Sound(h) \cup {Nil}
  BY <1>1, <1>2, RefIs
<1>4. u # Nil /\ h.kind[u] \in {"open", "closed"}
  BY <1>1, <1>2 DEF Solid, Closing
<1>5. u \in Objs /\ u \in Sound(h) /\ u \in Bodies
  BY <1>3, <1>4, Names
<1>6. UpValue(h, u) \in Objs \cup {Nil} /\ UpValue(h, u) \in Sound(h) \cup {Nil}
  <2>1. CASE h.kind[u] = "open"
    BY <1>1, <1>5, <2>1, UpType DEF Solid, RefsIn, UpIn
  <2>2. CASE h.kind[u] # "open"
    <3>1. UpValue(h, u) = h.val[u][1]
      BY <2>2 DEF UpValue
    <3>2. QED
      BY <1>5, <3>1, RefIs, Names
  <2>3. QED
    BY <2>1, <2>2
<1>7. QED
  BY <1>2, <1>4, <1>5, <1>6

\* OP_GETUPVAL
LEMMA GetUpvalKeeps ==
    ASSUME IInv, NEW r \in Regs, NEW c \in OnStack, GetUpval(r, c)
    PROVE  IInv'
<1>1. PICK v : v = UpValue(h, h.val[c][2])
  OBVIOUS
<1>2. h.kind[c] = "lclosure" /\ h' = SetReg(h, r, v)
  BY <1>1 DEF GetUpval
<1>3. v \in Objs \cup {Nil} /\ v \in Sound(h) \cup {Nil}
  BY <1>1, <1>2, UpvalIs
<1>4. Phase(SetReg(h, r, v), {})
  BY <1>3, RegSet, Names DEF IInv
<1>5. QED
  BY <1>2, <1>4 DEF IInv

\* OP_SETUPVAL with luaC_upvalbarrier
LEMMA SetUpvalKeeps ==
    ASSUME IInv, NEW c \in OnStack, NEW v \in Values \cup {Nil}, SetUpval(c, v)
    PROVE  IInv'
<1>1. /\ v \in Objs \cup {Nil} /\ v \in Sound(h) \cup {Nil} /\ v \in Bodies \cup {Nil} /\ h \in Heap
      /\ Shaped(h) /\ Phase(h, {}) /\ Colored(h)
  BY StackIs, PhaseFacts DEF IInv
<1>2. PICK u : u = h.val[c][2]
  OBVIOUS
<1>3. h.kind[c] = "lclosure"
  BY DEF SetUpval
<1>4. u \in Objs /\ u \in Sound(h) /\ h.kind[u] \in {"open", "closed"} /\ u \in Bodies /\ u # Main
  BY <1>2, <1>3, UpvalIs, Names
<1>5. CASE h.kind[u] = "open"
  <2>1. PICK th, s : th = h.at[u][1] /\ s = h.at[u][2]
    OBVIOUS
  <2>2. th \in Bodies /\ s \in Keys /\ h.kind[th] = "thread" /\ s \in Room(h, th) /\ s \in Regs
    BY <1>1, <1>4, <1>5, <2>1, OpenAt DEF Shaped
  <2>3. PICK g : Puts(h, g, th, s, v) /\ h' = Barrier(g, u, v)
    BY <1>1, <1>2, <1>5, <2>1, <2>2, Zenon DEF SetUpval, Puts
  <2>4. MayPut(h, th, s, v)
    BY <1>1, <2>2, Names DEF MayPut, Live
  <2>5. ~IsBlack(h, th) /\ ~IsBlack(h, u)
    BY <1>1, <1>4, <1>5, <2>2 DEF Colored, NeverBlack, IsBlack
  <2>6. Phase(g, {}) /\ g.col = h.col
    BY <1>1, <2>3, <2>4, <2>5, PutPhase
  <2>7. Barrier(g, u, v) = g
    BY <2>5, <2>6 DEF Barrier, IsBlack
  <2>8. QED
    BY <2>3, <2>6, <2>7 DEF IInv
<1>6. CASE h.kind[u] = "closed"
  <2>1. PICK g : Puts(h, g, u, 1, v) /\ h' = Barrier(g, u, v)
    <3>1. 1 \in Keys
      BY Names
    <3>2. QED
      BY <1>1, <1>2, <1>4, <1>6, <3>1 DEF SetUpval, Puts
  <2>2. MayPut(h, u, 1, v)
    <3>1. Room(h, u) = {1} /\ 1 \notin Objs
      BY <1>4, <1>6, Names DEF Room, Tables
    <3>2. QED
      BY <1>1, <1>4, <1>6, <3>1 DEF MayPut, Sound
  <2>3. Phase(g, {u}) /\ Sound(g) = Sound(h) /\ g.kind = h.kind
    BY <1>1, <2>1, <2>2, PutPhase
  <2>4. Barred(g, u, {v})
    <3>1. 1 \notin Objs
      BY Names
    <3>2. QED
      BY <1>1, <2>1, <2>2, <3>1, PutBarred
  <2>5. Phase(Barrier(g, u, v), {})
    BY <1>1, <1>4, <2>3, <2>4, BarrierPhase
  <2>6. QED
    BY <2>1, <2>5 DEF IInv
<1>7. QED
  BY <1>4, <1>5, <1>6

\* What a script may store into, and what may get a finalizer.
LEMMA CastIs ==
    ASSUME NEW g \in Heap, Cast(g), NEW o \in Objs, g.kind[o] # "free"
    PROVE  /\ \A k \in g.cast[o].fields :
                /\ k \in Room(g, o) /\ (k = 1 \/ k \in Objs)
                /\ g.kind[o] \in Tables \cup {"udata", "cclosure", "thread"}
           /\ g.cast[o].gc => g.kind[o] \in Tables \cup {"udata"}
<1>1. g.cast[o] \in CastOf /\ o # Main
  BY HeapTypes, Names
<1>2. g.cast[o].kind = IF g.kind[o] = "closed" THEN "open" ELSE g.kind[o]
  BY DEF Cast
<1>3. CASE g.cast[o].kind \in Tables
  <2>1. g.cast[o].fields \subseteq {1} \cup Objs /\ g.kind[o] \in Tables
    BY <1>1, <1>2, <1>3 DEF CastOf, Tables
  <2>2. QED
    BY <1>1, <2>1 DEF Room
<1>4. CASE g.cast[o].kind \in {"udata", "cclosure", "thread"}
  <2>1. /\ g.cast[o].fields \subseteq {1} /\ g.kind[o] \in {"udata", "cclosure", "thread"}
        /\ g.cast[o].gc => g.kind[o] = "udata"
    BY <1>1, <1>2, <1>4 DEF CastOf, Tables
  <2>2. QED
    BY <1>1, <2>1 DEF Room, Tables
<1>5. CASE g.cast[o].kind \in {"string", "proto", "lclosure", "open", "none"}
  <2>1. g.cast[o].fields = {} /\ g.cast[o].gc = FALSE
    BY <1>1, <1>5 DEF CastOf, Tables
  <2>2. QED
    BY <2>1
<1>6. g.cast[o].kind \in Tables \cup {"udata", "cclosure", "thread"} \cup {"string", "proto", "lclosure", "open", "none"}
  BY <1>1 DEF CastOf
<1>7. QED
  BY <1>3, <1>4, <1>5, <1>6

\* Stores with the barriers of their kind
LEMMA StoreKeeps ==
    ASSUME IInv, NEW o \in OnStack, NEW k \in Keys, NEW v \in Values \cup {Nil}, Store(o, k, v)
    PROVE  IInv'
<1>1. /\ v \in Objs \cup {Nil} /\ v \in Sound(h) \cup {Nil} /\ v \in Bodies \cup {Nil} /\ h \in Heap
      /\ o \in Objs /\ o \in Sound(h) /\ o \in Bodies /\ o \in Live(h) /\ Phase(h, {}) /\ Colored(h) /\ Cast(h)
      /\ h.kind[o] # "free"
  BY StackIs, PhaseFacts DEF IInv, Live
<1>2. PICK g : /\ Puts(h, g, o, k, v)
               /\ h' = IF h.kind[o] = "thread" THEN g
                       ELSE IF h.kind[o] \notin Tables THEN Barrier(g, o, v)
                       ELSE TableBarriers(g, o, k, v)
  BY <1>1, Zenon DEF Store, Puts
<1>3. k \in h.cast[o].fields /\ k \in {1} \cup Values
  BY DEF Store, Fields
<1>4. /\ k \in Room(h, o) /\ h.kind[o] \in Tables \cup {"udata", "cclosure", "thread"}
      /\ (k \in Objs => k \in Sound(h)) /\ k \in Bodies \cup {1}
  BY <1>1, <1>3, CastIs, StackIs, Names
<1>5. MayPut(h, o, k, v)
  BY <1>1, <1>4 DEF MayPut, Tables
<1>6. Phase(g, {o}) /\ Sound(g) = Sound(h) /\ g.kind = h.kind /\ (~IsBlack(h, o) => Phase(g, {}))
  BY <1>1, <1>2, <1>5, PutPhase
<1>7. CASE h.kind[o] = "thread"
  <2>1. h' = g
    BY <1>2, <1>7
  <2>2. ~IsBlack(h, o)
    BY <1>1, <1>7 DEF Colored, NeverBlack, IsBlack
  <2>3. QED
    BY <1>6, <2>1, <2>2 DEF IInv
<1>8. CASE h.kind[o] \in {"udata", "cclosure"}
  <2>1. h' = Barrier(g, o, v)
    BY <1>2, <1>8 DEF Tables
  <2>2. k \notin Objs
    BY <1>4, <1>8, <1>1, Names DEF Room, Tables
  <2>3. Barred(g, o, {v})
    BY <1>1, <1>2, <1>5, <2>2, PutBarred
  <2>4. Phase(Barrier(g, o, v), {})
    BY <1>1, <1>6, <2>3, BarrierPhase
  <2>5. QED
    BY <2>1, <2>4 DEF IInv
<1>9. CASE h.kind[o] \in Tables
  <2>1. h' = TableBarriers(g, o, k, v)
    BY <1>2, <1>9 DEF Tables
  <2>2. PICK n : n = IF k \in Objs /\ h.val[o][k] = Nil /\ v # Nil THEN BarrierBack(g, o, k) ELSE g
    OBVIOUS
  <2>3. PICK m : m = BarrierBack(n, o, v)
    OBVIOUS
  <2>4. h' = m
    BY <2>1, <2>2, <2>3 DEF TableBarriers
  <2>5. g.kind[o] \notin {"string", "udata", "closed"}
    BY <1>6, <1>9 DEF Tables
  <2>6. Barred(g, o, {v} \cup {k}) /\ (k \notin Objs \/ v = Nil \/ h.val[o][k] # Nil => Barred(g, o, {v}))
    BY <1>1, <1>2, <1>5, PutBarred
  <2>7. Phase(n, {o}) /\ o \in Sound(n) /\ n.kind[o] = g.kind[o] /\ Barred(n, o, {v})
    <3>1. CASE k \in Objs /\ h.val[o][k] = Nil /\ v # Nil
      <4>1. n = BarrierBack(g, o, k) /\ k \in Bodies \cup {Nil} /\ o \in Sound(g)
        BY <1>1, <1>6, <2>2, <3>1, Names
      <4>2. Phase(n, {o}) /\ Recolors(g, n) /\ Barred(n, o, {v})
        BY <1>6, <2>5, <2>6, <4>1, BackPhase
      <4>3. QED
        BY <4>1, <4>2 DEF Recolors
    <3>2. CASE ~(k \in Objs /\ h.val[o][k] = Nil /\ v # Nil)
      <4>1. n = g
        BY <2>2, <3>2
      <4>2. QED
        BY <1>1, <1>6, <2>6, <3>2, <4>1
    <3>3. QED
      BY <3>1, <3>2
  <2>8. Phase(m, {o}) /\ Barred(m, o, {})
    <3>1. {} \cup {v} = {v}
      OBVIOUS
    <3>2. Barred(n, o, {} \cup {v})
      BY <2>7, <3>1
    <3>3. QED
      BY <1>1, <2>3, <2>5, <2>7, <3>2, BackPhase
  <2>9. Phase(m, {})
    BY <2>8, BarredPhase
  <2>10. QED
    BY <2>4, <2>9 DEF IInv
<1>10. QED
  BY <1>4, <1>7, <1>8, <1>9

\* m is g with a new object o, which refers to what the program has.
Aside(g, m, o) ==
  /\ \A x \in Bodies : x # o => m.kind[x] = g.kind[x] /\ m.val[x] = g.val[x] /\ m.col[x] = g.col[x]
  /\ \A x \in Objs : x # o => m.at[x] = g.at[x]
  /\ m.cast = g.cast /\ Still(g, m) /\ m.finobj = g.finobj /\ m.finalized = g.finalized

Binds(g, m, o) ==
  IF m.kind[o] # "open" THEN m.at[o] = Nil
  ELSE \E th \in Sound(g), s \in Regs :
         /\ m.at[o] = <<th, s>> /\ g.kind[th] = "thread" /\ s \in Room(g, th)
         /\ \A u \in Objs : g.at[u] # <<th, s>>

Births(g, m, o) ==
  /\ m \in Heap /\ o \in Objs /\ g.kind[o] = "free" /\ Aside(g, m, o)
  /\ m.kind[o] \notin {"free", "closed"} /\ m.kind[o] = g.cast[o].kind /\ m.col[o] = g.white
  /\ \A k \in Keys : m.val[o][k] # Nil => k \in Room(m, o) \ Objs /\ m.val[o][k] \in Sound(g)
  /\ Closing(m, o) /\ Binds(g, m, o)
  /\ IF m.kind[o] \in {"string", "open"} THEN m.allgc = g.allgc ELSE Heads(m.allgc, o, g.allgc)

\* A new object is live, not dead and white.
LEMMA BornSets ==
    ASSUME NEW g, NEW X, Phase(g, X), NEW m, NEW o, Births(g, m, o)
    PROVE  /\ Live(m) = Live(g) \cup {o} /\ Sound(m) = Sound(g) \cup {o}
           /\ NonWhite(m) = NonWhite(g) \ {o} /\ o \notin Live(g) /\ o \in Bodies /\ o # Main
<1>1. /\ g.white \in {"white0", "white1"} /\ g.white # Other(g.white) /\ o \in Bodies /\ o # Main
      /\ m.white = g.white
  BY PhaseFacts, Names DEF Births, Aside, Still
<1>2. /\ \A x \in Bodies : x # o => m.kind[x] = g.kind[x] /\ m.col[x] = g.col[x]
      /\ g.kind[o] = "free" /\ m.kind[o] # "free" /\ m.col[o] = g.white
  BY DEF Births, Aside
<1>3. IsWhite(m, o) /\ \A x \in Bodies : x # o => (IsWhite(m, x) <=> IsWhite(g, x))
  BY <1>1, <1>2 DEF IsWhite
<1>4. QED
  BY <1>1, <1>2, <1>3 DEF Live, Sound, NonWhite

\* It has the shape of its kind.
LEMMA BornShaped ==
    ASSUME NEW g, NEW X, Phase(g, X), NEW m, NEW o, Births(g, m, o)
    PROVE  Shaped(m) /\ \A x \in Bodies : x # o => Room(m, x) = Room(g, x)
<1>1. /\ g \in Heap /\ Shaped(g) /\ Cast(g) /\ Roomy(g) /\ Opened(g) /\ Colored(g) /\ g.kind[Main] = "thread"
      /\ g.white \in {"white0", "white1"} /\ Sound(g) \subseteq Bodies
  BY PhaseFacts DEF Shaped, Sound, Live
<1>2. /\ \A x \in Bodies : x # o => m.kind[x] = g.kind[x] /\ m.val[x] = g.val[x] /\ m.col[x] = g.col[x]
      /\ \A x \in Objs : x # o => m.at[x] = g.at[x]
      /\ g.kind[o] = "free" /\ m.kind[o] \notin {"free", "closed"} /\ m.col[o] = g.white /\ o \in Objs
      /\ m.cast = g.cast /\ m.kind[o] = g.cast[o].kind
      /\ \A k \in Keys : m.val[o][k] # Nil => k \in Room(m, o)
  BY DEF Births, Aside
<1>3. o \in Bodies /\ o # Main
  BY <1>2, Names
<1>4. \A x \in Bodies : x # o => Room(m, x) = Room(g, x)
  BY <1>2 DEF Room
<1>5. Roomy(m)
  BY <1>1, <1>2, <1>4 DEF Roomy
<1>6. Cast(m) /\ m.kind[Main] = "thread"
  BY <1>1, <1>2, <1>3, Names DEF Cast
<1>7. Colored(m)
  BY <1>1, <1>2 DEF Colored, NeverBlack
<1>8. g.at[o] = Nil
  BY <1>1, <1>2 DEF Opened
<1>9. \A x \in Objs : m.at[x] # Nil <=> m.kind[x] = "open"
  <2>1. m.at[o] # Nil <=> m.kind[o] = "open"
    <3>1. \A a \in Bodies, b \in Slots : <<a, b>> # Nil
      BY GCAssumption
    <3>2. CASE m.kind[o] # "open"
      BY <3>2 DEF Births, Binds
    <3>3. CASE m.kind[o] = "open"
      <4>1. PICK th \in Sound(g), s \in Regs : m.at[o] = <<th, s>>
        BY <3>3 DEF Births, Binds
      <4>2. th \in Bodies /\ s \in Slots
        BY <1>1, Names
      <4>3. QED
        BY <3>1, <3>3, <4>1, <4>2
    <3>4. QED
      BY <3>2, <3>3
  <2>2. QED
    BY <1>1, <1>2, <2>1, Names DEF Opened
<1>10. ASSUME NEW x \in Objs, m.kind[x] = "open"
       PROVE  /\ m.kind[m.at[x][1]] = "thread" /\ m.at[x][2] \in Room(m, m.at[x][1])
              /\ \A u \in Objs : m.at[u] = m.at[x] => u = x
  <2>1. CASE x = o
    <3>1. PICK th \in Sound(g), s \in Regs :
            /\ m.at[o] = <<th, s>> /\ g.kind[th] = "thread" /\ s \in Room(g, th)
            /\ \A u \in Objs : g.at[u] # <<th, s>>
      BY <1>10, <2>1 DEF Births, Binds
    <3>2. th \in Bodies /\ th # o
      BY <1>1, <1>2, <3>1
    <3>3. QED
      BY <1>2, <1>4, <2>1, <3>1, <3>2
  <2>2. CASE x # o
    <3>1. g.kind[x] = "open" /\ m.at[x] = g.at[x]
      BY <1>2, <1>10, <2>2, Names
    <3>2. /\ g.at[x][1] \in Bodies /\ g.kind[g.at[x][1]] = "thread" /\ g.at[x][2] \in Room(g, g.at[x][1])
          /\ \A u \in Objs : g.at[u] = g.at[x] => u = x
      BY <1>1, <3>1, OpenAt DEF Opened
    <3>3. g.at[x][1] # o
      BY <1>2, <3>2
    <3>4. m.at[o] # g.at[x]
      <4>1. m.at[o] = Nil \/ \A u \in Objs : g.at[u] # m.at[o]
        BY DEF Births, Binds
      <4>2. g.at[x] # Nil
        BY <1>1, <3>1 DEF Opened
      <4>3. QED
        BY <4>1, <4>2
    <3>5. QED
      BY <1>2, <1>4, <3>1, <3>2, <3>3, <3>4
  <2>3. QED
    BY <2>1, <2>2
<1>11. QED
  BY <1>4, <1>5, <1>6, <1>7, <1>9, <1>10 DEF Shaped, Opened

\* It is on one list.
LEMMA BornListed ==
    ASSUME NEW g, NEW X, Phase(g, X), NEW m, NEW o, Births(g, m, o)
    PROVE  /\ ListedBut(m, {}) /\ Extends(g.allgc, m.allgc) /\ m.finobj = g.finobj /\ m.tobefnz = g.tobefnz
           /\ m.cast = g.cast
<1>1. /\ ListedBut(g, {}) /\ g.allgc \in Seq(Objs) /\ o \in Objs /\ g.kind[o] = "free"
      /\ m.finobj = g.finobj /\ m.tobefnz = g.tobefnz /\ m.cast = g.cast
      /\ \A x \in Objs : x # o => m.kind[x] = g.kind[x]
      /\ m.kind[o] # "free"
  BY PhaseFacts, HeapTypes, Names DEF Births, Aside, Still
<1>2. o \notin Range(g.allgc) \cup Range(g.finobj) \cup Range(g.tobefnz)
  BY <1>1 DEF ListedBut
<1>3. CASE m.kind[o] \in {"string", "open"}
  <2>1. m.allgc = g.allgc
    BY <1>3 DEF Births
  <2>2. \A x \in Objs : m.kind[x] \notin {"free", "string", "open"} /\ x \notin {} <=>
                        x \in Range(m.allgc) \cup Range(m.finobj) \cup Range(m.tobefnz)
    BY <1>1, <1>2, <1>3, <2>1 DEF ListedBut
  <2>3. QED
    BY <1>1, <2>1, <2>2 DEF ListedBut, Extends
<1>4. CASE m.kind[o] \notin {"string", "open"}
  <2>1. Heads(m.allgc, o, g.allgc)
    BY <1>4 DEF Births
  <2>2. /\ Range(m.allgc) = {o} \cup Range(g.allgc) /\ Extends(g.allgc, m.allgc)
        /\ Distinct(g.allgc) /\ o \notin Range(g.allgc) => Distinct(m.allgc)
    BY <1>1, <2>1, Prepended, HeadsExtend
  <2>3. \A x \in Objs : m.kind[x] \notin {"free", "string", "open"} /\ x \notin {} <=>
                        x \in Range(m.allgc) \cup Range(m.finobj) \cup Range(m.tobefnz)
    BY <1>1, <1>2, <1>4, <2>2 DEF ListedBut
  <2>4. Apart(m.allgc, m.finobj) /\ Apart(m.allgc, m.tobefnz)
    BY <1>1, <1>2, <2>2 DEF ListedBut, Apart
  <2>5. QED
    BY <1>1, <1>2, <2>2, <2>3, <2>4 DEF ListedBut
<1>5. QED
  BY <1>3, <1>4

\* It refers to nothing dead.
LEMMA BornSolid ==
    ASSUME NEW g, NEW X, Phase(g, X), NEW m, NEW o, Births(g, m, o)
    PROVE  /\ Solid(m)
           /\ \A x \in Bodies : \A S : x # o /\ RefsIn(g, x, S) => RefsIn(m, x, S)
<1>1. /\ g \in Heap /\ Shaped(g) /\ Solid(g) /\ Sound(g) \subseteq Bodies /\ Nil \notin Sound(g)
      /\ Opened(g)
  BY PhaseFacts, Names DEF Sound, Live
<1>2. /\ \A x \in Bodies : x # o => m.kind[x] = g.kind[x] /\ m.val[x] = g.val[x]
      /\ \A x \in Objs : x # o => m.at[x] = g.at[x]
      /\ g.kind[o] = "free" /\ m.kind[o] \notin {"free", "closed"} /\ o \in Objs
      /\ \A k \in Keys : m.val[o][k] # Nil => k \notin Objs /\ m.val[o][k] \in Sound(g)
      /\ Closing(m, o)
  BY DEF Births, Aside
<1>3. Sound(m) = Sound(g) \cup {o} /\ o \notin Sound(g)
  BY BornSets DEF Sound
<1>4. ASSUME NEW x \in Bodies, NEW S, x # o, RefsIn(g, x, S)
      PROVE  RefsIn(m, x, S)
  <2>1. UpIn(m, x, S)
    <3>1. SUFFICES ASSUME g.kind[x] = "open"
                   PROVE  UpValue(m, x) = UpValue(g, x)
      BY <1>2, <1>4 DEF RefsIn, UpIn
    <3>2. x \in Objs
      BY <1>1, <3>1, <1>4 DEF Shaped, Bodies
    <3>3. g.at[x][1] \in Bodies /\ g.kind[g.at[x][1]] = "thread" /\ m.at[x] = g.at[x]
      BY <1>1, <1>2, <1>4, <3>1, <3>2, OpenAt
    <3>4. m.val[g.at[x][1]] = g.val[g.at[x][1]]
      BY <1>2, <3>3
    <3>5. QED
      BY <1>2, <1>4, <3>1, <3>3, <3>4 DEF UpValue
  <2>2. QED
    BY <1>2, <1>4, <2>1 DEF RefsIn, ValuesIn, KeysIn
<1>5. \A x, S, T : RefsIn(m, x, S) /\ S \subseteq T => RefsIn(m, x, T)
  BY DEF RefsIn, ValuesIn, KeysIn, UpIn
<1>6. ASSUME NEW x \in Sound(g)
      PROVE  RefsIn(m, x, Sound(m)) /\ Closing(m, x)
  <2>1. x \in Bodies /\ x # o /\ RefsIn(g, x, Sound(g)) /\ Closing(g, x)
    BY <1>1, <1>3 DEF Solid
  <2>2. RefsIn(m, x, Sound(m))
    BY <1>3, <1>4, <1>5, <2>1
  <2>3. Closing(m, x)
    <3>1. SUFFICES ASSUME g.kind[x] = "lclosure"
                   PROVE  g.val[x][2] # Nil /\ m.kind[g.val[x][2]] \in {"open", "closed"}
      BY <1>2, <2>1 DEF Closing
    <3>2. g.val[x][2] # Nil /\ g.kind[g.val[x][2]] \in {"open", "closed"}
      BY <2>1, <3>1 DEF Closing
    <3>3. g.val[x][2] \in Bodies /\ g.val[x][2] # o
      BY <1>1, <1>2, <2>1, <3>2, Names DEF RefsIn, ValuesIn
    <3>4. QED
      BY <1>2, <3>2, <3>3
  <2>4. QED
    BY <2>2, <2>3
<1>7. RefsIn(m, o, Sound(m))
  <2>1. ValuesIn(m, o, Sound(m))
    BY <1>2, <1>3 DEF ValuesIn
  <2>2. KeysIn(m, o, Sound(m))
    BY <1>2, Names DEF KeysIn
  <2>3. UpIn(m, o, Sound(m))
    <3>1. SUFFICES ASSUME m.kind[o] = "open"
                   PROVE  UpValue(m, o) \in Sound(g) \cup {Nil}
      BY <1>3 DEF UpIn
    <3>2. PICK th \in Sound(g), s \in Regs : m.at[o] = <<th, s>>
      BY <3>1 DEF Births, Binds
    <3>3. th \in Bodies /\ th # o /\ s \in Keys
      BY <1>1, <1>3, Names
    <3>4. UpValue(m, o) = g.val[th][s]
      BY <1>2, <3>1, <3>2, <3>3 DEF UpValue
    <3>5. QED
      BY <1>1, <3>3, <3>4 DEF Solid, RefsIn, ValuesIn
  <2>4. QED
    BY <2>1, <2>2, <2>3 DEF RefsIn
<1>8. Roots(m) = Roots(g)
  BY BornListed DEF Roots
<1>9. QED
  BY <1>1, <1>2, <1>3, <1>4, <1>6, <1>7, <1>8 DEF Solid

\* A new object
LEMMA Born ==
    ASSUME NEW g, NEW X, Phase(g, X), NEW m, NEW o, Births(g, m, o)
    PROVE  Phase(m, X)
<1>1. /\ Live(m) = Live(g) \cup {o} /\ Sound(m) = Sound(g) \cup {o}
      /\ NonWhite(m) = NonWhite(g) \ {o} /\ o \notin Live(g) /\ o \in Bodies /\ o # Main
  BY BornSets
<1>2. Shaped(m) /\ Solid(m) /\ ListedBut(m, {}) /\ Extends(g.allgc, m.allgc) /\ m.finobj = g.finobj
  BY BornShaped, BornSolid, BornListed
<1>3. /\ m \in Heap /\ Still(g, m) /\ m.col[o] = g.white
      /\ g.kind[o] = "free" /\ m.kind[o] # "free" /\ o \in Objs
      /\ \A x \in Bodies : x # o => m.kind[x] = g.kind[x] /\ m.col[x] = g.col[x]
      /\ \A x \in Objs : x # o => m.at[x] = g.at[x]
  BY DEF Births, Aside
<1>4. /\ g \in Heap /\ g.white \in {"white0", "white1"} /\ Colored(g) /\ Shaped(g) /\ Solid(g)
  BY PhaseFacts
<1>5. Structure(m, {})
  BY <1>2, <1>3 DEF Structure
<1>6. ASSUME g.state = "propagate"
      PROVE  Loose(m, X)
  <2>1. Loose(g, X)
    BY <1>6 DEF Phase
  <2>2. GrayLists(m) = GrayLists(g) /\ Others(m) = Others(g) /\ m.gray = g.gray /\ SameLists(g, m)
    BY <1>3 DEF Still, GrayLists, Others, SameGray, SameLists
  <2>3. \A x \in GrayLists(g) : x \in Bodies /\ x # o
    BY <1>3, <1>4, <2>1, HeapTypes DEF Loose, Filed
  <2>4. \A x \in Bodies : x # o => (IsWhite(m, x) <=> IsWhite(g, x))
    BY <1>3 DEF IsWhite
  <2>5. Filed(m)
    <3>1. \A x \in GrayLists(m) : ~IsWhite(m, x) /\ m.kind[x] \notin {"free", "string", "udata", "open", "closed"}
      BY <1>3, <2>1, <2>2, <2>3, <2>4 DEF Loose, Filed
    <3>2. \A x \in m.weak \cup m.ephemeron \cup m.allweak : m.kind[x] = g.kind[x]
      BY <1>3, <2>2, <2>3 DEF GrayLists
    <3>3. QED
      BY <2>1, <2>2, <3>1, <3>2 DEF Loose, Filed, SameLists
  <2>6. Tidy(m, {})
    <3>1. \A x \in GrayLists(m) : m.col[x] = "gray"
      BY <1>3, <2>1, <2>2, <2>3 DEF Loose, Tidy
    <3>2. \A x \in Live(m) : m.col[x] = "gray" /\ m.kind[x] # "open" => x \in GrayLists(m)
      BY <1>1, <1>3, <1>4, <2>1, <2>2 DEF Loose, Tidy, Live
    <3>3. QED
      BY <2>1, <2>2, <3>1, <3>2 DEF Loose, Tidy
  <2>7. Blacks(m, X)
    <3>1. SUFFICES ASSUME NEW x \in Live(m) \ X, m.col[x] = "black"
                   PROVE  RefsIn(m, x, NonWhite(m))
      BY DEF Blacks
    <3>2. x # o /\ x \in Bodies /\ x \in Live(g) /\ g.col[x] = "black" /\ x \in Sound(g)
      BY <1>1, <1>3, <1>4, <2>1, <3>1 DEF Live, Loose
    <3>3. RefsIn(g, x, NonWhite(g)) /\ RefsIn(g, x, Sound(g))
      BY <1>4, <2>1, <3>1, <3>2 DEF Loose, Blacks, Solid
    <3>4. RefsIn(g, x, NonWhite(g) \cap Sound(g))
      BY <3>3, Names DEF RefsIn, ValuesIn, KeysIn, UpIn
    <3>5. RefsIn(m, x, NonWhite(g) \cap Sound(g))
      BY <3>2, <3>4, BornSolid
    <3>6. NonWhite(g) \cap Sound(g) \subseteq NonWhite(m)
      BY <1>1 DEF Sound
    <3>7. QED
      BY <3>5, <3>6 DEF RefsIn, ValuesIn, KeysIn, UpIn
  <2>8. ~IsWhite(m, Main)
    BY <1>1, <2>1, <2>4, Names DEF Loose
  <2>9. QED
    BY <1>1, <1>3, <2>1, <2>5, <2>6, <2>7, <2>8 DEF Loose, Still
<1>7. ASSUME g.state # "propagate"
      PROVE  Sweeping(m)
  <2>1. Sweeping(g)
    BY <1>7 DEF Phase
  <2>2. \A x \in g.strings : m.kind[x] = "string"
    BY <1>3, <2>1, Names DEF Sweeping, Strings, Of
  <2>3. Extends(g.finobj, m.finobj)
    BY <1>2 DEF Extends
  <2>4. \A A : Swept1(g, A) => Swept1(m, A)
    <3>1. m.white = g.white
      BY <1>3 DEF Still
    <3>2. QED
      BY <1>3, <3>1, Names DEF Swept1
  <2>5. g.col[Main] = g.white => m.col[Main] = g.white
    BY <1>1, <1>3, Names
  <2>6. \A u \in Objs : m.kind[u] = "open" /\ m.at[u][1] = Main =>
             m.col[u] = g.white \/ (g.kind[u] = "open" /\ g.at[u][1] = Main /\ m.col[u] = g.col[u])
    BY <1>3, Names
  <2>7. QED
    BY <1>2, <1>3, <2>1, <2>2, <2>3, <2>4, <2>5, <2>6, SweepingKept
<1>8. m.state # "atomic" /\ m.state = g.state
  BY <1>3 DEF Still, Phase
<1>9. QED
  BY <1>5, <1>6, <1>7, <1>8 DEF Phase

\* The free object o is made an object of kind K, linked in allgc if it is linked at all.
Makes(g, m, o, K) ==
  m = IF K \in {"string", "open"} THEN NewObj(g, o, K) ELSE Linked(NewObj(g, o, K), o)

\* It has no references yet.
LEMMA Made ==
    ASSUME NEW g, NEW X, Phase(g, X), NEW o \in Objs, g.kind[o] = "free", NEW K, K = g.cast[o].kind,
           K # "none", NEW m, Makes(g, m, o, K)
    PROVE  /\ m \in Heap /\ Aside(g, m, o) /\ m.kind[o] = K /\ m.col[o] = g.white /\ m.at = g.at
           /\ m.full = g.full /\ m.looped = g.looped
           /\ m.val = g.val /\ \A k \in Keys : m.val[o][k] = Nil
           /\ IF K \in {"string", "open"} THEN m.allgc = g.allgc ELSE Heads(m.allgc, o, g.allgc)
           /\ K \in Kinds \ {"closed"} /\ g.at[o] = Nil
<1>1. PICK kk, cc, l : /\ kk = [g.kind EXCEPT ![o] = K] /\ cc = [g.col EXCEPT ![o] = g.white]
                       /\ l = IF K \in {"string", "open"} THEN g.allgc ELSE <<o>> \o g.allgc
  OBVIOUS
<1>2. g \in Heap /\ Shaped(g) /\ o \in Bodies /\ o # Main /\ g.white \in Colors /\ Roomy(g) /\ Opened(g)
  BY PhaseFacts, Names DEF Shaped
<1>3. m = [g EXCEPT !.kind = kk, !.col = cc, !.allgc = l]
  <2>1. CASE K \in {"string", "open"}
    <3>1. l = g.allgc
      BY <1>1, <2>1
    <3>2. m = [g EXCEPT !.kind = kk, !.col = cc]
      BY <1>1, <2>1, Zenon DEF Makes, NewObj
    <3>3. m = [g EXCEPT !.kind = kk, !.col = cc, !.allgc = g.allgc]
      BY <1>2, <3>2 DEF Heap
    <3>4. QED
      BY <3>1, <3>3
  <2>2. CASE K \notin {"string", "open"}
    BY <1>1, <2>2, Zenon DEF Makes, NewObj, Linked
  <2>3. QED
    BY <2>1, <2>2
<1>4. K \in Kinds \ {"closed"}
  <2>1. g.cast[o] \in CastOf
    BY <1>2, HeapTypes
  <2>2. QED
    BY <2>1 DEF CastOf, Kinds, Tables
<1>5. /\ kk \in [Bodies -> Kinds \cup {"free"}] /\ cc \in [Bodies -> Colors]
      /\ g.allgc \in Seq(Objs)
  BY <1>1, <1>2, <1>4, HeapTypes
<1>6. l \in Seq(Objs) /\ IF K \in {"string", "open"} THEN l = g.allgc ELSE Heads(l, o, g.allgc)
  <2>1. CASE K \in {"string", "open"}
    BY <1>1, <1>5, <2>1
  <2>2. CASE K \notin {"string", "open"}
    <3>1. Heads(l, o, g.allgc)
      BY <1>1, <2>2 DEF Heads
    <3>2. l \in Seq(Objs)
      BY <1>5, <3>1, Prepended
    <3>3. QED
      BY <2>2, <3>1, <3>2
  <2>3. QED
    BY <2>1, <2>2
<1>7. /\ m \in Heap /\ m.cast = g.cast /\ m.kind = kk /\ m.val = g.val /\ m.at = g.at /\ m.col = cc
      /\ m.allgc = l /\ m.finobj = g.finobj /\ m.finalized = g.finalized /\ Still(g, m)
      /\ m.full = g.full /\ m.looped = g.looped
  BY <1>2, <1>3, <1>5, <1>6 DEF Heap, Still, SameGray, SameLists
<1>8. /\ kk[o] = K /\ cc[o] = g.white
      /\ \A x \in Bodies : x # o => kk[x] = g.kind[x] /\ cc[x] = g.col[x]
  BY <1>1, <1>2, HeapTypes
<1>9. g.at[o] = Nil
  BY <1>2 DEF Opened
<1>10. \A k \in Keys : g.val[o][k] = Nil
  BY <1>2, RoomOf
<1>11. QED
  BY <1>4, <1>6, <1>7, <1>8, <1>9, <1>10 DEF Aside

\* A new string, table, userdata, prototype, C function or coroutine
LEMMA NewBorn ==
    ASSUME NEW g, NEW X, Phase(g, X), NEW o \in Objs, g.kind[o] = "free", NEW K, K = g.cast[o].kind,
           K \notin {"none", "lclosure", "open"}, NEW m, Makes(g, m, o, K)
    PROVE  Phase(m, X) /\ o \in Sound(m) /\ m \in Heap /\ Main \in Bodies
<1>1. /\ m \in Heap /\ Aside(g, m, o) /\ m.kind[o] = K /\ m.col[o] = g.white /\ m.at = g.at
      /\ m.val = g.val /\ \A k \in Keys : m.val[o][k] = Nil
      /\ IF K \in {"string", "open"} THEN m.allgc = g.allgc ELSE Heads(m.allgc, o, g.allgc)
      /\ K \in Kinds \ {"closed"} /\ g.at[o] = Nil
  BY Made
<1>2. m.kind[o] \notin {"free", "closed"}
  BY <1>1 DEF Kinds, Tables
<1>3. Births(g, m, o)
  BY <1>1, <1>2 DEF Births, Closing, Binds
<1>4. QED
  BY <1>1, <1>3, Born, BornSets, Names

\* luaC_newobj
LEMMA NewKeeps ==
    ASSUME IInv, NEW r \in Regs, NEW o \in Objs, New(r, o)
    PROVE  IInv'
<1>1. PICK K : K = h.cast[o].kind
  OBVIOUS
<1>2. h.kind[o] = "free" /\ K \notin {"none", "lclosure", "open"}
  BY <1>1 DEF New
<1>3. PICK m : m = IF K = "string" THEN NewObj(h, o, K) ELSE Linked(NewObj(h, o, K), o)
  OBVIOUS
<1>4. Makes(h, m, o, K)
  BY <1>2, <1>3 DEF Makes
<1>5. Phase(m, {}) /\ o \in Sound(m) /\ m \in Heap /\ Main \in Bodies
  BY <1>1, <1>2, <1>4, NewBorn DEF IInv
<1>6. h' = SetReg(m, r, o)
  <2>1. CASE K = "string"
    BY <1>1, <1>3, <2>1 DEF New
  <2>2. CASE K # "string"
    <3>1. h' = Linked(SetReg(NewObj(h, o, K), r, o), o) /\ m = Linked(NewObj(h, o, K), o)
      BY <1>1, <1>3, <2>2 DEF New
    <3>2. Linked(SetReg(NewObj(h, o, K), r, o), o) = SetReg(Linked(NewObj(h, o, K), o), r, o)
      BY Zenon DEF Linked, SetReg, NewObj
    <3>3. QED
      BY <3>1, <3>2
  <2>3. QED
    BY <2>1, <2>2
<1>7. r \in Slots
  BY Names
<1>8. Phase(SetReg(m, r, o), {})
  BY <1>5, <1>7, RegSet
<1>9. QED
  BY <1>6, <1>8 DEF IInv

\* m is g where the dead o is white.
Returns(g, m, o) ==
  /\ m \in Heap /\ m.cast = g.cast /\ m.kind = g.kind /\ m.val = g.val /\ m.at = g.at
  /\ m.allgc = g.allgc /\ m.finobj = g.finobj /\ m.finalized = g.finalized /\ Still(g, m)
  /\ m.full = g.full /\ m.looped = g.looped
  /\ m.col[o] = g.white /\ \A x \in Bodies : x # o => m.col[x] = g.col[x]

\* A string or an open upvalue that is dead but not swept is used again; that is in a
\* sweep, as nothing is dead in a mark phase.
LEMMA Reborn ==
    ASSUME NEW g, NEW X, Phase(g, X), NEW o \in Objs, IsDead(g, o), g.kind[o] \in {"string", "open"},
           g.kind[o] = "open" => g.at[o][1] \in Sound(g), NEW m, m = MakeWhite(g, o)
    PROVE  Phase(m, {}) /\ Returns(g, m, o) /\ Sound(m) = Sound(g) \cup {o}
<1>1. /\ g \in Heap /\ Shaped(g) /\ ListedBut(g, {}) /\ Solid(g) /\ o \in Bodies /\ o # Main
      /\ g.white # Other(g.white) /\ g.white \in Colors /\ g.kind[Main] = "thread" /\ Opened(g)
      /\ g.kind[o] # "free"
  BY PhaseFacts, Names DEF IsDead, Shaped
<1>2. PICK cc : cc = [g.col EXCEPT ![o] = g.white]
  OBVIOUS
<1>3. cc \in [Bodies -> Colors] /\ cc[o] = g.white /\ \A x \in Bodies : x # o => cc[x] = g.col[x]
  BY <1>1, <1>2, HeapTypes
<1>4. m = [g EXCEPT !.col = cc]
  BY <1>2, Zenon DEF MakeWhite
<1>5. /\ m \in Heap /\ m.cast = g.cast /\ m.kind = g.kind /\ m.val = g.val /\ m.at = g.at
      /\ m.allgc = g.allgc /\ m.finobj = g.finobj /\ m.finalized = g.finalized /\ Still(g, m)
      /\ m.full = g.full /\ m.looped = g.looped /\ m.col = cc
  BY <1>1, <1>3, <1>4 DEF Heap, Still, SameGray, SameLists
<1>6. Returns(g, m, o)
  BY <1>3, <1>5 DEF Returns
<1>7. Live(m) = Live(g) /\ Sound(m) = Sound(g) \cup {o} /\ o \in Live(g) /\ o \notin Sound(g)
  BY <1>1, <1>3, <1>5 DEF Live, Sound, Still, IsDead
<1>8. g.state # "propagate"
  BY <1>7 DEF Phase, Loose
<1>9. Shaped(m)
  <2>1. \A x : Room(m, x) = Room(g, x)
    BY <1>5 DEF Room
  <2>2. Colored(m)
    <3>1. g.white # "black"
      BY <1>1, HeapTypes
    <3>2. QED
      BY <1>1, <1>3, <1>5, <3>1 DEF Shaped, Colored
  <2>3. QED
    BY <1>1, <1>5, <2>1, <2>2 DEF Shaped, Cast, Roomy, Opened
<1>10. ListedBut(m, {})
  BY <1>1, <1>5 DEF ListedBut, Still
<1>11. \A x, S : RefsIn(m, x, S) <=> RefsIn(g, x, S)
  BY <1>5 DEF RefsIn, ValuesIn, KeysIn, UpIn, UpValue
<1>12. RefsIn(g, o, Sound(g))
  <2>1. \A k \in Keys : g.val[o][k] = Nil
    BY <1>1, RoomOf
  <2>2. UpIn(g, o, Sound(g))
    <3>1. SUFFICES ASSUME g.kind[o] = "open"
                   PROVE  UpValue(g, o) \in Sound(g) \cup {Nil}
      BY DEF UpIn
    <3>2. g.at[o][1] \in Sound(g) /\ g.at[o][2] \in Keys
      BY <1>1, <3>1, OpenAt
    <3>3. QED
      BY <1>1, <3>1, <3>2 DEF UpValue, Solid, RefsIn, ValuesIn
  <2>3. QED
    BY <2>1, <2>2, Names DEF RefsIn, ValuesIn, KeysIn
<1>13. Solid(m)
  <2>1. \A x \in Sound(m) : RefsIn(g, x, Sound(m))
    BY <1>1, <1>7, <1>12 DEF Solid, RefsIn, ValuesIn, KeysIn, UpIn
  <2>2. \A x \in Sound(m) : Closing(m, x)
    BY <1>1, <1>5, <1>7 DEF Solid, Closing
  <2>3. Roots(m) = Roots(g)
    BY <1>5 DEF Roots, Still
  <2>4. QED
    BY <1>1, <1>7, <1>11, <2>1, <2>2, <2>3 DEF Solid
<1>14. Sweeping(m)
  <2>1. Sweeping(g)
    BY <1>8 DEF Phase
  <2>2. \A x \in g.strings : m.kind[x] = "string"
    BY <1>5, <2>1 DEF Sweeping, Strings, Of
  <2>3. Extends(g.allgc, m.allgc) /\ Extends(g.finobj, m.finobj)
    BY <1>5 DEF Extends
  <2>4. \A A : Swept1(g, A) => Swept1(m, A)
    BY <1>3, <1>5, Names DEF Swept1, Still
  <2>5. m.col[Main] = g.col[Main]
    BY <1>1, <1>3, <1>5, Names
  <2>6. \A u \in Objs : m.col[u] = g.white \/ m.col[u] = g.col[u]
    BY <1>3, <1>5, Names
  <2>7. QED
    BY <1>5, <2>1, <2>2, <2>3, <2>4, <2>5, <2>6, SweepingKept
<1>15. m.state # "propagate" /\ m.state # "atomic"
  BY <1>5, <1>8 DEF Still, Phase
<1>16. QED
  BY <1>5, <1>6, <1>7, <1>9, <1>10, <1>13, <1>14, <1>15 DEF Phase, Structure

\* What is not dead is sound.
LEMMA NotDead ==
    ASSUME NEW g \in Heap, NEW o \in Bodies, g.kind[o] # "free", ~IsDead(g, o)
    PROVE  o \in Sound(g)
BY DEF IsDead, Sound, Live

\* internshrstr
LEMMA InternKeeps ==
    ASSUME IInv, NEW r \in Regs, NEW s \in Objs, Intern(r, s)
    PROVE  IInv'
<1>1. h \in Heap /\ h.kind[s] = "string" /\ r \in Slots /\ s \in Bodies
  BY PhaseFacts, Names DEF IInv, Intern, Strings, Of
<1>2. PICK m : m = IF IsDead(h, s) THEN MakeWhite(h, s) ELSE h
  OBVIOUS
<1>3. Phase(m, {}) /\ s \in Sound(m)
  <2>1. CASE IsDead(h, s)
    <3>1. m = MakeWhite(h, s)
      BY <1>2, <2>1
    <3>2. Phase(m, {}) /\ Sound(m) = Sound(h) \cup {s}
      BY <1>1, <2>1, <3>1, Reborn DEF IInv
    <3>3. QED
      BY <3>2
  <2>2. CASE ~IsDead(h, s)
    BY <1>1, <1>2, <2>2, NotDead DEF IInv
  <2>3. QED
    BY <2>1, <2>2
<1>4. Phase(SetReg(m, r, s), {})
  BY <1>1, <1>3, RegSet
<1>5. h' = SetReg(m, r, s)
  BY <1>2 DEF Intern
<1>6. QED
  BY <1>4, <1>5 DEF IInv

\* u is, or may become, the open upvalue of slot s of th.
MayFind(b, u, th, s) ==
  /\ u \in Objs
  /\ \/ b.kind[u] = "open" /\ b.at[u] = <<th, s>>
     \/ /\ b.kind[u] = "free" /\ b.cast[u].kind = "open"
        /\ \A x \in Objs : b.kind[x] = "open" => b.at[x] # <<th, s>>

\* f is b with u as the open upvalue of that slot.
Finds(b, f, u, th, s) ==
  /\ f \in Heap /\ f.cast = b.cast /\ Still(b, f) /\ f.val = b.val
  /\ f.allgc = b.allgc /\ f.finobj = b.finobj /\ f.finalized = b.finalized
  /\ f.kind[u] = "open" /\ f.at[u] = <<th, s>>
  /\ f.col[u] = IF b.kind[u] = "free" \/ IsDead(b, u) THEN b.white ELSE b.col[u]
  /\ \A x \in Bodies : x # u => f.kind[x] = b.kind[x] /\ f.col[x] = b.col[x]
  /\ \A x \in Objs : x # u => f.at[x] = b.at[x]

Opens(b, f, u, th, s) == f = [NewObj(b, u, "open") EXCEPT !.at[u] = <<th, s>>]

\* luaF_findupval makes an upvalue
LEMMA NewUpval ==
    ASSUME NEW b \in Heap, NEW u \in Objs, b.kind[u] = "free", NEW th \in Bodies, NEW s \in Regs,
           NEW f, Opens(b, f, u, th, s)
    PROVE  Finds(b, f, u, th, s)
<1>1. PICK kk, cc, a : /\ kk = [b.kind EXCEPT ![u] = "open"] /\ cc = [b.col EXCEPT ![u] = b.white]
                       /\ a = [b.at EXCEPT ![u] = <<th, s>>]
  OBVIOUS
<1>2. f = [b EXCEPT !.kind = kk, !.col = cc, !.at = a]
  BY <1>1, Zenon DEF NewObj, Opens
<1>3. u \in Bodies /\ b.white \in Colors
  BY Names, HeapTypes DEF Colors
<1>4. /\ kk \in [Bodies -> Kinds \cup {"free"}] /\ cc \in [Bodies -> Colors]
      /\ kk[u] = "open" /\ cc[u] = b.white
      /\ \A x \in Bodies : x # u => kk[x] = b.kind[x] /\ cc[x] = b.col[x]
  BY <1>1, <1>3, HeapTypes DEF Kinds
<1>5. /\ a \in [Objs -> (Bodies \X Regs) \cup {Nil}]
      /\ a[u] = <<th, s>> /\ \A x \in Objs : x # u => a[x] = b.at[x]
  <2>1. <<th, s>> \in (Bodies \X Regs) \cup {Nil}
    OBVIOUS
  <2>2. b.at \in [Objs -> (Bodies \X Regs) \cup {Nil}]
    BY HeapTypes
  <2>3. QED
    BY <1>1, <2>1, <2>2
<1>6. /\ f \in Heap /\ f.cast = b.cast /\ Still(b, f) /\ f.val = b.val
      /\ f.allgc = b.allgc /\ f.finobj = b.finobj /\ f.finalized = b.finalized
      /\ f.kind = kk /\ f.col = cc /\ f.at = a
  <2>1. a \in [Objs -> (Bodies \X Regs) \cup {Nil}]
    BY <1>5
  <2>2. kk \in [Bodies -> Kinds \cup {"free"}] /\ cc \in [Bodies -> Colors]
    BY <1>4
  <2>3. QED
    BY <1>2, <2>1, <2>2 DEF Heap, Still, SameGray, SameLists
<1>7. QED
  BY <1>4, <1>5, <1>6 DEF Finds

\* or finds one.
LEMMA WhiteUpval ==
    ASSUME NEW b \in Heap, NEW u \in Objs, b.kind[u] = "open", NEW th, NEW s, b.at[u] = <<th, s>>, NEW f,
           f = IF IsDead(b, u) THEN MakeWhite(b, u) ELSE b
    PROVE  Finds(b, f, u, th, s)
<1>1. CASE IsDead(b, u)
  <2>1. PICK cc : cc = [b.col EXCEPT ![u] = b.white]
    OBVIOUS
  <2>2. f = [b EXCEPT !.col = cc]
    BY <1>1, <2>1, Zenon DEF MakeWhite
  <2>3. u \in Bodies /\ b.white \in Colors
    BY Names, HeapTypes DEF Colors
  <2>4. /\ cc \in [Bodies -> Colors] /\ cc[u] = b.white
        /\ \A x \in Bodies : x # u => cc[x] = b.col[x]
    BY <2>1, <2>3, HeapTypes
  <2>5. /\ f \in Heap /\ f.cast = b.cast /\ Still(b, f) /\ f.val = b.val
        /\ f.allgc = b.allgc /\ f.finobj = b.finobj /\ f.finalized = b.finalized
        /\ f.kind = b.kind /\ f.col = cc /\ f.at = b.at
    BY <2>2, <2>4 DEF Heap, Still, SameGray, SameLists
  <2>6. QED
    BY <1>1, <2>4, <2>5 DEF Finds
<1>2. CASE ~IsDead(b, u)
  BY <1>2 DEF Finds, Still, SameGray, SameLists
<1>3. QED
  BY <1>1, <1>2

\* luaF_findupval
LEMMA UpvalFinds ==
    ASSUME NEW b \in Heap, \A x \in Objs : b.kind[x] = "open" => b.at[x] \in Bodies \X Regs,
           NEW th \in Bodies, NEW s \in Regs, NEW fu \in FindUpval(b, th, s)
    PROVE  MayFind(b, fu[2], th, s) /\ Finds(b, fu[1], fu[2], th, s)
<1>1. PICK found : found = {u \in OpenUpvals(b, th, s) : b.at[u][2] = s}
  OBVIOUS
<1>2. \A u : u \in found <=> u \in Objs /\ b.kind[u] = "open" /\ b.at[u] = <<th, s>>
  <2>1. \A u \in Objs : b.kind[u] = "open" => b.at[u] = <<b.at[u][1], b.at[u][2]>>
    OBVIOUS
  <2>2. s >= s
    BY GCAssumption DEF Regs
  <2>3. QED
    BY <1>1, <2>1, <2>2 DEF OpenUpvals, Of
<1>3. CASE found # {}
  <2>1. fu \in {<<IF IsDead(b, u) THEN MakeWhite(b, u) ELSE b, u>> : u \in found}
    BY <1>1, <1>3 DEF FindUpval
  <2>2. PICK u \in found : fu = <<IF IsDead(b, u) THEN MakeWhite(b, u) ELSE b, u>>
    BY <2>1
  <2>3. u \in Objs /\ b.kind[u] = "open" /\ b.at[u] = <<th, s>>
    BY <1>2
  <2>4. fu[2] = u /\ fu[1] = IF IsDead(b, u) THEN MakeWhite(b, u) ELSE b
    BY <2>2
  <2>5. Finds(b, fu[1], u, th, s)
    BY <2>3, <2>4, WhiteUpval
  <2>6. QED
    BY <2>3, <2>4, <2>5 DEF MayFind
<1>4. CASE found = {}
  <2>1. PICK free : free = {o \in Objs : b.kind[o] = "free" /\ b.cast[o].kind = "open"}
    OBVIOUS
  <2>2. fu \in {<<[NewObj(b, u, "open") EXCEPT !.at[u] = <<th, s>>], u>> : u \in free}
    BY <1>1, <1>4, <2>1 DEF FindUpval
  <2>3. PICK u \in free : fu = <<[NewObj(b, u, "open") EXCEPT !.at[u] = <<th, s>>], u>>
    BY <2>2
  <2>4. u \in Objs /\ b.kind[u] = "free" /\ b.cast[u].kind = "open"
    BY <2>1
  <2>5. fu[2] = u /\ fu[1] = [NewObj(b, u, "open") EXCEPT !.at[u] = <<th, s>>]
    BY <2>3
  <2>6. Finds(b, fu[1], u, th, s)
    BY <2>4, <2>5, NewUpval DEF Opens
  <2>7. QED
    BY <1>2, <1>4, <2>4, <2>5, <2>6 DEF MayFind
<1>5. QED
  BY <1>3, <1>4

\* Finding an upvalue leaves the heap in order.
LEMMA FoundPhase ==
    ASSUME NEW g, Phase(g, {}), NEW th \in Sound(g), g.kind[th] = "thread", NEW s \in Regs,
           s \in Room(g, th), NEW u, MayFind(g, u, th, s)
    PROVE  \E m : Finds(g, m, u, th, s) /\ Phase(m, {}) /\ u \in Sound(m) /\ Sound(g) \subseteq Sound(m)
<1>1. /\ g \in Heap /\ Opened(g) /\ u \in Objs /\ u \in Bodies /\ th \in Bodies /\ Shaped(g)
  BY PhaseFacts, Names DEF MayFind, Sound, Live
<1>2. CASE g.kind[u] = "open" /\ g.at[u] = <<th, s>>
  <2>1. PICK m : m = IF IsDead(g, u) THEN MakeWhite(g, u) ELSE g
    OBVIOUS
  <2>2. Finds(g, m, u, th, s)
    BY <1>1, <1>2, <2>1, WhiteUpval
  <2>3. Phase(m, {}) /\ u \in Sound(m) /\ Sound(g) \subseteq Sound(m)
    <3>1. CASE IsDead(g, u)
      <4>1. m = MakeWhite(g, u)
        BY <2>1, <3>1
      <4>2. g.at[u][1] = th
        BY <1>2
      <4>3. Phase(m, {}) /\ Sound(m) = Sound(g) \cup {u}
        BY <1>1, <1>2, <3>1, <4>1, <4>2, Reborn
      <4>4. QED
        BY <4>3
    <3>2. CASE ~IsDead(g, u)
      <4>1. m = g
        BY <2>1, <3>2
      <4>2. u \in Sound(g)
        BY <1>1, <1>2, <3>2, NotDead
      <4>3. QED
        BY <4>1, <4>2
    <3>3. QED
      BY <3>1, <3>2
  <2>4. QED
    BY <2>2, <2>3
<1>3. CASE /\ g.kind[u] = "free" /\ g.cast[u].kind = "open"
           /\ \A x \in Objs : g.kind[x] = "open" => g.at[x] # <<th, s>>
  <2>1. PICK m : m = [NewObj(g, u, "open") EXCEPT !.at[u] = <<th, s>>]
    OBVIOUS
  <2>2. Finds(g, m, u, th, s)
    BY <1>1, <1>3, <2>1, NewUpval DEF Opens
  <2>3. <<th, s>> # Nil
    <3>1. th \in Bodies /\ s \in Slots
      BY <1>1, Names
    <3>2. QED
      BY <3>1, GCAssumption
  <2>4. \A x \in Objs : g.at[x] # <<th, s>>
    BY <1>1, <1>3, <2>3 DEF Opened
  <2>5. \A k \in Keys : g.val[u][k] = Nil
    BY <1>1, <1>3, RoomOf
  <2>6. Births(g, m, u)
    <3>1. Aside(g, m, u)
      BY <2>2 DEF Finds, Aside
    <3>2. Binds(g, m, u)
      BY <2>2, <2>4 DEF Finds, Binds
    <3>3. m.col[u] = g.white /\ m.kind[u] = "open" /\ m.allgc = g.allgc /\ m.val = g.val /\ m \in Heap
      BY <1>3, <2>2 DEF Finds
    <3>4. Closing(m, u)
      BY <3>3 DEF Closing
    <3>5. QED
      BY <1>1, <1>3, <2>5, <3>1, <3>2, <3>3, <3>4 DEF Births
  <2>7. QED
    BY <2>2, <2>6, Born, BornSets
<1>4. QED
  BY <1>2, <1>3 DEF MayFind

\* f is b with o as a new Lua closure, linked but empty; g is f where o has its prototype
\* and its upvalue.
Empties(b, f, o) ==
  /\ f \in Heap /\ Aside(b, f, o) /\ f.kind[o] = "lclosure" /\ f.col[o] = b.white /\ f.at = b.at
  /\ f.val = b.val /\ Heads(f.allgc, o, b.allgc)
Filling(f, o, p, u) == [f EXCEPT !.val[o][1] = p, !.val[o][2] = u]
Cached(g, p, o, c) == IF ~IsBlack(g, p) THEN g ELSE IF c = Nil THEN Barrier(g, p, o) ELSE BarrierBack(g, p, o)
Fills(f, g, o, p, u) == g = [f EXCEPT !.val[o][1] = p, !.val[o][2] = u]

\* A closure gets its prototype and upvalue.
LEMMA Filled ==
    ASSUME NEW f \in Heap, NEW o \in Objs, NEW p \in Objs, NEW u \in Objs, NEW g, Fills(f, g, o, p, u)
    PROVE  /\ g \in Heap /\ g.cast = f.cast /\ g.kind = f.kind /\ g.at = f.at /\ g.col = f.col
           /\ Still(f, g) /\ g.allgc = f.allgc /\ g.finobj = f.finobj /\ g.finalized = f.finalized
           /\ \A x \in Bodies : x # o => g.val[x] = f.val[x]
           /\ \A k \in Keys : g.val[o][k] = IF k = 1 THEN p ELSE IF k = 2 THEN u ELSE f.val[o][k]
<1>1. o \in Bodies /\ 1 \in Keys /\ 2 \in Keys
  BY Names
<1>2. PICK n : n = [f EXCEPT !.val[o][1] = p]
  OBVIOUS
<1>3. g = [n EXCEPT !.val[o][2] = u]
  BY <1>2, Zenon DEF Fills
<1>4. Puts(f, n, o, 1, p)
  BY <1>1, <1>2 DEF Puts
<1>5. /\ n \in Heap /\ n.cast = f.cast /\ n.kind = f.kind /\ n.at = f.at /\ n.col = f.col
      /\ n.white = f.white /\ n.state = f.state /\ SameGray(f, n) /\ n.allgc = f.allgc
      /\ n.finobj = f.finobj /\ n.tobefnz = f.tobefnz /\ n.finalized = f.finalized
      /\ n.sweepfin = f.sweepfin /\ n.sweepgc = f.sweepgc /\ n.strings = f.strings
      /\ \A x \in Bodies : x # o => n.val[x] = f.val[x]
      /\ \A j \in Keys : n.val[o][j] = IF j = 1 THEN p ELSE f.val[o][j]
  BY <1>4, PutFields
<1>6. Puts(n, g, o, 2, u)
  BY <1>1, <1>3, <1>5 DEF Puts
<1>7. /\ g \in Heap /\ g.cast = n.cast /\ g.kind = n.kind /\ g.at = n.at /\ g.col = n.col
      /\ g.white = n.white /\ g.state = n.state /\ SameGray(n, g) /\ g.allgc = n.allgc
      /\ g.finobj = n.finobj /\ g.tobefnz = n.tobefnz /\ g.finalized = n.finalized
      /\ g.sweepfin = n.sweepfin /\ g.sweepgc = n.sweepgc /\ g.strings = n.strings
      /\ \A x \in Bodies : x # o => g.val[x] = n.val[x]
      /\ \A j \in Keys : g.val[o][j] = IF j = 2 THEN u ELSE n.val[o][j]
  BY <1>6, PutFields
<1>8. Still(f, g)
  BY <1>5, <1>7 DEF Still, SameGray, SameLists
<1>9. QED
  BY <1>1, <1>5, <1>7, <1>8

\* It is the same as finding the upvalue first and then making the closure at once.
LEMMA ClosureBorn ==
    ASSUME NEW b, Phase(b, {}), NEW o \in Objs, b.kind[o] = "free", b.cast[o].kind = "lclosure",
           NEW l, Empties(b, l, o), NEW th, NEW s, NEW u, MayFind(l, u, th, s),
           NEW f, Finds(l, f, u, th, s), NEW m, Phase(m, {}), Finds(b, m, u, th, s),
           u \in Sound(m), NEW p \in Objs, p \in Sound(m), NEW g, Fills(f, g, o, p, u)
    PROVE  Births(m, g, o)
<1>1. b \in Heap /\ Shaped(b) /\ o \in Bodies /\ u \in Objs /\ u \in Bodies /\ Opened(b)
  BY PhaseFacts, Names DEF MayFind
<1>2. /\ l.kind[o] = "lclosure" /\ l.col[o] = b.white /\ l.at = b.at /\ l.val = b.val /\ l.cast = b.cast
      /\ Heads(l.allgc, o, b.allgc) /\ Still(b, l) /\ l.finobj = b.finobj /\ l.finalized = b.finalized
      /\ \A x \in Bodies : x # o => l.kind[x] = b.kind[x] /\ l.col[x] = b.col[x]
  BY DEF Empties, Aside
<1>3. u # o
  BY <1>2 DEF MayFind
<1>4. /\ l.kind[u] = b.kind[u] /\ l.col[u] = b.col[u] /\ l.white = b.white
      /\ IsDead(l, u) <=> IsDead(b, u)
  BY <1>1, <1>2, <1>3 DEF Still, IsDead
<1>5. /\ f \in Heap /\ f.cast = b.cast /\ Still(l, f) /\ f.val = b.val /\ f.allgc = l.allgc
      /\ f.finobj = b.finobj /\ f.finalized = b.finalized /\ f.kind[u] = "open" /\ f.at[u] = <<th, s>>
      /\ f.col[u] = IF b.kind[u] = "free" \/ IsDead(b, u) THEN b.white ELSE b.col[u]
      /\ \A x \in Bodies : x # u => f.kind[x] = l.kind[x] /\ f.col[x] = l.col[x]
      /\ \A x \in Objs : x # u => f.at[x] = b.at[x]
  BY <1>2, <1>4 DEF Finds
<1>6. /\ m.cast = b.cast /\ Still(b, m) /\ m.val = b.val /\ m.allgc = b.allgc
      /\ m.finobj = b.finobj /\ m.finalized = b.finalized /\ m.kind[u] = "open" /\ m.at[u] = <<th, s>>
      /\ m.col[u] = IF b.kind[u] = "free" \/ IsDead(b, u) THEN b.white ELSE b.col[u]
      /\ \A x \in Bodies : x # u => m.kind[x] = b.kind[x] /\ m.col[x] = b.col[x]
      /\ \A x \in Objs : x # u => m.at[x] = b.at[x]
  BY DEF Finds
<1>7. /\ g \in Heap /\ g.cast = f.cast /\ g.kind = f.kind /\ g.at = f.at /\ g.col = f.col
      /\ Still(f, g) /\ g.allgc = f.allgc /\ g.finobj = f.finobj /\ g.finalized = f.finalized
      /\ \A x \in Bodies : x # o => g.val[x] = f.val[x]
      /\ \A k \in Keys : g.val[o][k] = IF k = 1 THEN p ELSE IF k = 2 THEN u ELSE f.val[o][k]
  BY <1>1, <1>5, Filled
<1>8. Aside(m, g, o)
  <2>1. \A x \in Bodies : x # o => g.kind[x] = m.kind[x] /\ g.col[x] = m.col[x]
    BY <1>2, <1>5, <1>6, <1>7
  <2>2. \A x \in Bodies : x # o => g.val[x] = m.val[x]
    BY <1>5, <1>6, <1>7
  <2>3. \A x \in Objs : x # o => g.at[x] = m.at[x]
    BY <1>5, <1>6, <1>7
  <2>4. Still(m, g)
    BY <1>2, <1>5, <1>6, <1>7 DEF Still, SameGray, SameLists
  <2>5. QED
    BY <1>5, <1>6, <1>7, <2>1, <2>2, <2>3, <2>4 DEF Aside
<1>9. /\ g.kind[o] = "lclosure" /\ g.col[o] = m.white /\ m.kind[o] = "free"
      /\ m.cast[o].kind = "lclosure" /\ g.at[o] = Nil
  BY <1>1, <1>2, <1>3, <1>5, <1>6, <1>7 DEF Still, Opened
<1>10. \A k \in Keys : b.val[o][k] = Nil
  BY <1>1, RoomOf
<1>11. ASSUME NEW k \in Keys, g.val[o][k] # Nil
       PROVE  k \in Room(g, o) \ Objs /\ g.val[o][k] \in Sound(m)
  <2>1. k \in {1, 2}
    BY <1>5, <1>7, <1>10, <1>11
  <2>2. Room(g, o) = {1, 2}
    BY <1>9, Names DEF Room, Tables
  <2>3. QED
    BY <1>7, <2>1, <2>2, Names
<1>12. Closing(g, o)
  <2>1. g.val[o][2] = u /\ u # Nil
    BY <1>1, <1>7, Names
  <2>2. QED
    BY <1>5, <1>7, <2>1 DEF Closing
<1>13. Binds(m, g, o)
  BY <1>9 DEF Binds
<1>14. Heads(g.allgc, o, m.allgc)
  BY <1>2, <1>5, <1>6, <1>7
<1>15. QED
  BY <1>7, <1>8, <1>9, <1>11, <1>12, <1>13, <1>14 DEF Births

\* The cached closure is recorded in a prototype the barrier was called for.
Recorded(g, b, p, o) == Phase(b, {}) /\ Recolors(g, b) /\ ~(b.state = "propagate" /\ IsBlack(b, p) /\ IsWhite(b, o))

\* The barriers pushclosure calls for the cache of a prototype.
LEMMA CacheBarrier ==
    ASSUME NEW g, Phase(g, {}), NEW p \in Sound(g), NEW o \in Objs, g.kind[p] = "proto", NEW b,
           \/ ~IsBlack(g, p) /\ b = g
           \/ b = Barrier(g, p, o)
           \/ b = BarrierBack(g, p, o)
    PROVE  Recorded(g, b, p, o)
<1>1. g \in Heap /\ o \in Bodies /\ o # Nil /\ p \in Bodies /\ Structure(g, {})
      /\ (KeepInvariant(g) <=> g.state = "propagate") /\ g.white # "black"
  BY PhaseFacts, Names, HeapTypes DEF Sound, Live
<1>2. Recolors(g, g)
  BY <1>1 DEF Recolors
<1>3. CASE b = g /\ ~(IsBlack(g, p) /\ IsWhite(g, o))
  BY <1>2, <1>3 DEF Recorded
<1>4. CASE b = Barrier(g, p, o) /\ IsBlack(g, p) /\ IsWhite(g, o)
  <2>1. Phase(g, {p})
    BY PhaseMore
  <2>2. Barred(g, p, {o})
    <3>1. ASSUME g.state = "propagate", IsBlack(g, p)
          PROVE  RefsIn(g, p, NonWhite(g) \cup {o})
      <4>1. RefsIn(g, p, NonWhite(g))
        BY <3>1 DEF Phase, Loose, Blacks, IsBlack, Sound
      <4>2. QED
        BY <4>1 DEF RefsIn, ValuesIn, KeysIn, UpIn
    <3>2. QED
      BY <3>1 DEF Barred
  <2>3. Phase(Barrier(g, p, o), {}) /\ Recolors(g, Barrier(g, p, o))
    BY <1>1, <2>1, <2>2, BarrierPhase
  <2>4. ~(b.state = "propagate" /\ IsBlack(b, p) /\ IsWhite(b, o))
    <3>1. CASE g.state = "propagate"
      <4>1. b = Mark(g, {o})
        BY <1>1, <1>4, <3>1 DEF Barrier
      <4>2. Marks(g, Mark(g, {o}), {o})
        BY <1>1, <3>1, LooseMarked DEF Phase
      <4>3. QED
        BY <1>1, <4>1, <4>2 DEF Marks, NonWhite
    <3>2. CASE g.state # "propagate"
      BY <1>4, <2>3, <3>2 DEF Recolors
    <3>3. QED
      BY <3>1, <3>2
  <2>5. QED
    BY <1>4, <2>3, <2>4 DEF Recorded
<1>5. CASE b = BarrierBack(g, p, o) /\ IsBlack(g, p) /\ IsWhite(g, o)
  <2>1. b = Grayed(g, p)
    BY <1>1, <1>5 DEF BarrierBack, Grayed
  <2>2. Phase(g, {p})
    BY PhaseMore
  <2>3. Phase(Grayed(g, p), {}) /\ Recolors(g, Grayed(g, p)) /\ ~IsBlack(Grayed(g, p), p)
    BY <1>5, <2>2, GrayedPhase
  <2>4. QED
    BY <2>1, <2>3 DEF Recorded
<1>6. CASE ~(IsBlack(g, p) /\ IsWhite(g, o))
  <2>1. b = g
    BY <1>1, <1>6 DEF Barrier, BarrierBack
  <2>2. QED
    BY <1>3, <1>6, <2>1
<1>7. QED
  BY <1>4, <1>5, <1>6

\* The closure is put into the cache.
LEMMA CachePut ==
    ASSUME NEW b, Phase(b, {}), NEW p \in Sound(b), b.kind[p] = "proto", NEW o \in Sound(b), o \in Objs, p \in Objs,
           ~(b.state = "propagate" /\ IsBlack(b, p) /\ IsWhite(b, o)), NEW n, Puts(b, n, p, 1, o)
    PROVE  Phase(n, {}) /\ Sound(n) = Sound(b)
<1>1. /\ b \in Heap /\ p \in Bodies /\ 1 \notin Objs /\ p # Main /\ o \in Bodies /\ p \in Live(b)
      /\ o # Nil
  BY PhaseFacts, Names DEF Sound, Live
<1>2. MayPut(b, p, 1, o)
  BY <1>1 DEF MayPut, Room, Tables
<1>3. Phase(n, {p}) /\ Sound(n) = Sound(b) /\ (~IsBlack(b, p) => Phase(n, {})) /\ n.col = b.col /\ n.state = b.state
  BY <1>2, PutPhase
<1>4. Barred(n, p, {o})
  BY <1>1, <1>2, PutBarred
<1>5. CASE ~IsBlack(b, p)
  BY <1>3, <1>5
<1>6. CASE b.state = "propagate" /\ ~IsWhite(b, o)
  <2>1. ~IsWhite(n, o) /\ {} \cup {o} = {o} /\ n \in Heap
    BY <1>3, <1>6, PhaseFacts DEF IsWhite
  <2>2. Barred(n, p, {} \cup {o})
    BY <1>4, <2>1
  <2>3. Barred(n, p, {})
    BY <1>1, <2>1, <2>2, BarredLess
  <2>4. QED
    BY <1>3, <2>3, BarredPhase
<1>7. CASE b.state # "propagate"
  <2>1. Barred(n, p, {})
    BY <1>3, <1>7 DEF Barred
  <2>2. QED
    BY <1>3, <2>1, BarredPhase
<1>8. QED
  BY <1>5, <1>6, <1>7

\* OP_CLOSURE
LEMMA MakeClosureKeeps ==
    ASSUME IInv, NEW r \in Regs, NEW s \in Regs, NEW p \in OnStack, NEW th \in OnStack \cup {Main},
           MakeClosure(r, p, th, s)
    PROVE  IInv'
<1>1. PICK c : c = h.val[p][1]
  OBVIOUS
<1>2. PICK upval : upval = IF c = Nil THEN Nil ELSE h.val[c][2]
  OBVIOUS
<1>3. PICK new : new = {x \in Objs : h.kind[x] = "free" /\ h.cast[x].kind = "lclosure"}
  OBVIOUS
<1>4. /\ h.kind[p] = "proto" /\ (th # Main => h.kind[th] = "thread" /\ s = 1)
      /\ \/ (upval # Nil /\ h' = SetReg(h, r, c))
         \/ \E o \in new : \E fu \in FindUpval(Linked(NewObj(h, o, "lclosure"), o), th, s) :
              h' = SetReg([Cached(Filling(fu[1], o, p, fu[2]), p, o, c) EXCEPT !.val[p][1] = o], r, o)
  <2>1. h.kind[p] = "proto" /\ (th # Main => h.kind[th] = "thread" /\ s = 1)
    BY DEF MakeClosure
  <2>2. \/ (upval # Nil /\ h' = SetReg(h, r, h.val[p][1]))
        \/ \E o \in {x \in Objs : h.kind[x] = "free" /\ h.cast[x].kind = "lclosure"} :
             \E fu \in FindUpval(Linked(NewObj(h, o, "lclosure"), o), th, s) :
              h' = SetReg([Cached(Filling(fu[1], o, p, fu[2]), p, o, h.val[p][1]) EXCEPT !.val[p][1] = o], r, o)
    BY <1>1, <1>2, Zenon DEF MakeClosure, Filling, Cached
  <2>3. QED
    BY <1>1, <1>3, <2>1, <2>2, Zenon
<1>5. /\ h \in Heap /\ Opened(h) /\ p \in Sound(h) /\ p \in Objs /\ th \in Sound(h) /\ th \in Bodies
      /\ h.kind[th] = "thread" /\ s \in Room(h, th) /\ r \in Slots /\ s \in Slots /\ Phase(h, {})
  <2>1. h.kind[Main] = "thread" /\ Main \in Sound(h) /\ Main \in Bodies /\ h \in Heap /\ Opened(h)
    BY PhaseFacts, Names DEF IInv
  <2>2. th \in Sound(h) /\ th \in Bodies /\ h.kind[th] = "thread"
    BY <1>4, <2>1, StackIs
  <2>3. s \in Room(h, th) /\ r \in Slots /\ s \in Slots
    BY <1>4, <2>2, Names DEF Room, Tables
  <2>4. QED
    BY <2>1, <2>2, <2>3, StackIs DEF IInv
<1>6. CASE upval # Nil /\ h' = SetReg(h, r, c)
  <2>1. c # Nil
    BY <1>2, <1>6
  <2>2. c \in Objs \cup {Nil} /\ c \in Sound(h) \cup {Nil}
    <3>1. 1 \in Keys
      BY Names
    <3>2. QED
      BY <1>1, <1>5, <3>1, RefIs
  <2>3. Phase(SetReg(h, r, c), {})
    BY <1>5, <2>2, RegSet
  <2>4. QED
    BY <1>6, <2>3 DEF IInv
<1>7. ASSUME NEW o \in new, NEW fu \in FindUpval(Linked(NewObj(h, o, "lclosure"), o), th, s), NEW g, NEW b,
             Fills(fu[1], g, o, p, fu[2]),
             b = IF ~IsBlack(g, p) THEN g ELSE IF c = Nil THEN Barrier(g, p, o) ELSE BarrierBack(g, p, o),
             h' = SetReg([b EXCEPT !.val[p][1] = o], r, o)
      PROVE  IInv'
  <2>1. o \in Objs /\ h.kind[o] = "free" /\ h.cast[o].kind = "lclosure"
    BY <1>3, <1>7
  <2>2. PICK l : l = Linked(NewObj(h, o, "lclosure"), o)
    OBVIOUS
  <2>3. Makes(h, l, o, "lclosure")
    BY <2>2 DEF Makes
  <2>4. Empties(h, l, o)
    BY <1>5, <2>1, <2>3, Made DEF Empties
  <2>5. \A x \in Objs : l.kind[x] = "open" => l.at[x] \in Bodies \X Regs
    <3>1. \A x \in Objs : l.kind[x] = "open" => h.kind[x] = "open" /\ l.at[x] = h.at[x]
      BY <2>4, Names DEF Empties, Aside
    <3>2. QED
      BY <1>5, <3>1, OpenAt
  <2>6. PICK u, f : u = fu[2] /\ f = fu[1]
    OBVIOUS
  <2>7. l \in Heap /\ fu \in FindUpval(l, th, s)
    BY <1>7, <2>2, <2>4 DEF Empties
  <2>8. MayFind(l, u, th, s) /\ Finds(l, f, u, th, s)
    BY <1>5, <2>5, <2>6, <2>7, UpvalFinds
  <2>9. Fills(f, g, o, p, u)
    BY <1>7, <2>6
  <2>10. MayFind(h, u, th, s)
    <3>1. /\ \A x \in Objs : x # o => l.kind[x] = h.kind[x] /\ l.at[x] = h.at[x]
          /\ l.kind[o] = "lclosure" /\ l.cast = h.cast
      BY <2>4, Names DEF Empties, Aside
    <3>2. QED
      BY <2>1, <2>8, <3>1 DEF MayFind
  <2>11. PICK m : Finds(h, m, u, th, s) /\ Phase(m, {}) /\ u \in Sound(m) /\ Sound(h) \subseteq Sound(m)
    BY <1>5, <2>10, FoundPhase
  <2>12. Births(m, g, o)
    BY <1>5, <2>1, <2>4, <2>8, <2>9, <2>11, ClosureBorn
  <2>13. Phase(g, {}) /\ Sound(g) = Sound(m) \cup {o}
    BY <2>11, <2>12, Born, BornSets
  <2>14. g.kind[p] = "proto"
    <3>1. p \in Bodies /\ p # o /\ p # u
      BY <1>4, <1>5, <2>1, <2>10, Names DEF MayFind
    <3>2. QED
      BY <1>4, <2>11, <2>12, <3>1 DEF Births, Aside, Finds
  <2>15. p \in Sound(g) /\ o \in Sound(g)
    BY <1>5, <2>11, <2>13
  <2>16. Recorded(g, b, p, o)
    <3>1. \/ ~IsBlack(g, p) /\ b = g
          \/ b = Barrier(g, p, o)
          \/ b = BarrierBack(g, p, o)
      BY <1>7
    <3>2. QED
      BY <2>1, <2>13, <2>14, <2>15, <3>1, CacheBarrier
  <2>17. /\ Phase(b, {}) /\ Sound(b) = Sound(g) /\ b.kind = g.kind /\ b \in Heap
         /\ ~(b.state = "propagate" /\ IsBlack(b, p) /\ IsWhite(b, o))
    BY <2>16 DEF Recorded, Recolors
  <2>18. PICK n : n = [b EXCEPT !.val[p][1] = o]
    OBVIOUS
  <2>19. Puts(b, n, p, 1, o)
    BY <1>5, <2>1, <2>17, <2>18, Names DEF Puts
  <2>20. Phase(n, {}) /\ Sound(n) = Sound(b)
    <3>1. p \in Sound(b) /\ b.kind[p] = "proto" /\ o \in Sound(b)
      BY <2>14, <2>15, <2>17
    <3>2. QED
      BY <1>5, <2>1, <2>17, <2>19, <3>1, CachePut
  <2>21. o \in Sound(n) /\ o \in Objs
    BY <2>1, <2>15, <2>17, <2>20
  <2>22. Phase(SetReg(n, r, o), {})
    BY <1>5, <2>20, <2>21, RegSet
  <2>23. QED
    BY <1>7, <2>18, <2>22 DEF IInv
<1>8. ASSUME NEW o \in new, NEW fu \in FindUpval(Linked(NewObj(h, o, "lclosure"), o), th, s),
             h' = SetReg([Cached(Filling(fu[1], o, p, fu[2]), p, o, c) EXCEPT !.val[p][1] = o], r, o)
      PROVE  IInv'
  <2>1. PICK g : g = Filling(fu[1], o, p, fu[2])
    OBVIOUS
  <2>2. PICK b : b = Cached(g, p, o, c)
    OBVIOUS
  <2>3. Fills(fu[1], g, o, p, fu[2])
    BY <2>1 DEF Fills, Filling
  <2>4. b = IF ~IsBlack(g, p) THEN g ELSE IF c = Nil THEN Barrier(g, p, o) ELSE BarrierBack(g, p, o)
    BY <2>2 DEF Cached
  <2>5. h' = SetReg([b EXCEPT !.val[p][1] = o], r, o)
    BY <1>8, <2>1, <2>2
  <2>6. QED
    BY <1>7, <2>3, <2>4, <2>5
<1>9. QED
  BY <1>4, <1>6, <1>8

\* b is n, where an upvalue u was closed in a mark phase, but that u may be black now.
Visits(n, b, u) ==
  /\ b \in Heap /\ Fixed(n, b) /\ b.val = n.val /\ SameGray(n, b)
  /\ \A x \in Bodies : x # u => b.col[x] = n.col[x]
  /\ b.col[u] = "black" \/ (b.col[u] = n.col[u] /\ IsWhite(n, u))

\* An upvalue that is closed in a mark phase has only its own references to be visited.
LEMMA ClosedLoose ==
    ASSUME NEW g, Phase(g, {}), g.state = "propagate", NEW u \in Objs, g.kind[u] = "open",
           NEW n, Structure(n, {}), Closes(g, n, u), NEW b, Visits(n, b, u)
    PROVE  Structure(b, {}) /\ Loose(b, {u}) /\ (b.col[u] # "black" => Loose(b, {}))
<1>1. /\ g \in Heap /\ Shaped(g) /\ u \in Bodies /\ u # Main /\ Loose(g, {}) /\ g.kind[Main] = "thread"
      /\ Live(g) = Sound(g) /\ Colored(g)
  BY PhaseFacts, Names DEF Phase, Loose
<1>2. /\ n \in Heap /\ SweptFrom(g, n) /\ n.kind[u] = "closed" /\ n.col = g.col /\ Live(n) = Live(g)
      /\ \A x \in Bodies : x # u => n.kind[x] = g.kind[x] /\ n.val[x] = g.val[x]
      /\ SameGray(g, n) /\ n.white = g.white /\ Sound(n) = Sound(g)
      /\ n.sweepfin = g.sweepfin /\ n.sweepgc = g.sweepgc /\ n.strings = g.strings
  BY DEF Closes, SweptFrom, Stays
<1>3. /\ b \in Heap /\ Fixed(n, b) /\ b.val = n.val /\ SameGray(n, b) /\ b.kind = n.kind
      /\ \A x \in Bodies : x # u => b.col[x] = n.col[x]
      /\ b.col[u] = "black" \/ (b.col[u] = n.col[u] /\ IsWhite(n, u))
  BY DEF Visits, Fixed
<1>4. Core(n)
  BY <1>1, <1>2, CoreIs
<1>5. Follows(n, b)
  <2>1. \A o \in Bodies : n.kind[o] \in NeverBlack => b.col[o] # "black"
    <3>1. \A o \in Bodies : o # u /\ n.kind[o] \in NeverBlack => n.col[o] # "black"
      BY <1>1, <1>2 DEF Colored
    <3>2. n.kind[u] \notin NeverBlack
      BY <1>2 DEF NeverBlack
    <3>3. QED
      BY <1>3, <3>1, <3>2
  <2>2. QED
    BY <1>3, <2>1 DEF Follows
<1>6. Structure(b, {}) /\ Live(b) = Sound(b)
  BY <1>4, <1>5, FollowsCore, CoreIs
<1>7. NonWhite(n) \subseteq NonWhite(b) /\ Live(b) = Live(g) /\ NonWhite(n) = NonWhite(g)
      /\ \A x \in Bodies : ~IsWhite(g, x) => ~IsWhite(b, x)
  <2>1. \A x : IsWhite(n, x) <=> IsWhite(g, x)
    BY <1>2 DEF IsWhite
  <2>2. QED
    BY <1>2, <1>5, <2>1, FollowsWhite DEF NonWhite
<1>8. GrayLists(b) = GrayLists(g) /\ Others(b) = Others(g) /\ b.gray = g.gray /\ SameLists(g, b)
  BY <1>2, <1>3 DEF GrayLists, Others, SameGray, SameLists
<1>9. \A x \in GrayLists(g) : x \in Bodies /\ x # u /\ b.kind[x] = g.kind[x] /\ b.col[x] = g.col[x]
  <2>1. \A x \in GrayLists(g) : x \in Bodies /\ x # u
    BY <1>1, HeapTypes DEF Loose, Filed
  <2>2. QED
    BY <1>2, <1>3, <2>1
<1>10. Filed(b)
  <2>1. \A x \in GrayLists(b) : ~IsWhite(b, x) /\ b.kind[x] \notin {"free", "string", "udata", "open", "closed"}
    BY <1>1, <1>7, <1>8, <1>9 DEF Loose, Filed
  <2>2. \A x \in b.weak \cup b.ephemeron \cup b.allweak : b.kind[x] = g.kind[x]
    BY <1>8, <1>9 DEF GrayLists, SameLists
  <2>3. QED
    BY <1>1, <1>8, <2>1, <2>2 DEF Loose, Filed, SameLists
<1>11. Tidy(b, {})
  <2>1. \A x \in GrayLists(b) : b.col[x] = "gray"
    BY <1>1, <1>8, <1>9 DEF Loose, Tidy
  <2>2. \A x \in Live(b) : b.col[x] = "gray" /\ b.kind[x] # "open" => x \in GrayLists(b)
    <3>1. b.col[u] # "gray"
      BY <1>3 DEF IsWhite
    <3>2. QED
      BY <1>1, <1>2, <1>3, <1>7, <1>8, <3>1 DEF Loose, Tidy, Live
  <2>3. QED
    BY <1>1, <1>8, <2>1, <2>2 DEF Loose, Tidy
<1>12. ASSUME NEW x \in Live(b), x # u, b.col[x] = "black"
       PROVE  RefsIn(b, x, NonWhite(b))
  <2>1. x \in Live(g) /\ x \in Bodies /\ g.col[x] = "black"
    BY <1>2, <1>3, <1>7, <1>12 DEF Live
  <2>2. RefsIn(g, x, NonWhite(g)) /\ g.kind[x] # "open"
    BY <1>1, <2>1 DEF Loose, Blacks, Colored, NeverBlack
  <2>3. b.val[x] = g.val[x] /\ b.kind[x] # "open"
    BY <1>2, <1>3, <1>12, <2>1, <2>2
  <2>4. QED
    BY <1>7, <2>2, <2>3 DEF RefsIn, ValuesIn, KeysIn, UpIn
<1>13. Blacks(b, {u}) /\ (b.col[u] # "black" => Blacks(b, {}))
  BY <1>12 DEF Blacks
<1>14. ~IsWhite(b, Main)
  BY <1>1, <1>7, Names DEF Loose
<1>15. b.sweepfin = Nil /\ b.sweepgc = Nil /\ b.strings = {}
  BY <1>1, <1>2, <1>3 DEF Fixed, Loose
<1>16. QED
  BY <1>6, <1>10, <1>11, <1>13, <1>14, <1>15 DEF Loose

\* An upvalue is closed in a mark phase.
LEMMA ClosedMarking ==
    ASSUME NEW g, Phase(g, {}), g.state = "propagate", NEW u \in Objs, g.kind[u] = "open"
    PROVE  Phase(CloseUpval(g, u), {}) /\ CloseUpval(g, u).state = "propagate"
<1>1. /\ g \in Heap /\ Structure(g, {}) /\ u \in Bodies /\ Colored(g) /\ g.col[u] \in Colors /\ Shaped(g)
      /\ KeepInvariant(g) /\ g.white \in {"white0", "white1"}
  BY PhaseFacts, HeapTypes, Names
<1>2. ~IsDead(g, u) /\ g.col[u] # "black"
  BY <1>1 DEF Phase, Loose, Live, Sound, IsDead, Colored, NeverBlack
<1>3. PICK n : n = [g EXCEPT !.kind[u] = "closed", !.val[u][1] = UpValue(g, u),
                              !.at[u] = Nil, !.allgc = <<u>> \o @]
  OBVIOUS
<1>4. Structure(n, {}) /\ Closes(g, n, u)
  <2>1. ASSUME NEW q, Shuts(g, q, u)
        PROVE  Structure(q, {}) /\ Closes(g, q, u)
    BY <1>1, <1>2, <2>1, UpvalCloses
  <2>2. QED
    BY <1>3, <2>1 DEF Shuts
<1>5. CloseUpval(g, u) = CheckUpvalColor(n, u)
  BY <1>2, <1>3, Zenon DEF CloseUpval
<1>6. n \in Heap /\ n.state = "propagate" /\ n.col = g.col /\ KeepInvariant(n)
      /\ n.kind[u] = "closed" /\ \A k \in Keys : n.val[u][k] = Nil \/ k = 1
  BY <1>1, <1>4 DEF Closes, SweptFrom, Stays, KeepInvariant
<1>7. CASE ~IsGray(n, u)
  <2>1. IsWhite(n, u)
    BY <1>1, <1>2, <1>6, <1>7 DEF IsGray, IsWhite, Colors
  <2>2. Visits(n, n, u)
    BY <1>6, <2>1 DEF Visits, Fixed, SameGray, SameLists
  <2>3. Structure(n, {}) /\ Loose(n, {})
    BY <1>1, <1>2, <1>4, <1>6, <2>2, ClosedLoose
  <2>4. CheckUpvalColor(n, u) = n
    BY <1>7 DEF CheckUpvalColor
  <2>5. QED
    BY <1>5, <1>6, <2>3, <2>4 DEF Phase
<1>8. CASE IsGray(n, u)
  <2>1. PICK cc : cc = [n.col EXCEPT ![u] = "black"]
    OBVIOUS
  <2>2. PICK b : b = [n EXCEPT !.col = cc]
    OBVIOUS
  <2>3. cc \in [Bodies -> Colors] /\ cc[u] = "black" /\ \A x \in Bodies : x # u => cc[x] = n.col[x]
    BY <1>1, <1>6, <2>1, HeapTypes DEF Colors
  <2>4. b \in Heap /\ Fixed(n, b) /\ b.val = n.val /\ SameGray(n, b) /\ b.col = cc
    BY <1>6, <2>2, <2>3 DEF Heap, Fixed, SameGray, SameLists
  <2>5. Visits(n, b, u)
    BY <2>3, <2>4 DEF Visits
  <2>6. Structure(b, {}) /\ Loose(b, {u})
    BY <1>1, <1>4, <2>5, ClosedLoose
  <2>7. PICK v : v = b.val[u][1]
    OBVIOUS
  <2>8. PICK m : m = Mark(b, {v})
    OBVIOUS
  <2>9. CheckUpvalColor(n, u) = m
    <3>1. b = [n EXCEPT !.col[u] = "black"]
      BY <2>1, <2>2, Zenon
    <3>2. n.val = b.val
      BY <2>4
    <3>3. n.val[u][1] = v
      BY <2>7, <3>2
    <3>4. CheckUpvalColor(n, u) = Mark(b, {n.val[u][1]})
      BY <1>6, <1>8, <3>1, Zenon DEF CheckUpvalColor
    <3>5. QED
      BY <2>8, <3>3, <3>4
  <2>10. Structure(m, {}) /\ Loose(m, {u}) /\ Marks(b, m, {v})
    BY <2>6, <2>8, LooseMarked
  <2>11. m.state = "propagate" /\ m.val = n.val /\ m.kind = n.kind /\ (v \in Bodies => v \in NonWhite(m))
    BY <1>6, <2>4, <2>10 DEF Marks, Fixed
  <2>12. Phase(m, {u})
    BY <2>10, <2>11 DEF Phase
  <2>13. RefsIn(m, u, NonWhite(m))
    <3>1. n.val \in [Bodies -> [Keys -> Objs \cup {Nil}]]
      BY <1>6, HeapTypes
    <3>2. v \in NonWhite(m) \cup {Nil} /\ v = n.val[u][1]
      BY <1>1, <2>4, <2>7, <2>11, <3>1, Names
    <3>3. QED
      BY <1>6, <2>11, <3>2, Names DEF RefsIn, ValuesIn, KeysIn, UpIn
  <2>14. Barred(m, u, {})
    BY <2>13 DEF Barred
  <2>15. Phase(m, {})
    BY <2>12, <2>14, BarredPhase
  <2>16. QED
    BY <1>5, <2>9, <2>11, <2>15
<1>9. QED
  BY <1>7, <1>8

\* luaF_close in a mark phase
LEMMA AllClosedMarking ==
    ASSUME NEW g, Phase(g, {}), g.state = "propagate", NEW th, NEW level \in 0..NSlots + 1
    PROVE  Phase(CloseUpvals(g, th, level), {})
<1> DEFINE N == NSlots + 1 - level
           V == [n \in 0..N |-> {m \in Heap : Phase(m, {}) /\ m.state = "propagate"}]
<1>1. NSlots \in Nat /\ N \in Nat
  BY Names
<1>2. g \in Heap
  BY PhaseFacts
<1>3. ASSUME NEW m, Phase(m, {}), m.state = "propagate", NEW u \in Objs, m.kind[u] = "open"
      PROVE  CloseUpval(m, u) \in {x \in Heap : Phase(x, {}) /\ x.state = "propagate"}
  <2>1. PICK r : r = CloseUpval(m, u)
    OBVIOUS
  <2>2. Phase(r, {}) /\ r.state = "propagate"
    BY <1>3, <2>1, ClosedMarking
  <2>3. r \in Heap
    BY <2>2, PhaseFacts
  <2>4. QED
    BY <2>1, <2>2, <2>3
<1>4. V \in [0..N -> SUBSET Heap]
  OBVIOUS
<1>5. \A n \in 0..N : V[n] = {m \in Heap : Phase(m, {}) /\ m.state = "propagate"}
  OBVIOUS
<1>6. 0 \in 0..N /\ N \in 0..N /\ \A n \in 1..N : n \in 0..N /\ n - 1 \in 0..N
  BY <1>1
<1> HIDE DEF V
<1>7. g \in V[0]
  BY <1>2, <1>5, <1>6
<1>8. \A n \in 1..N : \A m \in V[n - 1] :
         /\ UpvalsAt(m, th, NSlots + 1 - n) = {} => m \in V[n]
         /\ \A u \in UpvalsAt(m, th, NSlots + 1 - n) : CloseUpval(m, u) \in V[n]
  <2>1. SUFFICES ASSUME NEW n \in 1..N, NEW m \in V[n - 1]
                 PROVE  /\ UpvalsAt(m, th, NSlots + 1 - n) = {} => m \in V[n]
                        /\ \A u \in UpvalsAt(m, th, NSlots + 1 - n) : CloseUpval(m, u) \in V[n]
    OBVIOUS
  <2>2. V[n] = {x \in Heap : Phase(x, {}) /\ x.state = "propagate"} /\ V[n] = V[n - 1]
    BY <1>5, <1>6
  <2>3. Phase(m, {}) /\ m.state = "propagate"
    BY <2>2
  <2>4. \A u \in UpvalsAt(m, th, NSlots + 1 - n) : u \in Objs /\ m.kind[u] = "open"
    BY DEF UpvalsAt, Of
  <2>5. QED
    BY <1>3, <2>2, <2>3, <2>4
<1>9. CloseUpvals(g, th, level) \in V[N]
  BY <1>4, <1>7, <1>8, UpvalsClosed
<1>10. QED
  BY <1>5, <1>6, <1>9

\* In a sweep
LEMMA AllClosedSweeping ==
    ASSUME NEW g, Phase(g, {}), g.state # "propagate", NEW th, NEW level \in 0..NSlots + 1
    PROVE  Phase(CloseUpvals(g, th, level), {})
<1>1. Structure(g, {}) /\ ~KeepInvariant(g) /\ Sweeping(g) /\ g.kind[Main] = "thread" /\ g.state # "atomic"
  BY PhaseFacts DEF Phase
<1>2. PICK m : m = CloseUpvals(g, th, level)
  OBVIOUS
<1>3. ClosedSome(g, m, {})
  BY <1>1, <1>2, ClosedFrom
<1>4. /\ Structure(m, {}) /\ Still(g, m) /\ Extends(g.allgc, m.allgc) /\ m.finobj = g.finobj
      /\ \A A : Swept1(g, A) => Swept1(m, A)
      /\ \A x \in Bodies : g.kind[x] # "open" => m.kind[x] = g.kind[x] /\ m.col[x] = g.col[x]
      /\ \A x \in Objs : m.kind[x] = "open" => g.kind[x] = "open" /\ m.at[x] = g.at[x] /\ m.col[x] = g.col[x]
  BY <1>3 DEF ClosedSome, SweptFrom, Stays, Still
<1>5. \A x \in g.strings : m.kind[x] = "string"
  BY <1>1, <1>3 DEF ClosedSome, SweptFrom, Sweeping, Strings, Of
<1>6. Extends(g.finobj, m.finobj)
  BY <1>4 DEF Extends
<1>7. m.col[Main] = g.col[Main]
  BY <1>1, <1>4, Names
<1>8. Sweeping(m)
  BY <1>1, <1>4, <1>5, <1>6, <1>7, SweepingKept
<1>9. QED
  BY <1>1, <1>2, <1>4, <1>8 DEF Phase, Still

\* OP_JMP and OP_RETURN
LEMMA CloseKeeps ==
    ASSUME IInv, NEW th, NEW s \in Regs, Close(th, s)
    PROVE  IInv'
<1>1. s \in 0..NSlots + 1
  BY Names DEF Regs
<1>2. Phase(CloseUpvals(h, th, s), {})
  BY <1>1, AllClosedMarking, AllClosedSweeping DEF IInv
<1>3. QED
  BY <1>2 DEF Close, IInv

\* m is g where o was moved from one list to another and the sweep may not come to it.
Moves(g, m, o) ==
  /\ Relinks(g, m) /\ SameGray(g, m) /\ m.strings = g.strings /\ m.state = g.state
  /\ m.sweepfin = g.sweepfin /\ m.sweepgc = g.sweepgc
  /\ ListedBut(m, {}) /\ Roots(m) \subseteq Sound(g)
  /\ o \in Sound(g) /\ o \in Objs /\ g.kind[o] \notin {"thread", "open"}
  /\ Ahead(g) \ {o} \subseteq Ahead(m)
  /\ m.sweepgc \in Range(m.allgc) \cup {Nil} /\ m.sweepfin \in Range(m.finobj) \cup {Nil}

\* The object is made white if the sweep is under way.
LEMMA MovedPhase ==
    ASSUME NEW g, Phase(g, {}), NEW o, NEW m, Moves(g, m, o), NEW r,
           r = IF KeepInvariant(g) THEN m ELSE MakeWhite(m, o)
    PROVE  Phase(r, {}) /\ Sound(r) = Sound(g) /\ r.val = g.val /\ r.kind = g.kind
<1>1. /\ g \in Heap /\ Structure(g, {}) /\ Shaped(g) /\ Opened(g) /\ g.state # "atomic"
      /\ (KeepInvariant(g) <=> g.state = "propagate")
      /\ m \in Heap /\ Relinks(g, m) /\ m.kind = g.kind /\ m.val = g.val /\ m.at = g.at /\ m.col = g.col
      /\ m.white = g.white /\ SameGray(g, m) /\ m.state = g.state
      /\ m.sweepfin = g.sweepfin /\ m.sweepgc = g.sweepgc /\ m.strings = g.strings
  BY PhaseFacts DEF Moves, Relinks, Phase
<1>2. Structure(m, {}) /\ Live(m) = Live(g) /\ Sound(m) = Sound(g) /\ \A A : Swept1(g, A) => Swept1(m, A)
  BY <1>1, Relinked DEF Moves
<1>3. CASE g.state = "propagate"
  <2>1. r = m
    BY <1>1, <1>3
  <2>2. Loose(g, {})
    BY <1>3 DEF Phase
  <2>3. /\ Filed(m) /\ Tidy(m, {}) /\ Live(m) = Sound(m) /\ ~IsWhite(m, Main)
        /\ NonWhite(m) = NonWhite(g) /\ m.sweepfin = Nil /\ m.sweepgc = Nil /\ m.strings = {}
    BY <1>1, <2>2, LooseKept
  <2>4. \A x, S : RefsIn(m, x, S) <=> RefsIn(g, x, S)
    BY <1>1 DEF RefsIn, ValuesIn, KeysIn, UpIn, UpValue
  <2>5. Blacks(m, {})
    BY <1>1, <1>2, <2>2, <2>3, <2>4 DEF Loose, Blacks
  <2>6. Loose(m, {})
    BY <2>3, <2>5 DEF Loose
  <2>7. QED
    BY <1>1, <1>2, <1>3, <2>1, <2>6 DEF Phase
<1>4. CASE g.state # "propagate"
  <2>1. r = MakeWhite(m, o) /\ Sweeping(g) /\ o \in Sound(m)
    BY <1>1, <1>2, <1>4 DEF Phase, Moves
  <2>2. Structure(r, {}) /\ Whitens(m, r, {o})
    BY <1>2, <2>1, WhiteMade
  <2>3. /\ r.kind = g.kind /\ r.val = g.val /\ r.at = g.at /\ r.white = g.white /\ r.state = g.state
        /\ r.allgc = m.allgc /\ r.finobj = m.finobj /\ r.tobefnz = m.tobefnz
        /\ r.strings = g.strings /\ r.sweepgc = g.sweepgc /\ r.sweepfin = g.sweepfin
        /\ Sound(r) = Sound(g) /\ SameGray(g, r)
        /\ \A x \in Bodies : r.col[x] = IF x = o THEN g.white ELSE g.col[x]
    BY <1>1, <1>2, <2>2 DEF Whitens, SweptFrom, Stays, SameGray, SameLists
  <2>4. Ahead(r) = Ahead(m)
    BY <1>1, <2>3 DEF Ahead
  <2>5. Swept1(r, Ahead(m))
    <3>1. SUFFICES ASSUME NEW x \in Objs, r.kind[x] # "free", r.col[x] # r.white
                   PROVE  IF r.kind[x] = "open" THEN r.at[x][1] \in Ahead(m) ELSE x \in Ahead(m)
      BY DEF Swept1
    <3>2. x # o /\ g.col[x] # g.white /\ g.kind[x] # "free"
      BY <2>3, <3>1, Names
    <3>3. IF g.kind[x] = "open" THEN g.at[x][1] \in Ahead(g) ELSE x \in Ahead(g)
      BY <2>1, <3>2 DEF Sweeping, Swept1
    <3>4. g.kind[x] = "open" => g.at[x][1] # o
      BY <1>1, Names DEF Opened, Moves
    <3>5. QED
      BY <2>3, <3>2, <3>3, <3>4 DEF Moves
  <2>6. GrayLists(r) = {}
    BY <2>1, <2>3 DEF Sweeping, GrayLists, SameGray, SameLists
  <2>7. o # Main /\ g.kind[o] # "open" /\ Main \in Bodies
    BY Names DEF Moves
  <2>8. \A x \in Objs : g.kind[x] = "open" => r.col[x] = g.col[x]
    BY <2>3, <2>7, Names
  <2>9. r.col[Main] = g.col[Main]
    BY <2>3, <2>7
  <2>10. r.strings \subseteq Strings(r)
    BY <2>1, <2>3 DEF Sweeping, Strings, Of
  <2>11. r.sweepgc \in Range(r.allgc) \cup {Nil} /\ r.sweepfin \in Range(r.finobj) \cup {Nil}
    BY <1>1, <2>3 DEF Moves
  <2>12. Sweeping(r)
    BY <2>1, <2>3, <2>4, <2>5, <2>6, <2>8, <2>9, <2>10, <2>11 DEF Sweeping
  <2>13. QED
    BY <1>1, <1>4, <2>2, <2>3, <2>12 DEF Phase
<1>5. QED
  BY <1>3, <1>4

-----------------------------------------------------------------------------
\* A sweep pointer is set.
GcAt(m, n, q) == n = [m EXCEPT !.sweepgc = q]
FinAt(m, n, q) == n = [m EXCEPT !.sweepfin = q]

\* The sweep of allgc goes on from its place.
LEMMA GcMoved ==
    ASSUME NEW g, Phase(g, {}), g.state # "propagate", g.sweepgc # Nil, NEW m, NEW q,
           SweptOn(g, m, "allgc", g.sweepgc, q), q \in Places, NEW n, GcAt(m, n, q)
    PROVE  /\ Phase(n, {}) /\ Sound(n) = Sound(g) /\ n.sweepgc = q /\ n.finobj = g.finobj
           /\ n.tobefnz = g.tobefnz /\ n.cast = g.cast /\ n.state = g.state
           /\ \A o \in Sound(g) : n.kind[o] = g.kind[o] \/ (g.kind[o] = "open" /\ n.kind[o] = "closed")
           /\ n.full = g.full /\ n.looped = g.looped /\ n.finalized \subseteq Objs
<1>1. g \in Heap /\ Sweeping(g) /\ g.state # "atomic" /\ g.sweepgc \in Range(g.allgc) /\ g.allgc \in Seq(Objs)
  BY PhaseFacts, HeapTypes DEF Phase, Sweeping
<1>2. g.sweepgc \in Objs /\ "header" \notin Objs
  BY <1>1, RangeIs, GCAssumption
<1>3. /\ Structure(m, {}) /\ SweptFrom(g, m) /\ m.finobj = g.finobj
      /\ q = Nil \/ Stands(m.allgc, q)
      /\ q # "header" /\ q \in Objs \cup {Nil}
  <2>1. /\ Structure(m, {}) /\ SweptFrom(g, m) /\ m.finobj = g.finobj
        /\ q = Nil \/ (Stands(m.allgc, q) /\ (q = "header" => g.sweepgc = "header"))
    BY DEF SweptOn, List
  <2>2. q # "header"
    BY <1>2, <2>1, GCAssumption
  <2>3. q \in Objs \cup {Nil}
    BY <2>2 DEF Places
  <2>4. QED
    BY <2>1, <2>2, <2>3
<1>4. \A R : Swept1(g, Behind(g.allgc, g.sweepgc) \cup R) => Swept1(m, Behind(m.allgc, q) \cup R)
  BY DEF SweptOn, List
<1>5. m \in Heap
  BY <1>3 DEF Structure
<1>6. /\ n \in Heap /\ Relinks(m, n) /\ n.allgc = m.allgc /\ n.finobj = m.finobj /\ n.tobefnz = m.tobefnz
      /\ n.state = m.state /\ n.full = m.full /\ n.looped = m.looped /\ SameGray(m, n)
      /\ n.sweepfin = m.sweepfin /\ n.sweepgc = q /\ n.strings = m.strings
      /\ n.finalized = m.finalized
  BY <1>3, <1>5 DEF Heap, SameGray, SameLists, Relinks, GcAt, FinAt
<1>7. /\ m.cast = g.cast /\ m.white = g.white /\ m.state = g.state /\ m.full = g.full
      /\ m.looped = g.looped /\ SameGray(g, m) /\ m.tobefnz = g.tobefnz
      /\ m.sweepfin = g.sweepfin /\ m.strings = g.strings /\ Sound(m) = Sound(g)
      /\ \A o \in Sound(g) : m.kind[o] = g.kind[o] \/ (g.kind[o] = "open" /\ m.kind[o] = "closed")
      /\ \A o \in Objs : g.kind[o] = "string" => m.kind[o] = "string"
  BY <1>3 DEF SweptFrom, Stays
<1>8. ListedBut(n, {}) /\ Roots(n) \subseteq Sound(m)
  BY <1>3, <1>6 DEF Structure, ListedBut, Solid, Roots, Relinks
<1>9. /\ Structure(n, {}) /\ Sound(n) = Sound(m) /\ \A A : Swept1(m, A) => Swept1(n, A)
  BY <1>3, <1>6, <1>8, Relinked
<1>10. Swept1(n, Ahead(n))
  <2>1. PICK R : R = {Main} \cup g.strings \cup Range(g.tobefnz) \cup Behind(g.finobj, g.sweepfin)
    OBVIOUS
  <2>2. Ahead(g) = Behind(g.allgc, g.sweepgc) \cup R
    BY <2>1 DEF Ahead
  <2>3. Ahead(n) = Behind(m.allgc, q) \cup R
    BY <1>3, <1>6, <1>7, <2>1 DEF Ahead
  <2>4. QED
    BY <1>1, <1>4, <1>9, <2>2, <2>3 DEF Sweeping
<1>11. g.state # "pause"
  BY <1>1 DEF Sweeping
<1>12. Sweeping(n)
  <2>1. n.strings \subseteq Strings(n)
    BY <1>1, <1>6, <1>7 DEF Sweeping, Strings, Of, Relinks
  <2>2. GrayLists(n) = {}
    BY <1>1, <1>6, <1>7 DEF Sweeping, GrayLists, SameGray, SameLists
  <2>3. QED
    BY <1>1, <1>3, <1>6, <1>7, <1>10, <1>11, <2>1, <2>2 DEF Sweeping, Stands
<1>13. n.finalized \subseteq Objs
  BY <1>6, HeapTypes
<1>14. QED
  BY <1>1, <1>6, <1>3, <1>7, <1>9, <1>12, <1>13 DEF Phase, Relinks

\* The sweep of finobj goes on from its place.
LEMMA FinMoved ==
    ASSUME NEW g, Phase(g, {}), g.state # "propagate", g.sweepfin # Nil, NEW m, NEW q,
           SweptOn(g, m, "finobj", g.sweepfin, q), q \in Places, NEW n, FinAt(m, n, q)
    PROVE  Phase(n, {})
<1>1. g \in Heap /\ Sweeping(g) /\ g.state # "atomic" /\ g.sweepfin \in Range(g.finobj) /\ g.finobj \in Seq(Objs)
  BY PhaseFacts, HeapTypes DEF Phase, Sweeping
<1>2. g.sweepfin \in Objs /\ "header" \notin Objs
  BY <1>1, RangeIs, GCAssumption
<1>3. /\ Structure(m, {}) /\ SweptFrom(g, m) /\ Extends(g.allgc, m.allgc)
      /\ q = Nil \/ Stands(m.finobj, q)
      /\ q # "header" /\ q \in Objs \cup {Nil}
  <2>1. /\ Structure(m, {}) /\ SweptFrom(g, m) /\ Extends(g.allgc, m.allgc)
        /\ q = Nil \/ (Stands(m.finobj, q) /\ (q = "header" => g.sweepfin = "header"))
    BY DEF SweptOn, List
  <2>2. q # "header"
    BY <1>2, <2>1, GCAssumption
  <2>3. q \in Objs \cup {Nil}
    BY <2>2 DEF Places
  <2>4. QED
    BY <2>1, <2>2, <2>3
<1>4. \A R : Swept1(g, Behind(g.finobj, g.sweepfin) \cup R) => Swept1(m, Behind(m.finobj, q) \cup R)
  BY DEF SweptOn, List
<1>5. m \in Heap
  BY <1>3 DEF Structure
<1>6. /\ n \in Heap /\ Relinks(m, n) /\ n.allgc = m.allgc /\ n.finobj = m.finobj /\ n.tobefnz = m.tobefnz
      /\ n.state = m.state /\ n.full = m.full /\ n.looped = m.looped /\ SameGray(m, n)
      /\ n.sweepgc = m.sweepgc /\ n.sweepfin = q /\ n.strings = m.strings
      /\ n.finalized = m.finalized
  BY <1>3, <1>5 DEF Heap, SameGray, SameLists, Relinks, GcAt, FinAt
<1>7. /\ m.cast = g.cast /\ m.white = g.white /\ m.state = g.state /\ m.full = g.full
      /\ m.looped = g.looped /\ SameGray(g, m) /\ m.tobefnz = g.tobefnz
      /\ m.sweepgc = g.sweepgc /\ m.strings = g.strings /\ Sound(m) = Sound(g)
      /\ \A o \in Objs : g.kind[o] = "string" => m.kind[o] = "string"
  BY <1>3 DEF SweptFrom, Stays
<1>8. ListedBut(n, {}) /\ Roots(n) \subseteq Sound(m)
  BY <1>3, <1>6 DEF Structure, ListedBut, Solid, Roots, Relinks
<1>9. /\ Structure(n, {}) /\ Sound(n) = Sound(m) /\ \A A : Swept1(m, A) => Swept1(n, A)
  BY <1>3, <1>6, <1>8, Relinked
<1>10. Swept1(n, Ahead(n))
  <2>1. PICK R : R = {Main} \cup g.strings \cup Range(g.tobefnz) \cup Behind(g.allgc, g.sweepgc)
    OBVIOUS
  <2>2. Ahead(g) = Behind(g.finobj, g.sweepfin) \cup R
    BY <2>1 DEF Ahead
  <2>3. Behind(m.finobj, q) \cup R \subseteq Ahead(n)
    <3>1. Behind(g.allgc, g.sweepgc) \subseteq Behind(m.allgc, g.sweepgc)
      BY <1>3, BehindExtends
    <3>2. QED
      BY <1>6, <1>7, <2>1, <3>1 DEF Ahead
  <2>4. Swept1(n, Behind(m.finobj, q) \cup R)
    BY <1>1, <1>4, <1>9, <2>2 DEF Sweeping
  <2>5. QED
    BY <2>3, <2>4, SweptMore
<1>11. g.state \notin {"sweep", "pause"}
  BY <1>1 DEF Sweeping
<1>12. Sweeping(n)
  <2>1. n.strings \subseteq Strings(n)
    BY <1>1, <1>6, <1>7 DEF Sweeping, Strings, Of, Relinks
  <2>2. GrayLists(n) = {}
    BY <1>1, <1>6, <1>7 DEF Sweeping, GrayLists, SameGray, SameLists
  <2>3. n.sweepgc \in Range(n.allgc) \cup {Nil}
    BY <1>1, <1>3, <1>6, <1>7 DEF Sweeping, Extends
  <2>4. QED
    BY <1>1, <1>3, <1>6, <1>7, <1>10, <1>11, <2>1, <2>2, <2>3 DEF Sweeping, Stands
<1>13. QED
  BY <1>1, <1>6, <1>7, <1>9, <1>12 DEF Phase

\* The sweep of allgc does not stand on o.
LEMMA SteppedAside ==
    ASSUME NEW g, Phase(g, {}), NEW o \in Objs, NEW n, n = StepAside(g, o)
    PROVE  /\ Phase(n, {}) /\ Sound(n) = Sound(g) /\ n.sweepgc # o /\ n.finobj = g.finobj
           /\ n.tobefnz = g.tobefnz /\ n.cast = g.cast /\ n.state = g.state
           /\ \A x \in Sound(g) : n.kind[x] = g.kind[x] \/ (g.kind[x] = "open" /\ n.kind[x] = "closed")
<1>1. CASE g.sweepgc # o
  BY <1>1 DEF StepAside
<1>2. CASE g.sweepgc = o
  <2>1. g.sweepgc # Nil /\ Structure(g, {})
    BY <1>2, Names, PhaseFacts
  <2>2. g.state # "propagate" /\ ~KeepInvariant(g)
    BY <2>1 DEF Phase, Loose, KeepInvariant
  <2>3. o \in Range(g.allgc)
    BY <1>2, <2>1, <2>2 DEF Phase, Sweeping
  <2>4. Stands(List(g, "allgc"), o)
    BY <2>3 DEF Stands, List
  <2>5. PICK m, q : /\ SweepToLive(g, "allgc", o) = [g |-> m, p |-> q] /\ SweptOn(g, m, "allgc", o, q)
                    /\ q \in Places /\ q # o
    BY <2>1, <2>2, <2>4, ToLiveSwept
  <2>7. SweptOn(g, m, "allgc", g.sweepgc, q)
    BY <1>2, <2>5
  <2>8. ASSUME NEW x, GcAt(m, x, q)
        PROVE  /\ Phase(x, {}) /\ Sound(x) = Sound(g) /\ x.sweepgc = q /\ x.finobj = g.finobj
               /\ x.tobefnz = g.tobefnz /\ x.cast = g.cast /\ x.state = g.state
               /\ \A y \in Sound(g) : x.kind[y] = g.kind[y] \/ (g.kind[y] = "open" /\ x.kind[y] = "closed")
    <3>1. q \in Places
      BY <2>5
    <3>2. QED
      BY <2>1, <2>2, <2>7, <2>8, <3>1, GcMoved
  <2>9. StepAside(g, o) = [m EXCEPT !.sweepgc = q]
    BY <1>2, <2>5 DEF StepAside
  <2>10. n = [m EXCEPT !.sweepgc = q]
    BY <2>9
  <2>11. q # o
    BY <2>5
  <2>12. QED
    BY <2>8, <2>10, <2>11 DEF GcAt
<1>3. QED
  BY <1>1, <1>2

\* luaC_checkfinalizer moves an object from allgc to finobj.
Finals(g, m, o) == m = [g EXCEPT !.allgc = Without(@, {o}), !.finobj = <<o>> \o @]

\* It moves so, from allgc to finobj.
LEMMA FinalsMoves ==
    ASSUME NEW g, Phase(g, {}), NEW o \in Objs, o \in Sound(g), g.cast[o].gc, g.sweepgc # o,
           o \notin Range(g.finobj) \cup Range(g.tobefnz), NEW m, Finals(g, m, o)
    PROVE  Moves(g, m, o)
<1>1. /\ g \in Heap /\ Structure(g, {}) /\ ListedBut(g, {}) /\ Solid(g) /\ Cast(g) /\ g.kind[o] # "free"
      /\ g.allgc \in Seq(Objs) /\ g.finobj \in Seq(Objs) /\ g.state # "atomic"
  BY PhaseFacts, HeapTypes DEF Phase, Sound, Live
<1>2. g.kind[o] \in Tables \cup {"udata"}
  BY <1>1, CastIs
<1>3. o \in Range(g.allgc)
  BY <1>1, <1>2 DEF ListedBut, Tables
<1>4. PICK w, f : Lacks(w, g.allgc, o) /\ Heads(f, o, g.finobj) /\ m = [g EXCEPT !.allgc = w, !.finobj = f]
  BY DEF Finals, Lacks, Heads
<1>5. w \in Seq(Objs) /\ Range(w) = Range(g.allgc) \ {o} /\ Distinct(w)
  <2>1. Distinct(g.allgc)
    BY <1>1 DEF ListedBut
  <2>2. QED
    BY <1>1, <1>4, <2>1, WithoutFacts DEF Lacks
<1>6. f \in Seq(Objs) /\ Range(f) = {o} \cup Range(g.finobj) /\ Distinct(f) /\ Extends(g.finobj, f)
  <2>1. Distinct(g.finobj)
    BY <1>1 DEF ListedBut
  <2>2. QED
    BY <1>1, <1>4, <2>1, Prepended, HeadsExtend
<1>7. /\ m.cast = g.cast /\ m.kind = g.kind /\ m.val = g.val /\ m.at = g.at /\ m \in Heap
      /\ m.col = g.col /\ m.white = g.white /\ m.tobefnz = g.tobefnz /\ m.allgc = w /\ m.finobj = f
      /\ SameGray(g, m) /\ m.strings = g.strings /\ m.state = g.state
      /\ m.sweepfin = g.sweepfin /\ m.sweepgc = g.sweepgc
  BY <1>1, <1>4, <1>5, <1>6 DEF Heap, SameGray, SameLists
<1>8. ListedBut(m, {})
  <2>1. \A x \in Objs : m.kind[x] \notin {"free", "string", "open"} /\ x \notin {} <=>
                        x \in Range(w) \cup Range(f) \cup Range(g.tobefnz)
    BY <1>1, <1>3, <1>5, <1>6, <1>7 DEF ListedBut
  <2>2. Apart(w, f) /\ Apart(w, g.tobefnz) /\ Apart(f, g.tobefnz)
    BY <1>1, <1>5, <1>6 DEF ListedBut, Apart
  <2>3. QED
    BY <1>1, <1>5, <1>6, <1>7, <2>1, <2>2 DEF ListedBut
<1>9. Roots(m) \subseteq Sound(g)
  BY <1>1, <1>6, <1>7 DEF Solid, Roots
<1>10. /\ Behind(w, g.sweepgc) = Behind(g.allgc, g.sweepgc) \ {o}
       /\ Behind(g.finobj, g.sweepfin) \subseteq Behind(f, g.sweepfin)
  BY <1>1, <1>4, <1>6, BehindWithout, BehindExtends
<1>11. Ahead(g) \ {o} \subseteq Ahead(m)
  BY <1>7, <1>10 DEF Ahead
<1>12. g.sweepgc \in Range(g.allgc) \cup {Nil} /\ g.sweepfin \in Range(g.finobj) \cup {Nil}
  BY <1>1 DEF Phase, Sweeping, Loose
<1>13. m.sweepgc \in Range(m.allgc) \cup {Nil} /\ m.sweepfin \in Range(m.finobj) \cup {Nil}
  BY <1>5, <1>6, <1>7, <1>12
<1>14. g.kind[o] \notin {"thread", "open"}
  BY <1>2 DEF Tables
<1>15. Relinks(g, m)
  BY <1>7 DEF Relinks
<1>16. QED
  BY <1>7, <1>8, <1>9, <1>11, <1>13, <1>14, <1>15 DEF Moves

\* luaC_checkfinalizer
LEMMA CheckFinalizerKeeps ==
    ASSUME IInv, NEW o \in OnStack, CheckFinalizer(o)
    PROVE  IInv'
<1>1. /\ o \in Objs /\ o \in Sound(h) /\ h.cast[o].gc /\ h \in Heap /\ Cast(h) /\ h.kind[o] # "free"
      /\ o \notin Range(h.finobj) \cup Range(h.tobefnz)
  BY StackIs, PhaseFacts DEF IInv, CheckFinalizer, Sound, Live
<1>2. PICK n : n = StepAside(h, o)
  OBVIOUS
<1>3. /\ Phase(n, {}) /\ Sound(n) = Sound(h) /\ n.sweepgc # o /\ n.finobj = h.finobj
      /\ n.tobefnz = h.tobefnz /\ n.cast = h.cast /\ n.state = h.state
  BY <1>1, <1>2, SteppedAside DEF IInv
<1>4. PICK m : Finals(n, m, o) /\ h' = IF KeepInvariant(h) THEN m ELSE MakeWhite(m, o)
  BY <1>2, Zenon DEF CheckFinalizer, Finals
<1>5. Moves(n, m, o)
  BY <1>1, <1>3, <1>4, FinalsMoves
<1>6. KeepInvariant(n) <=> KeepInvariant(h)
  BY <1>3 DEF KeepInvariant
<1>7. PICK r : r = IF KeepInvariant(n) THEN m ELSE MakeWhite(m, o)
  OBVIOUS
<1>8. Phase(r, {})
  BY <1>3, <1>5, <1>7, MovedPhase
<1>9. h' = r
  BY <1>4, <1>6, <1>7
<1>10. QED
  BY <1>8, <1>9 DEF IInv

-----------------------------------------------------------------------------
\* udata2finalize moves the first object due for its finalizer to allgc.
Unfinals(g, m, o) == m = [g EXCEPT !.tobefnz = Tail(@), !.allgc = <<o>> \o @]

\* The head and the tail of a list.
LEMMA HeadTail ==
    ASSUME NEW s \in Seq(Objs), s # <<>>, Distinct(s)
    PROVE  /\ Head(s) \in Range(s) /\ Head(s) \in Objs /\ Tail(s) \in Seq(Objs) /\ Distinct(Tail(s))
           /\ Range(Tail(s)) = Range(s) \ {Head(s)}
<1>1. Len(s) \in Nat \ {0} /\ 1 \in 1..Len(s) /\ Head(s) = s[1] /\ Tail(s) \in Seq(Objs)
  OBVIOUS
<1>2. Len(Tail(s)) = Len(s) - 1 /\ \A i \in 1..Len(s) - 1 : Tail(s)[i] = s[i + 1] /\ i + 1 \in 1..Len(s)
  OBVIOUS
<1>3. /\ \A x : x \in Range(s) <=> \E i \in 1..Len(s) : s[i] = x
      /\ \A x : x \in Range(Tail(s)) <=> \E i \in 1..Len(Tail(s)) : Tail(s)[i] = x
  BY <1>1, RangeIs
<1>4. Head(s) \in Range(s) /\ Head(s) \in Objs
  BY <1>1, <1>3
<1>5. Distinct(Tail(s))
  BY <1>1, <1>2 DEF Distinct
<1>6. ASSUME NEW x
      PROVE  x \in Range(Tail(s)) <=> x \in Range(s) \ {Head(s)}
  <2>1. ASSUME x \in Range(Tail(s))
        PROVE  x \in Range(s) \ {Head(s)}
    <3>1. PICK i \in 1..Len(s) - 1 : s[i + 1] = x
      BY <1>2, <1>3, <2>1
    <3>2. i + 1 \in 1..Len(s) /\ i + 1 # 1
      BY <1>1
    <3>3. QED
      BY <1>1, <1>3, <3>1, <3>2 DEF Distinct
  <2>2. ASSUME x \in Range(s), x # Head(s)
        PROVE  x \in Range(Tail(s))
    <3>1. PICK i \in 1..Len(s) : s[i] = x
      BY <1>3, <2>2
    <3>2. i # 1
      BY <1>1, <2>2, <3>1
    <3>3. i - 1 \in 1..Len(s) - 1 /\ (i - 1) + 1 = i
      BY <1>1, <3>2
    <3>4. QED
      BY <1>2, <1>3, <3>1, <3>3
  <2>3. QED
    BY <2>1, <2>2
<1>7. QED
  BY <1>1, <1>4, <1>5, <1>6

\* It moves so, from tobefnz to allgc.
LEMMA UnfinalsMoves ==
    ASSUME NEW g, Phase(g, {}), g.tobefnz # <<>>, NEW o, o = Head(g.tobefnz), NEW m, Unfinals(g, m, o)
    PROVE  Moves(g, m, o)
<1>1. /\ g \in Heap /\ Structure(g, {}) /\ ListedBut(g, {}) /\ Solid(g) /\ Cast(g)
      /\ g.allgc \in Seq(Objs) /\ g.tobefnz \in Seq(Objs) /\ g.state # "atomic" /\ Distinct(g.tobefnz)
  BY PhaseFacts, HeapTypes DEF Phase, ListedBut
<1>2. PICK t, w : t = Tail(g.tobefnz) /\ Heads(w, o, g.allgc) /\ m = [g EXCEPT !.tobefnz = t, !.allgc = w]
  BY DEF Unfinals, Heads
<1>3. /\ o \in Range(g.tobefnz) /\ o \in Objs /\ t \in Seq(Objs) /\ Distinct(t)
      /\ Range(t) = Range(g.tobefnz) \ {o}
  BY <1>1, <1>2, HeadTail
<1>4. g.cast[o].gc /\ g.kind[o] # "free" /\ o \notin Range(g.allgc) /\ o \in Sound(g)
  BY <1>1, <1>3 DEF ListedBut, Apart, Solid, Roots
<1>5. g.kind[o] \in Tables \cup {"udata"}
  BY <1>1, <1>3, <1>4, CastIs
<1>6. w \in Seq(Objs) /\ Range(w) = {o} \cup Range(g.allgc) /\ Distinct(w) /\ Extends(g.allgc, w)
  <2>1. Distinct(g.allgc)
    BY <1>1 DEF ListedBut
  <2>2. QED
    BY <1>1, <1>2, <1>3, <1>4, <2>1, Prepended, HeadsExtend
<1>7. /\ m.cast = g.cast /\ m.kind = g.kind /\ m.val = g.val /\ m.at = g.at /\ m \in Heap
      /\ m.col = g.col /\ m.white = g.white /\ m.tobefnz = t /\ m.allgc = w /\ m.finobj = g.finobj
      /\ SameGray(g, m) /\ m.strings = g.strings /\ m.state = g.state
      /\ m.sweepfin = g.sweepfin /\ m.sweepgc = g.sweepgc
  BY <1>1, <1>2, <1>3, <1>6 DEF Heap, SameGray, SameLists
<1>8. ListedBut(m, {})
  <2>1. \A x \in Objs : m.kind[x] \notin {"free", "string", "open"} /\ x \notin {} <=>
                        x \in Range(w) \cup Range(g.finobj) \cup Range(t)
    BY <1>1, <1>3, <1>6, <1>7 DEF ListedBut
  <2>2. Apart(w, g.finobj) /\ Apart(w, t) /\ Apart(g.finobj, t)
    BY <1>1, <1>3, <1>4, <1>6 DEF ListedBut, Apart
  <2>3. QED
    BY <1>1, <1>3, <1>6, <1>7, <2>1, <2>2 DEF ListedBut
<1>9. Roots(m) \subseteq Sound(g)
  BY <1>1, <1>3, <1>7 DEF Solid, Roots
<1>10. Behind(g.allgc, g.sweepgc) \subseteq Behind(w, g.sweepgc)
  BY <1>6, BehindExtends
<1>11. Ahead(g) \ {o} \subseteq Ahead(m)
  BY <1>3, <1>7, <1>10 DEF Ahead
<1>12. g.sweepgc \in Range(g.allgc) \cup {Nil} /\ g.sweepfin \in Range(g.finobj) \cup {Nil}
  BY <1>1 DEF Phase, Sweeping, Loose
<1>13. m.sweepgc \in Range(m.allgc) \cup {Nil} /\ m.sweepfin \in Range(m.finobj) \cup {Nil}
  BY <1>6, <1>7, <1>12
<1>14. g.kind[o] \notin {"thread", "open"}
  BY <1>5 DEF Tables
<1>15. Relinks(g, m)
  BY <1>7 DEF Relinks
<1>16. QED
  BY <1>3, <1>4, <1>7, <1>8, <1>9, <1>11, <1>13, <1>14, <1>15 DEF Moves

\* GCTM calls a finalizer
LEMMA FinalizeKeeps ==
    ASSUME IInv, Finalize
    PROVE  IInv'
<1>1. PICK o : o = Head(h.tobefnz)
  OBVIOUS
<1>2. PICK m, r : /\ Unfinals(h, m, o) /\ r = (IF KeepInvariant(h) THEN m ELSE MakeWhite(m, o))
                  /\ h' = [r EXCEPT !.val[Main][0] = o]
  BY <1>1, Zenon DEF Finalize, Udata2Finalize, Unfinals
<1>3. Moves(h, m, o)
  BY <1>1, <1>2, UnfinalsMoves DEF IInv, Finalize
<1>4. Phase(r, {}) /\ Sound(r) = Sound(h)
  BY <1>2, <1>3, MovedPhase DEF IInv
<1>5. o \in Sound(r) /\ o \in Objs /\ r \in Heap
  BY <1>3, <1>4, PhaseFacts DEF Moves
<1>6. Puts(r, h', Main, 0, o)
  BY <1>2, <1>5, Names DEF Puts
<1>7. Phase(h', {})
  BY <1>4, <1>5, <1>6, SlotSet, Names
<1>8. QED
  BY <1>7 DEF IInv

\* and it returns.
LEMMA FinalizerReturnsKeeps ==
    ASSUME IInv, FinalizerReturns
    PROVE  IInv'
<1>1. h \in Heap
  BY PhaseFacts DEF IInv
<1>2. Puts(h, h', Main, 0, Nil)
  BY <1>1, Names DEF Puts, FinalizerReturns
<1>3. Phase(h', {})
  BY <1>2, SlotSet, Names DEF IInv
<1>4. QED
  BY <1>3 DEF IInv

\* What the phase depends on.
LEMMA AlikePhase ==
    ASSUME NEW g, NEW X, Phase(g, X), NEW n, Alike(g, n), Still(g, n)
    PROVE  Phase(n, X)
<1>1. Structure(g, {}) /\ g.state # "atomic" /\ g \in Heap
  BY PhaseFacts DEF Phase
<1>2. PreSweep(g)
  BY <1>1, StructureIs
<1>3. PreSweep(n)
  BY <1>2, AlikeCore DEF PreSweep, Alike
<1>4. Structure(n, {}) /\ n.state = g.state
  BY <1>3, StructureIs DEF Still
<1>5. ASSUME g.state = "propagate"
      PROVE  Loose(n, X)
  <2>1. Loose(g, X)
    BY <1>5 DEF Phase
  <2>2. /\ Filed(n) /\ Tidy(n, {}) /\ Live(n) = Sound(n) /\ ~IsWhite(n, Main)
        /\ Live(n) = Live(g) /\ NonWhite(n) = NonWhite(g)
        /\ n.sweepfin = Nil /\ n.sweepgc = Nil /\ n.strings = {}
    BY <2>1, LooseKept DEF Alike, Still
  <2>3. \A x, S : RefsIn(n, x, S) <=> RefsIn(g, x, S)
    BY AlikeCore
  <2>4. n.col = g.col
    BY DEF Alike
  <2>5. Blacks(n, X)
    BY <2>1, <2>2, <2>3, <2>4 DEF Loose, Blacks
  <2>6. QED
    BY <2>2, <2>5 DEF Loose
<1>6. ASSUME g.state # "propagate"
      PROVE  Sweeping(n)
  <2>1. Sweeping(g)
    BY <1>6 DEF Phase
  <2>2. QED
    BY <2>1 DEF Sweeping, Alike, Still, SameGray, SameLists, GrayLists, Strings, Of, Ahead, Swept1
<1>7. QED
  BY <1>1, <1>4, <1>5, <1>6 DEF Phase

\* The program waits for the cycle, or a gray list became circular.
Asks(g, n) == \E f \in {"no", "finish", "cycle"} : n = [g EXCEPT !.full = f]
Stuck(g, n) == n = [g EXCEPT !.looped = TRUE]

\* Neither changes the phase.
LEMMA AsksPhase ==
    ASSUME NEW g, NEW X, Phase(g, X), NEW n, Asks(g, n) \/ Stuck(g, n)
    PROVE  Phase(n, X)
<1>1. g \in Heap
  BY PhaseFacts
<1>2. CASE Asks(g, n)
  <2>1. PICK f \in {"no", "finish", "cycle"} : n = [g EXCEPT !.full = f]
    BY <1>2 DEF Asks
  <2>2. Alike(g, n) /\ Still(g, n)
    BY <1>1, <2>1 DEF Heap, Alike, Still, SameGray, SameLists
  <2>3. QED
    BY <2>2, AlikePhase
<1>3. CASE Stuck(g, n)
  <2>1. Alike(g, n) /\ Still(g, n)
    BY <1>1, <1>3 DEF Stuck, Heap, Alike, Still, SameGray, SameLists
  <2>2. QED
    BY <2>1, AlikePhase
<1>4. QED
  BY <1>2, <1>3

\* The sweep starts.
LEMMA EnteredPhase ==
    ASSUME NEW g, Structure(g, {})
    PROVE  Phase(EnterSweep(g), {})
BY SweepEntered DEF Phase

\* luaC_fullgc gives up a mark phase, which is safe at any time.
LEMMA FullGCKeeps ==
    ASSUME IInv, FullGC
    PROVE  IInv'
<1>1. PICK m : m = IF KeepInvariant(h) THEN EnterSweep(h) ELSE h
  OBVIOUS
<1>2. Phase(m, {})
  BY <1>1, PhaseFacts, EnteredPhase DEF IInv
<1>3. h' = [m EXCEPT !.full = "finish"]
  BY <1>1 DEF FullGC
<1>4. ASSUME NEW n, n = [m EXCEPT !.full = "finish"]
      PROVE  Phase(n, {})
  <2>1. Asks(m, n)
    BY <1>4 DEF Asks
  <2>2. QED
    BY <1>2, <2>1, AsksPhase
<1>5. QED
  BY <1>3, <1>4 DEF IInv

\* atomic and entersweep
LEMMA FinishMarkKeeps ==
    ASSUME IInv, FinishMark
    PROVE  IInv'
<1>1. h.state = "propagate" /\ h.gray = {} /\ h' = Swept(Atomic(h))
  BY DEF FinishMark, Collecting
<1>2. Structure(h, {}) /\ Loose(h, {})
  BY <1>1 DEF IInv, Phase
<1>3. PreSweep(Atomic(h))
  BY <1>1, <1>2, PropagatingIs, AtomicPreSweep
<1>4. Structure(Atomic(h), {})
  BY <1>3, StructureIs
<1>5. CASE Atomic(h).looped
  <2>1. h' = [h EXCEPT !.looped = TRUE]
    BY <1>1, <1>5 DEF Swept
  <2>2. Stuck(h, h')
    BY <2>1 DEF Stuck
  <2>3. QED
    BY <2>2, AsksPhase DEF IInv
<1>6. CASE ~Atomic(h).looped
  <2>1. h' = EnterSweep(Atomic(h))
    BY <1>1, <1>6 DEF Swept
  <2>2. QED
    BY <1>4, <2>1, EnteredPhase DEF IInv
<1>7. QED
  BY <1>5, <1>6

\* propagatemark
LEMMA PropagateKeeps ==
    ASSUME IInv, NEW o \in Bodies, Propagate(o)
    PROVE  IInv'
<1>1. h.state = "propagate" /\ o \in h.gray /\ h' = Traverse(h, o)
  BY DEF Propagate, Collecting
<1>2. Structure(h, {}) /\ Loose(h, {}) /\ h \in Heap
  BY <1>1 DEF IInv, Phase, Structure
<1>3. Marking(h, Grays(h))
  <2>1. Marking(h, Grays(h) \cup {})
    BY <1>2, LooseMarking
  <2>2. Grays(h) \cup {} = Grays(h)
    OBVIOUS
  <2>3. QED
    BY <2>1, <2>2
<1>4. ASSUME NEW m, Propagates(h, m, o, Grays(h))
      PROVE  Phase(m, {})
  <2>1. Marking(m, Grays(h)) /\ Follows(h, m) /\ Tidy(m, {}) /\ Done(m, o)
    BY <1>2, <1>4 DEF Propagates, Grows, Loose
  <2>2. ~IsWhite(m, Main) /\ Live(m) = Live(h)
    BY <1>2, <2>1, FollowsWhite, Names DEF Loose
  <2>3. m.sweepfin = Nil /\ m.sweepgc = Nil /\ m.strings = {} /\ m.state = "propagate"
    BY <1>1, <1>2, <2>1 DEF Follows, Fixed, Loose
  <2>4. ASSUME NEW x \in Live(m), m.col[x] = "black", x \in Grays(h)
        PROVE  Done(m, x)
    <3>1. x \in Bodies /\ h.col[x] = "gray" /\ ~IsWhite(h, x)
      BY <2>4 DEF Grays, IsWhite
    <3>2. x = o
      BY <1>4, <2>4, <3>1 DEF Propagates
    <3>3. QED
      BY <2>1, <3>2
  <2>5. Structure(m, {}) /\ Loose(m, {})
    BY <2>1, <2>2, <2>3, <2>4, MarkingLoose
  <2>6. QED
    BY <2>3, <2>5 DEF Phase
<1>5. Phase(Traverse(h, o), {})
  BY <1>1, <1>3, <1>4, TraverseVisits
<1>6. QED
  BY <1>1, <1>5 DEF IInv

\* Neither Nil nor an object is the head of a list.
LEMMA NotNil ==
    Nil # "header" /\ "header" \notin Objs
BY GCAssumption

\* Nothing stands behind the end of a list.
LEMMA NilBehind ==
    ASSUME NEW s \in Seq(Objs)
    PROVE  Behind(s, Nil) = {}
<1>1. Stands(s, "header")
  BY DEF Stands
<1>2. QED
  BY <1>1, NilNotHere

\* What Phase says of a sweep.
LEMMA SweepingIs ==
    ASSUME NEW g, Phase(g, {}), g.state # "propagate"
    PROVE  /\ g \in Heap /\ Structure(g, {}) /\ Sweeping(g) /\ ~KeepInvariant(g) /\ g.state # "atomic"
           /\ g.allgc \in Seq(Objs) /\ g.finobj \in Seq(Objs)
BY PhaseFacts, HeapTypes DEF Phase, Structure

-----------------------------------------------------------------------------
\* m is g where the string s was swept; n has it no longer to sweep.
StringSwept(g, m, s) ==
  /\ Structure(m, {}) /\ Stays(g, m) /\ m.allgc = g.allgc /\ m.finobj = g.finobj
  /\ \A A : Swept1(g, A) => Swept1(m, A)
  /\ m.kind[s] = "free" \/ m.col[s] = m.white
  /\ \A x \in Objs : x # s => m.kind[x] = g.kind[x] /\ m.at[x] = g.at[x]
StringDone(m, n, s) == n = [m EXCEPT !.strings = @ \ {s}]

\* A swept string is not to be swept again.
LEMMA StringGone ==
    ASSUME NEW g, Phase(g, {}), g.state = "sweepstring", NEW s \in g.strings, NEW m, StringSwept(g, m, s),
           NEW n, StringDone(m, n, s)
    PROVE  Phase(n, {})
<1>1. g \in Heap /\ Sweeping(g) /\ Structure(g, {}) /\ m \in Heap
  BY SweepingIs DEF StringSwept, Structure
<1>2. PICK T : T = m.strings \ {s}
  OBVIOUS
<1>3. T \subseteq Objs
  BY <1>1, <1>2, HeapTypes
<1>4. n = [m EXCEPT !.strings = T]
  BY <1>2 DEF StringDone
<1>5. Alike(m, n) /\ SameGray(m, n) /\ n.strings = T /\ n.state = m.state
      /\ n.sweepfin = m.sweepfin /\ n.sweepgc = m.sweepgc
  BY <1>1, <1>3, <1>4 DEF Heap, Alike, SameGray, SameLists
<1>6. /\ m.white = g.white /\ m.state = "sweepstring" /\ SameGray(g, m) /\ m.tobefnz = g.tobefnz
      /\ m.sweepfin = g.sweepfin /\ m.sweepgc = g.sweepgc /\ m.strings = g.strings
      /\ m.allgc = g.allgc /\ m.finobj = g.finobj
  BY DEF StringSwept, Stays
<1>7. Structure(n, {})
  <2>1. PreSweep(m)
    BY StructureIs DEF StringSwept
  <2>2. PreSweep(n)
    BY <1>5, <2>1, AlikeCore DEF PreSweep, Alike
  <2>3. QED
    BY <2>2, StructureIs
<1>8. GrayLists(n) = {}
  BY <1>1, <1>5, <1>6 DEF Sweeping, SameGray, SameLists, GrayLists
<1>9. n.strings \subseteq Strings(n)
  <2>1. ASSUME NEW x \in n.strings
        PROVE  x \in Objs /\ n.kind[x] = "string"
    <3>1. x \in g.strings /\ x # s
      BY <1>2, <1>5, <1>6, <2>1
    <3>2. x \in Objs /\ g.kind[x] = "string"
      BY <1>1, <3>1 DEF Sweeping, Strings, Of
    <3>3. QED
      BY <1>5, <3>1, <3>2 DEF StringSwept, Alike
  <2>2. QED
    BY <2>1 DEF Strings, Of
<1>10. Swept1(n, Ahead(n))
  <2>1. Swept1(m, Ahead(g))
    BY <1>1 DEF Sweeping, StringSwept
  <2>2. Ahead(g) \subseteq Ahead(n) \cup {s}
    BY <1>2, <1>5, <1>6 DEF Ahead, Alike
  <2>3. g.kind[s] = "string"
    BY <1>1 DEF Sweeping, Strings, Of
  <2>4. ASSUME NEW x \in Objs, n.kind[x] # "free", n.col[x] # n.white
        PROVE  IF n.kind[x] = "open" THEN n.at[x][1] \in Ahead(n) ELSE x \in Ahead(n)
    <3>1. m.kind[x] # "free" /\ m.col[x] # m.white /\ n.kind[x] = m.kind[x] /\ n.at[x] = m.at[x]
      BY <1>5, <2>4 DEF Alike
    <3>2. x # s
      BY <3>1 DEF StringSwept
    <3>3. IF m.kind[x] = "open" THEN m.at[x][1] \in Ahead(g) ELSE x \in Ahead(g)
      BY <2>1, <3>1 DEF Swept1
    <3>4. m.kind[x] = "open" => m.at[x][1] # s
      <4>1. m.kind[x] = g.kind[x] /\ m.at[x] = g.at[x]
        BY <3>2 DEF StringSwept
      <4>2. g.kind[x] = "open" => g.kind[g.at[x][1]] = "thread"
        BY <1>1, AtPair DEF Structure
      <4>3. QED
        BY <2>3, <4>1, <4>2
    <3>5. QED
      BY <2>2, <3>1, <3>2, <3>3, <3>4
  <2>5. QED
    BY <2>4 DEF Swept1
<1>11. Sweeping(n)
  BY <1>1, <1>5, <1>6, <1>8, <1>9, <1>10 DEF Sweeping, Alike
<1>12. QED
  BY <1>5, <1>6, <1>7, <1>11 DEF Phase

\* GCSsweepstring
LEMMA SweepStringsKeeps ==
    ASSUME IInv, NEW s \in Bodies, SweepStrings(s)
    PROVE  IInv'
<1>1. PICK m : m = IF IsDead(h, s) THEN Erase(h, {s}) ELSE MakeWhite(h, s)
  OBVIOUS
<1>2. h.state = "sweepstring" /\ s \in h.strings /\ h' = [m EXCEPT !.strings = @ \ {s}]
  BY <1>1 DEF SweepStrings, Collecting
<1>3. h \in Heap /\ Structure(h, {}) /\ Sweeping(h) /\ s \in Objs /\ h.kind[s] = "string"
  BY <1>2, SweepingIs DEF IInv, Sweeping, Strings, Of
<1>4. StringSwept(h, m, s)
  <2>1. CASE IsDead(h, s)
    <3>1. m = Erase(h, {s})
      BY <1>1, <2>1
    <3>2. \A u \in Objs : h.kind[u] = "open" /\ u \notin {s} => h.at[u][1] \notin {s}
      BY <1>3, AtPair DEF Structure
    <3>3. /\ Structure(Erase(h, {s}), {} \ {s}) /\ Erases(h, Erase(h, {s}), {s})
          /\ \A A : Swept1(h, A) => Swept1(Erase(h, {s}), A)
      BY <1>3, <2>1, <3>2, Erased
    <3>4. {} \ {s} = {}
      OBVIOUS
    <3>5. QED
      BY <1>3, <3>1, <3>3, <3>4, Names DEF StringSwept, Erases
  <2>2. CASE ~IsDead(h, s)
    <3>1. m = MakeWhite(h, s) /\ s \in Sound(h)
      BY <1>1, <1>3, <2>2, NotDead, Names
    <3>2. /\ Structure(m, {}) /\ Whitens(h, m, {s}) /\ \A A : Swept1(h, A) => Swept1(m, A)
      BY <1>3, <3>1, WhiteMade
    <3>3. QED
      BY <1>3, <3>2, Names DEF StringSwept, Whitens, SweptFrom
  <2>3. QED
    BY <2>1, <2>2
<1>5. StringDone(m, h', s)
  BY <1>2 DEF StringDone
<1>6. QED
  BY <1>2, <1>4, <1>5, StringGone DEF IInv

\* Its end
LEMMA StringsSweptKeeps ==
    ASSUME IInv, StringsSwept
    PROVE  IInv'
<1>1. h.state = "sweepstring" /\ h.strings = {} /\ h' = [h EXCEPT !.state = "sweepudata"]
  BY DEF StringsSwept, Collecting
<1>2. h \in Heap /\ Structure(h, {}) /\ Sweeping(h)
  BY <1>1, SweepingIs DEF IInv
<1>3. /\ Alike(h, h') /\ SameGray(h, h') /\ h'.strings = h.strings /\ h'.state = "sweepudata"
      /\ h'.sweepfin = h.sweepfin /\ h'.sweepgc = h.sweepgc
  BY <1>1, <1>2 DEF Heap, Alike, SameGray, SameLists, States
<1>4. Structure(h', {})
  <2>1. PreSweep(h)
    BY <1>2, StructureIs
  <2>2. PreSweep(h')
    BY <1>3, <2>1, AlikeCore DEF PreSweep, Alike
  <2>3. QED
    BY <2>2, StructureIs
<1>5. Sweeping(h')
  BY <1>1, <1>2, <1>3 DEF Sweeping, Alike, SameGray, SameLists, GrayLists, Strings, Of, Ahead, Swept1
<1>6. QED
  BY <1>3, <1>4, <1>5 DEF IInv, Phase

\* Only the state changes, from a sweep of strings or of finobj to one of allgc.
LEMMA SweepUdataKeeps ==
    ASSUME IInv, SweepUdata
    PROVE  IInv'
<1>1. h.state = "sweepudata"
  BY DEF SweepUdata, Collecting
<1>2. h \in Heap /\ Structure(h, {}) /\ Sweeping(h) /\ ~KeepInvariant(h)
  BY <1>1, SweepingIs DEF IInv
<1>3. CASE h.sweepfin = Nil
  <2>1. h' = [h EXCEPT !.state = "sweep"]
    BY <1>3 DEF SweepUdata
  <2>2. /\ Alike(h, h') /\ SameGray(h, h') /\ h'.strings = h.strings /\ h'.state = "sweep"
        /\ h'.sweepfin = h.sweepfin /\ h'.sweepgc = h.sweepgc
    BY <1>2, <2>1 DEF Heap, Alike, SameGray, SameLists, States
  <2>3. Structure(h', {})
    <3>1. PreSweep(h)
      BY <1>2, StructureIs
    <3>2. PreSweep(h')
      BY <2>2, <3>1, AlikeCore DEF PreSweep, Alike
    <3>3. QED
      BY <3>2, StructureIs
  <2>4. Sweeping(h')
    BY <1>1, <1>2, <1>3, <2>2 DEF Sweeping, Alike, SameGray, SameLists, GrayLists, Strings, Of, Ahead, Swept1
  <2>5. QED
    BY <2>2, <2>3, <2>4 DEF IInv, Phase
<1>4. CASE h.sweepfin # Nil
  <2>1. Stands(List(h, "finobj"), h.sweepfin)
    BY <1>2, <1>4 DEF Sweeping, Stands, List
  <2>2. PICK m, q : /\ SweepList(h, "finobj", h.sweepfin) = [g |-> m, p |-> q]
                    /\ SweptOn(h, m, "finobj", h.sweepfin, q) /\ q \in Objs \cup {Nil, "header"}
    BY <1>2, <2>1, ListSwept
  <2>3. h' = [m EXCEPT !.sweepfin = q]
    <3>1. h' = [SweepList(h, "finobj", h.sweepfin).g EXCEPT
                  !.sweepfin = SweepList(h, "finobj", h.sweepfin).p]
      BY <1>4 DEF SweepUdata
    <3>2. QED
      BY <2>2, <3>1
  <2>4. FinAt(m, h', q)
    BY <2>3 DEF FinAt
  <2>5. SweptOn(h, m, "finobj", h.sweepfin, q) /\ q \in Places
    BY <2>2 DEF Places
  <2>6. QED
    BY <1>1, <1>4, <2>4, <2>5, FinMoved DEF IInv
<1>5. QED
  BY <1>3, <1>4

-----------------------------------------------------------------------------
\* The main thread is swept last, and the cycle ends.
Ends(m, n) ==
  \E f \in {"no", "finish", "cycle"} : n = [m EXCEPT !.state = "pause", !.full = f]

EndsWith(m, n, f) == n = [m EXCEPT !.state = "pause", !.full = f]

\* What the end of a cycle leaves alone.
LEMMA Ended ==
    ASSUME NEW m \in Heap, NEW f \in {"no", "finish", "cycle"}, NEW n, EndsWith(m, n, f)
    PROVE  /\ Alike(m, n) /\ SameGray(m, n) /\ n.strings = m.strings /\ n.state = "pause"
           /\ n.sweepfin = m.sweepfin /\ n.sweepgc = m.sweepgc
BY DEF EndsWith, Heap, Alike, SameGray, SameLists, States

\* When Main is swept too, everything is white but what is due for a finalizer.
LEMMA CycleEnds ==
    ASSUME NEW g, Phase(g, {}), g.state = "sweep", g.sweepgc = Nil, NEW r, NEW m, NEW n,
           Structure(r, {}), SweptFrom(g, r), r.allgc = g.allgc, r.finobj = g.finobj,
           \A A : Swept1(g, A) => Swept1(r, A),
           \A u \in Objs : r.kind[u] = "open" /\ r.at[u][1] = Main => r.col[u] = r.white,
           Whitens(r, m, {Main}), Structure(m, {}), \A A : Swept1(r, A) => Swept1(m, A), Ends(m, n)
    PROVE  Phase(n, {})
<1>1. g \in Heap /\ Sweeping(g) /\ r \in Heap /\ m \in Heap
  BY SweepingIs DEF Structure
<1>2. PICK f \in {"no", "finish", "cycle"} : EndsWith(m, n, f)
  BY DEF Ends, EndsWith
<1>3. /\ Alike(m, n) /\ SameGray(m, n) /\ n.strings = m.strings /\ n.state = "pause"
      /\ n.sweepfin = m.sweepfin /\ n.sweepgc = m.sweepgc
  BY <1>1, <1>2, Ended
<1>4. /\ SameGray(g, r) /\ SameGray(r, m) /\ r.white = g.white /\ m.white = g.white
      /\ r.tobefnz = g.tobefnz /\ m.tobefnz = g.tobefnz /\ r.strings = g.strings /\ m.strings = g.strings
      /\ m.sweepfin = g.sweepfin /\ m.sweepgc = g.sweepgc
      /\ m.allgc = g.allgc /\ m.finobj = g.finobj /\ m.kind = r.kind /\ m.at = r.at
      /\ m.col[Main] = r.white /\ \A x \in Bodies : x # Main => m.col[x] = r.col[x]
  BY Names DEF Whitens, SweptFrom, Stays
<1>5. Structure(n, {})
  <2>1. PreSweep(m)
    BY StructureIs
  <2>2. PreSweep(n)
    BY <1>3, <2>1, AlikeCore DEF PreSweep, Alike
  <2>3. QED
    BY <2>2, StructureIs
<1>6. GrayLists(n) = {} /\ n.strings = {} /\ n.sweepfin = Nil /\ n.sweepgc = Nil
  BY <1>1, <1>3, <1>4 DEF Sweeping, SameGray, SameLists, GrayLists
<1>7. Swept1(n, Ahead(n))
  <2>1. Ahead(n) = Ahead(g)
    BY <1>3, <1>4 DEF Ahead, Alike
  <2>2. Swept1(m, Ahead(g))
    BY <1>1 DEF Sweeping
  <2>3. QED
    BY <1>3, <2>1, <2>2 DEF Swept1, Alike
<1>8. n.col[Main] = n.white
  BY <1>3, <1>4 DEF Alike
<1>9. \A u \in Objs : n.kind[u] = "open" /\ n.at[u][1] = Main => n.col[u] = n.white
  BY <1>3, <1>4, Names DEF Alike
<1>10. Sweeping(n)
  BY <1>3, <1>6, <1>7, <1>8, <1>9 DEF Sweeping, Strings
<1>11. QED
  BY <1>3, <1>5, <1>10 DEF Phase

\* GCSsweep, and the end of the cycle
LEMMA SweepKeeps ==
    ASSUME IInv, Sweep
    PROVE  IInv'
<1>1. h.state = "sweep"
  BY DEF Sweep, Collecting
<1>2. h \in Heap /\ Structure(h, {}) /\ Sweeping(h) /\ ~KeepInvariant(h) /\ h.full \in {"no", "finish", "cycle"}
  BY <1>1, SweepingIs, HeapTypes DEF IInv
<1>3. CASE h.sweepgc # Nil
  <2>1. Stands(List(h, "allgc"), h.sweepgc)
    BY <1>2, <1>3 DEF Sweeping, Stands, List
  <2>2. PICK m, q : /\ SweepList(h, "allgc", h.sweepgc) = [g |-> m, p |-> q]
                    /\ SweptOn(h, m, "allgc", h.sweepgc, q) /\ q \in Objs \cup {Nil, "header"}
    BY <1>2, <2>1, ListSwept
  <2>3. h' = [m EXCEPT !.sweepgc = q]
    <3>1. h' = [SweepList(h, "allgc", h.sweepgc).g EXCEPT
                  !.sweepgc = SweepList(h, "allgc", h.sweepgc).p]
      BY <1>3 DEF Sweep
    <3>2. QED
      BY <2>2, <3>1
  <2>4. GcAt(m, h', q)
    BY <2>3 DEF GcAt
  <2>5. SweptOn(h, m, "allgc", h.sweepgc, q) /\ q \in Places
    BY <2>2 DEF Places
  <2>6. QED
    BY <1>1, <1>3, <2>4, <2>5, GcMoved DEF IInv
<1>4. CASE h.sweepgc = Nil
  <2>1. PICK r : r = SweepThread(h, Main)
    OBVIOUS
  <2>2. /\ Structure(r, {}) /\ SweptFrom(h, r) /\ r.allgc = h.allgc /\ r.finobj = h.finobj
        /\ \A A : Swept1(h, A) => Swept1(r, A)
        /\ \A u \in Objs : r.kind[u] = "open" /\ r.at[u][1] = Main => r.col[u] = r.white
    BY <1>2, <2>1, ThreadSwept
  <2>3. PICK m : m = MakeWhite(r, Main)
    OBVIOUS
  <2>4. Main \in Sound(r)
    BY <2>2 DEF Structure, Solid, Roots
  <2>5. Structure(m, {}) /\ Whitens(r, m, {Main}) /\ \A A : Swept1(r, A) => Swept1(m, A)
    BY <2>2, <2>3, <2>4, WhiteMade
  <2>6. h' = [m EXCEPT !.state = "pause", !.full = IF @ = "cycle" THEN "no" ELSE @]
    BY <1>4, <2>1, <2>3, Zenon DEF Sweep
  <2>7. m.full = h.full
    BY <2>2, <2>5 DEF SweptFrom, Stays, Whitens
  <2>8. Ends(m, h')
    BY <1>2, <2>6, <2>7 DEF Ends
  <2>9. QED
    BY <1>1, <1>4, <2>2, <2>5, <2>8, CycleEnds DEF IInv
<1>5. QED
  BY <1>3, <1>4

-----------------------------------------------------------------------------
\* A cycle begins.
Begins(g, n) == \E f \in {"no", "finish", "cycle"} :
  n = [g EXCEPT !.state = "propagate", !.gray = {}, !.full = f]

\* Between two cycles everything is white but what is due for a finalizer.
LEMMA PauseWhite ==
    ASSUME NEW g, Phase(g, {}), g.state = "pause"
    PROVE  /\ Live(g) = Sound(g) /\ g.col[Main] = g.white
           /\ \A o \in Live(g) : o \notin Range(g.tobefnz) => g.col[o] = g.white
<1>1. g \in Heap /\ Structure(g, {}) /\ Sweeping(g) /\ g.allgc \in Seq(Objs) /\ g.finobj \in Seq(Objs)
  BY SweepingIs
<1>2. g.sweepgc = Nil /\ g.sweepfin = Nil /\ g.strings = {} /\ g.col[Main] = g.white
  BY <1>1 DEF Sweeping
<1>3. Ahead(g) = {Main} \cup Range(g.tobefnz)
  BY <1>1, <1>2, NilBehind DEF Ahead
<1>4. \A o \in Range(g.tobefnz) : g.kind[o] # "thread" /\ o \in Objs
  <2>1. ASSUME NEW o \in Range(g.tobefnz)
        PROVE  g.kind[o] # "thread" /\ o \in Objs
    <3>1. g.tobefnz \in Seq(Objs)
      BY <1>1, HeapTypes
    <3>2. o \in Objs
      BY <3>1, RangeIs
    <3>3. g.cast[o].gc /\ g.kind[o] # "free"
      BY <1>1, <3>2 DEF Structure, ListedBut
    <3>4. g.kind[o] \in Tables \cup {"udata"}
      BY <1>1, <3>2, <3>3, CastIs DEF Structure, Shaped
    <3>5. QED
      BY <3>2, <3>4 DEF Tables
  <2>2. QED
    BY <2>1
<1>5. ASSUME NEW o \in Live(g), o \notin Range(g.tobefnz)
      PROVE  g.col[o] = g.white
  <2>1. CASE o = Main
    BY <1>2, <2>1
  <2>2. CASE o # Main
    <3>1. o \in Objs /\ g.kind[o] # "free"
      BY <1>5, <2>2 DEF Live, Bodies
    <3>2. SUFFICES ASSUME g.col[o] # g.white PROVE FALSE
      OBVIOUS
    <3>3. IF g.kind[o] = "open" THEN g.at[o][1] \in Ahead(g) ELSE o \in Ahead(g)
      BY <1>1, <3>1, <3>2 DEF Sweeping, Swept1
    <3>4. g.kind[o] = "open"
      BY <1>3, <1>5, <2>2, <3>3
    <3>5. g.kind[g.at[o][1]] = "thread"
      BY <1>1, <3>1, <3>4, AtPair DEF Structure
    <3>6. g.at[o][1] = Main
      BY <1>3, <1>4, <3>3, <3>4, <3>5
    <3>7. g.col[o] = g.white
      BY <1>1, <3>1, <3>4, <3>6 DEF Sweeping
    <3>8. QED
      BY <3>2, <3>7
  <2>3. QED
    BY <2>1, <2>2
<1>6. Live(g) \subseteq Sound(g)
  <2>1. Range(g.tobefnz) \subseteq Sound(g)
    BY <1>1 DEF Structure, Solid, Roots
  <2>2. g.white # Other(g.white)
    BY PhaseFacts
  <2>3. QED
    BY <1>5, <2>1, <2>2 DEF Sound
<1>7. QED
  BY <1>2, <1>5, <1>6 DEF Sound

\* Nothing is marked when a cycle begins but what is due for a finalizer.
LEMMA Begun ==
    ASSUME NEW g, Phase(g, {}), g.state = "pause", NEW n, Begins(g, n)
    PROVE  /\ Marking(n, Range(n.tobefnz)) /\ Tidy(n, Range(n.tobefnz)) /\ Others(n) = {}
           /\ n.sweepfin = Nil /\ n.sweepgc = Nil /\ n.strings = {} /\ n.state = "propagate"
           /\ n.tobefnz \in Seq(Objs)
<1>1. g \in Heap /\ Structure(g, {}) /\ Sweeping(g) /\ g.white \in {"white0", "white1"}
  BY SweepingIs, HeapTypes
<1>2. PICK f \in {"no", "finish", "cycle"} : n = [g EXCEPT !.state = "propagate", !.gray = {}, !.full = f]
  BY DEF Begins
<1>3. /\ Alike(g, n) /\ SameLists(g, n) /\ n.gray = {} /\ n.strings = g.strings /\ n.state = "propagate"
      /\ n.sweepfin = g.sweepfin /\ n.sweepgc = g.sweepgc
  BY <1>1, <1>2 DEF Heap, Alike, SameLists, States
<1>4. GrayLists(n) = {} /\ Others(n) = {}
  BY <1>1, <1>3 DEF Sweeping, SameLists, GrayLists, Others
<1>5. n.strings = {} /\ n.sweepfin = Nil /\ n.sweepgc = Nil
  BY <1>1, <1>3 DEF Sweeping
<1>6. Core(n)
  <2>1. Core(g)
    BY <1>1, PauseWhite, CoreIs
  <2>2. QED
    BY <1>3, <2>1, AlikeCore
<1>7. \A o \in Live(n) : o \notin Range(n.tobefnz) => IsWhite(n, o)
  <2>1. Live(n) = Live(g) /\ n.tobefnz = g.tobefnz /\ n.col = g.col
    BY <1>3, AlikeCore DEF Alike
  <2>2. \A o \in Live(g) : o \notin Range(g.tobefnz) => g.col[o] = g.white
    BY PauseWhite
  <2>3. QED
    BY <1>1, <2>1, <2>2 DEF IsWhite
<1>8. Filed(n)
  BY <1>4 DEF Filed, GrayLists
<1>9. Covered(n, Range(n.tobefnz))
  BY <1>7 DEF Covered
<1>10. Tidy(n, Range(n.tobefnz))
  <2>1. \A o \in Live(n) \ Range(n.tobefnz) : n.col[o] # "gray"
    BY <1>7 DEF IsWhite
  <2>2. QED
    BY <1>3, <1>4, <2>1 DEF Tidy
<1>11. n.tobefnz \in Seq(Objs)
  BY <1>3, HeapTypes DEF Alike
<1>12. QED
  BY <1>3, <1>4, <1>5, <1>6, <1>8, <1>9, <1>10, <1>11 DEF Marking

\* restartcollection
LEMMA RestartKeeps ==
    ASSUME IInv, Restart
    PROVE  IInv'
<1>1. PICK n : n = [h EXCEPT !.state = "propagate", !.gray = {}, !.full = IF Full(h) THEN "cycle" ELSE "no"]
  OBVIOUS
<1>2. h.state = "pause" /\ h' = MarkBeingFnz(Mark(n, {Main}))
  BY <1>1, Zenon DEF Restart, Collecting
<1>3. Begins(h, n)
  BY <1>1 DEF Begins
<1>4. /\ Marking(n, Range(n.tobefnz)) /\ Tidy(n, Range(n.tobefnz)) /\ Others(n) = {}
      /\ n.sweepfin = Nil /\ n.sweepgc = Nil /\ n.strings = {} /\ n.state = "propagate"
      /\ n.tobefnz \in Seq(Objs)
  BY <1>2, <1>3, Begun DEF IInv
<1>5. PICK P : P = Range(n.tobefnz)
  OBVIOUS
<1>6. PICK m : m = Mark(n, {Main})
  OBVIOUS
<1>7. Marking(m, P) /\ Grows(n, m) /\ Main \in NonWhite(m) /\ Paints(n, m, Marked(n, {Main}))
  BY <1>4, <1>5, <1>6, MarkCovers, Names
<1>8. Tidy(m, P) /\ Others(m) = {} /\ m.tobefnz = n.tobefnz
  BY <1>4, <1>5, <1>7, PaintTidy DEF Paints, SameLists, Others, Fixed
<1>9. P = {m.tobefnz[i] : i \in 1..Len(m.tobefnz)}
  BY <1>4, <1>5, <1>8, RangeIs
<1>10. ASSUME NEW r, Remarks(m, r, Len(m.tobefnz), P)
       PROVE  Phase(r, {})
  <2>1. Marking(r, {}) /\ Grows(m, r) /\ Tidy(r, {})
    BY <1>8, <1>9, <1>10 DEF Remarks
  <2>2. ~IsWhite(r, Main)
    BY <1>7, <2>1, FollowsWhite, Names DEF Grows, Marking, Core, NonWhite
  <2>3. r.sweepfin = Nil /\ r.sweepgc = Nil /\ r.strings = {} /\ r.state = "propagate"
    BY <1>4, <1>7, <2>1 DEF Grows, Follows, Fixed
  <2>4. Structure(r, {}) /\ Loose(r, {})
    BY <2>1, <2>2, <2>3, MarkingLoose
  <2>5. QED
    BY <2>3, <2>4 DEF Phase
<1>11. Remarks(m, MarkBeingFnz(m), Len(m.tobefnz), P)
  BY <1>7, BeingFnzMarked
<1>12. h' = MarkBeingFnz(m)
  BY <1>2, <1>6
<1>13. Phase(MarkBeingFnz(m), {})
  BY <1>10, <1>11
<1>14. QED
  BY <1>12, <1>13 DEF IInv

\* The heap of a new Lua state.
LEMMA InitKeeps ==
    ASSUME Init
    PROVE  IInv
<1>1. PICK c \in Casts :
        h = [cast |-> c, kind |-> [o \in Bodies |-> IF o = Main THEN "thread" ELSE "free"],
             val |-> [o \in Bodies |-> [k \in Keys |-> Nil]],
             at |-> [o \in Objs |-> Nil],
             col |-> [o \in Bodies |-> IF o = Main THEN "white0" ELSE "gray"],
             white |-> "white0", state |-> "pause", full |-> "no", looped |-> FALSE,
             gray |-> {}, grayagain |-> {}, weak |-> {}, allweak |-> {}, ephemeron |-> {},
             allgc |-> <<>>, finobj |-> <<>>, tobefnz |-> <<>>, finalized |-> {},
             sweepfin |-> Nil, sweepgc |-> Nil, strings |-> {}]
  BY Zenon DEF Init
<1>2. c \in [Objs -> CastOf]
  BY GCAssumption
<1>3. <<>> \in Seq(Objs) /\ Len(<<>>) = 0 /\ Range(<<>>) = {}
  BY DEF Range
<1>4. PICK K : K = [o \in Bodies |-> IF o = Main THEN "thread" ELSE "free"]
  OBVIOUS
<1>5. PICK V : V = [o \in Bodies |-> [k \in Keys |-> Nil]]
  OBVIOUS
<1>6. PICK A : A = [o \in Objs |-> Nil]
  OBVIOUS
<1>7. PICK C : C = [o \in Bodies |-> IF o = Main THEN "white0" ELSE "gray"]
  OBVIOUS
<1>8. /\ h.cast = c /\ h.kind = K /\ h.val = V /\ h.at = A /\ h.col = C /\ h.white = "white0"
      /\ h.state = "pause" /\ h.gray = {} /\ h.grayagain = {} /\ h.weak = {}
      /\ h.allweak = {} /\ h.ephemeron = {} /\ h.allgc = <<>> /\ h.finobj = <<>> /\ h.tobefnz = <<>>
      /\ h.sweepfin = Nil /\ h.sweepgc = Nil /\ h.strings = {}
  BY <1>1, <1>4, <1>5, <1>6, <1>7
<1>9. /\ K \in [Bodies -> Kinds \cup {"free"}] /\ V \in [Bodies -> [Keys -> Objs \cup {Nil}]]
      /\ A \in [Objs -> (Bodies \X Regs) \cup {Nil}] /\ C \in [Bodies -> Colors]
  BY <1>4, <1>5, <1>6, <1>7 DEF Kinds, Colors
<1>10. h = [cast |-> c, kind |-> K, val |-> V, at |-> A, col |-> C,
            white |-> "white0", state |-> "pause", full |-> "no", looped |-> FALSE,
            gray |-> {}, grayagain |-> {}, weak |-> {}, allweak |-> {}, ephemeron |-> {},
            allgc |-> <<>>, finobj |-> <<>>, tobefnz |-> <<>>, finalized |-> {},
            sweepfin |-> Nil, sweepgc |-> Nil, strings |-> {}]
  BY <1>1, <1>4, <1>5, <1>6, <1>7, Zenon
<1>11. h \in Heap
  <2>1. "pause" \in States
    BY DEF States
  <2>2. QED
    BY <1>2, <1>3, <1>9, <1>10, <2>1 DEF Heap
<1>12. /\ \A o \in Objs : h.kind[o] = "free" /\ h.col[o] = "gray" /\ h.at[o] = Nil
       /\ \A o \in Bodies, k \in Keys : h.val[o][k] = Nil
       /\ h.kind[Main] = "thread" /\ h.col[Main] = "white0"
       /\ \A o \in Bodies : o # Main => h.kind[o] = "free" /\ h.col[o] = "gray"
  BY <1>4, <1>5, <1>6, <1>7, <1>8, Names
<1>13. Shaped(h)
  BY <1>12 DEF Shaped, Cast, Roomy, Opened, Colored
<1>14. ListedBut(h, {})
  BY <1>3, <1>8, <1>12 DEF ListedBut, Distinct, Apart
<1>15. Sound(h) = {Main}
  <2>1. Other("white0") = "white1"
    BY DEF Other
  <2>2. QED
    BY <1>8, <1>12, <2>1, Names DEF Sound, Live
<1>16. RefsIn(h, Main, Sound(h)) /\ Closing(h, Main)
  BY <1>12, Names DEF RefsIn, ValuesIn, KeysIn, UpIn, Closing
<1>17. Solid(h)
  BY <1>3, <1>8, <1>15, <1>16 DEF Solid, Roots
<1>18. Sweeping(h)
  BY <1>8, <1>12 DEF Sweeping, GrayLists, Swept1
<1>19. QED
  BY <1>8, <1>11, <1>13, <1>14, <1>17, <1>18 DEF IInv, Phase, Structure

\* Every step preserves the invariant.
LEMMA CollectorKeeps ==
    ASSUME IInv, CollectorStep
    PROVE  IInv'
BY RestartKeeps, FinishMarkKeeps, StringsSweptKeeps, SweepUdataKeeps, SweepKeeps, PropagateKeeps,
   SweepStringsKeeps DEF CollectorStep

\* The steps of the program
LEMMA ProgramKeeps ==
    ASSUME IInv, ProgramStep
    PROVE  IInv'
<1>1. ASSUME NEW r \in Regs, NEW o \in Objs, New(r, o) \/ Intern(r, o)
      PROVE  IInv'
  BY <1>1, NewKeeps, InternKeeps
<1>2. ASSUME NEW r \in Regs, NEW v \in Values \cup {Nil}, Move(r, v)
      PROVE  IInv'
  BY <1>2, MoveKeeps
<1>3. ASSUME NEW r \in Regs, NEW o \in OnStack,
             GetUpval(r, o) \/ \E k \in Keys : Load(r, o, k) \/ LoadKey(r, o, k)
      PROVE  IInv'
  <2>1. ASSUME GetUpval(r, o) PROVE IInv'
    <3>1. h.kind[o] = "lclosure"
      BY <2>1 DEF GetUpval
    <3>2. QED
      BY <2>1, <3>1, GetUpvalKeeps
  <2>2. ASSUME NEW k \in Keys, Load(r, o, k) PROVE IInv'
    BY <2>2, LoadKeeps
  <2>3. ASSUME NEW k \in Keys, LoadKey(r, o, k) PROVE IInv'
    BY <2>3, LoadKeyKeeps
  <2>4. QED
    BY <1>3, <2>1, <2>2, <2>3
<1>4. ASSUME NEW o \in OnStack, NEW v \in Values \cup {Nil},
             SetUpval(o, v) \/ \E k \in Keys : Store(o, k, v)
      PROVE  IInv'
  <2>1. ASSUME SetUpval(o, v) PROVE IInv'
    BY <2>1, SetUpvalKeeps
  <2>2. ASSUME NEW k \in Keys, Store(o, k, v) PROVE IInv'
    BY <2>2, StoreKeeps
  <2>3. QED
    BY <1>4, <2>1, <2>2
<1>5. ASSUME NEW r \in Regs, NEW s \in Regs, NEW p \in OnStack, NEW th \in OnStack \cup {Main},
             MakeClosure(r, p, th, s)
      PROVE  IInv'
  BY <1>5, MakeClosureKeeps
<1>6. ASSUME NEW th \in OnStack \cup {Main}, NEW s \in Regs, Close(th, s)
      PROVE  IInv'
  BY <1>6, CloseKeeps
<1>7. ASSUME NEW o \in OnStack, CheckFinalizer(o)
      PROVE  IInv'
  BY <1>7, CheckFinalizerKeeps
<1>8. QED
  BY <1>1, <1>2, <1>3, <1>4, <1>5, <1>6, <1>7 DEF ProgramStep

\* Every step preserves the invariant.
LEMMA NextKeeps ==
    ASSUME IInv, [Next]_h
    PROVE  IInv'
<1>1. CASE UNCHANGED h
  BY <1>1 DEF IInv
<1>2. CASE Next
  BY <1>2, CollectorKeeps, FullGCKeeps, FinalizeKeeps, FinalizerReturnsKeeps, ProgramKeeps DEF Next
<1>3. QED
  BY <1>1, <1>2

\* The invariant: in every phase the heap is as Phase says, for any objects, any stack
\* size and any casts.
THEOREM HeapInOrder == Spec => []IInv
<1>1. Init => IInv
  BY InitKeeps
<1>2. IInv /\ [Next]_h => IInv'
  BY NextKeeps
<1>3. QED
  BY <1>1, <1>2, PTL DEF Spec

-----------------------------------------------------------------------------
\* A list without duplicates is as long as its set is large.
LEMMA Counted ==
    ASSUME NEW s \in Seq(Objs), Distinct(s)
    PROVE  IsFiniteSet(Range(s)) /\ Cardinality(Range(s)) = Len(s) /\ Len(s) \in Nat
<1>1. /\ Range(s) \subseteq Objs /\ \A x : x \in Range(s) <=> \E i \in 1..Len(s) : s[i] = x
      /\ Len(s) \in Nat /\ DOMAIN s = 1..Len(s)
  BY RangeIs
<1>2. IsFiniteSet(Range(s))
  BY <1>1, FS_Subset, GCAssumption
<1>3. PICK n \in Nat : n = Len(s)
  BY <1>1
<1>4. s \in [1..n -> Range(s)]
  BY <1>1, <1>3
<1>5. s \in Injection(1..n, Range(s))
  BY <1>1, <1>3, <1>4 DEF Distinct, Injection, IsInjective
<1>6. s \in Surjection(1..n, Range(s))
  BY <1>1, <1>3, <1>4 DEF Surjection
<1>7. ExistsBijection(1..n, Range(s))
  BY <1>5, <1>6 DEF Bijection, ExistsBijection
<1>8. Cardinality(Range(s)) = n
  BY <1>7, FS_CountingElements
<1>9. QED
  BY <1>1, <1>2, <1>3, <1>8

\* The size of a disjoint union.
LEMMA DisjointSum ==
    ASSUME NEW S, IsFiniteSet(S), NEW T, IsFiniteSet(T), S \cap T = {}
    PROVE  IsFiniteSet(S \cup T) /\ Cardinality(S \cup T) = Cardinality(S) + Cardinality(T)
<1>1. /\ IsFiniteSet(S \cup T)
      /\ Cardinality(S \cup T) = Cardinality(S) + Cardinality(T) - Cardinality(S \cap T)
  BY FS_Union
<1>2. Cardinality(S \cap T) = 0
  BY FS_EmptySet
<1>3. Cardinality(S) \in Nat /\ Cardinality(T) \in Nat
  BY FS_CardinalityType
<1>4. QED
  BY <1>1, <1>2, <1>3

\* The lists partition the objects.
LEMMA OrderTypes ==
    ASSUME IInv
    PROVE  TypeOK
<1>1. h \in Heap /\ Structure(h, {}) /\ Opened(h) /\ ListedBut(h, {}) /\ h.state # "atomic"
  BY PhaseFacts DEF IInv, Phase
<1>2. /\ h.kind \in [Bodies -> Kinds \cup {"free"}] /\ h.val \in [Bodies -> [Keys -> Objs \cup {Nil}]]
      /\ h.state \in States /\ h.allgc \in Seq(Objs) /\ h.finobj \in Seq(Objs) /\ h.tobefnz \in Seq(Objs)
  BY <1>1, HeapTypes
<1>3. \A o \in Objs : h.kind[o] \in Kinds \cup {"free"} /\ h.val[o] \in [Keys -> Objs \cup {Nil}]
  BY <1>2, Names
<1>4. \A o \in Objs : (h.at[o] # Nil) <=> (h.kind[o] = "open")
  BY <1>1 DEF Opened
<1>5. h.state \in {"pause", "propagate", "sweepstring", "sweepudata", "sweep"}
  BY <1>1, <1>2 DEF States
<1>6. Of(h, Kinds \ {"string", "open"}) = Range(h.allgc) \cup Waiting \cup Due
  <2>1. Range(h.allgc) \subseteq Objs /\ Waiting \subseteq Objs /\ Due \subseteq Objs
    BY <1>2, RangeIs DEF Waiting, Due
  <2>2. "free" \notin Kinds
    BY DEF Kinds, Tables
  <2>3. \A o \in Objs : h.kind[o] \in Kinds \ {"string", "open"} <=>
                        o \in Range(h.allgc) \cup Waiting \cup Due
    BY <1>1, <1>3, <2>2 DEF ListedBut, Waiting, Due
  <2>4. QED
    BY <2>1, <2>3 DEF Of
<1>7. Len(h.allgc) + Len(h.finobj) + Len(h.tobefnz)
        = Cardinality(Range(h.allgc) \cup Waiting \cup Due)
  <2>1. /\ IsFiniteSet(Range(h.allgc)) /\ Cardinality(Range(h.allgc)) = Len(h.allgc)
        /\ IsFiniteSet(Waiting) /\ Cardinality(Waiting) = Len(h.finobj)
        /\ IsFiniteSet(Due) /\ Cardinality(Due) = Len(h.tobefnz)
        /\ Len(h.allgc) \in Nat /\ Len(h.finobj) \in Nat /\ Len(h.tobefnz) \in Nat
    BY <1>1, <1>2, Counted DEF ListedBut, Waiting, Due
  <2>2. Range(h.allgc) \cap Waiting = {} /\ (Range(h.allgc) \cup Waiting) \cap Due = {}
    BY <1>1 DEF ListedBut, Apart, Waiting, Due
  <2>3. /\ IsFiniteSet(Range(h.allgc) \cup Waiting)
        /\ Cardinality(Range(h.allgc) \cup Waiting) = Cardinality(Range(h.allgc)) + Cardinality(Waiting)
    BY <2>1, <2>2, DisjointSum
  <2>4. Cardinality((Range(h.allgc) \cup Waiting) \cup Due)
          = Cardinality(Range(h.allgc) \cup Waiting) + Cardinality(Due)
    BY <2>1, <2>2, <2>3, DisjointSum
  <2>5. QED
    BY <2>1, <2>3, <2>4
<1>8. h.sweepgc \in Range(h.allgc) \cup {Nil} /\ h.sweepfin \in Waiting \cup {Nil}
  BY DEF IInv, Phase, Loose, Sweeping, Waiting
<1>9. \A o \in h.gray \cup h.grayagain \cup h.weak \cup h.allweak \cup h.ephemeron : IsGray(h, o)
  BY DEF IInv, Phase, Loose, Tidy, Sweeping, GrayLists, IsGray
<1>10. QED
  BY <1>3, <1>4, <1>5, <1>6, <1>7, <1>8, <1>9 DEF TypeOK

\* Every object is on one list of its own, marked gray lists hold gray objects, and the
\* sweep pointers point into the lists they sweep (lgc.cpp:758, 873).
THEOREM TypesRight == Spec => []TypeOK
BY HeapInOrder, OrderTypes, PTL

-----------------------------------------------------------------------------
\* What Refs looks at in o.
From(S, o, how) ==
  LET v == h.val[o]
      every == KeysOf(h, o) \cup {v[k] : k \in Keys}
      strings == {x \in every \ {Nil} : h.kind[x] = "string"}
      keyed == IF how = "strong" THEN {v[k] : k \in S \cap Objs} ELSE {}
  IN CASE h.kind[o] = "open" -> {UpValue(h, o)}
       [] h.kind[o] = "weakvalue" /\ how # "all" -> KeysOf(h, o) \cup strings
       [] h.kind[o] = "ephemeron" /\ how # "all" -> {v[1]} \cup keyed \cup strings
       [] h.kind[o] = "allweak" /\ how # "all" -> strings
       [] h.kind[o] = "proto" /\ how # "all" -> {}
       [] OTHER -> every

\* What Refs collects.
LEMMA RefsIs ==
    ASSUME NEW S, NEW how, NEW x \in Refs(S, how)
    PROVE  x # Nil /\ \E o \in S : x \in From(S, o, how)
<1> DEFINE W == {From(S, o, how) : o \in S}
<1>1. Refs(S, how) = (UNION W) \ {Nil}
  BY Zenon DEF Refs, From, W
<1> HIDE DEF W
<1>2. x # Nil /\ \E y \in W : x \in y
  BY <1>1
<1>3. PICK y \in W : x \in y
  BY <1>2
<1>4. PICK o \in S : y = From(S, o, how)
  BY <1>3, Zenon DEF W
<1>5. QED
  BY <1>2, <1>3, <1>4

\* What sound objects refer to is sound.
LEMMA SoundRefs ==
    ASSUME IInv, NEW T, T \subseteq Sound(h)
    PROVE  Refs(T, "all") \subseteq Sound(h)
<1>1. \A o \in Sound(h) : RefsIn(h, o, Sound(h))
  BY PhaseFacts DEF IInv, Solid
<1>2. ASSUME NEW o \in T, NEW x \in KeysOf(h, o) \cup {h.val[o][k] : k \in Keys}, x # Nil
      PROVE  x \in Sound(h)
  BY <1>1, <1>2 DEF RefsIn, KeysIn, ValuesIn, KeysOf
<1>3. ASSUME NEW o \in T, h.kind[o] = "open"
      PROVE  UpValue(h, o) \in Sound(h) \cup {Nil}
  BY <1>1, <1>3 DEF RefsIn, UpIn
<1>4. ASSUME NEW v \in Refs(T, "all")
      PROVE  v # Nil /\ \E o \in T : \/ h.kind[o] = "open" /\ v = UpValue(h, o)
                                    \/ v \in KeysOf(h, o) \cup {h.val[o][k] : k \in Keys}
  <2>1. PICK o \in T : v # Nil /\ v \in From(T, o, "all")
    BY <1>4, RefsIs
  <2>2. CASE h.kind[o] = "open"
    BY <2>1, <2>2 DEF From
  <2>3. CASE h.kind[o] # "open"
    BY <2>1, <2>3 DEF From
  <2>4. QED
    BY <2>1, <2>2, <2>3
<1>5. QED
  BY <1>2, <1>3, <1>4

\* What is reached from sound objects is sound.
LEMMA ReachSound ==
    ASSUME IInv, NEW S, S \subseteq Sound(h)
    PROVE  Reach(S, "all") \subseteq Sound(h)
<1> DEFINE N == Cardinality(Bodies)
           D == SUBSET Sound(h)
           go(T) == T \cup Refs(T, "all")
           f(after) == [n \in 0..N |-> IF n = 0 THEN S ELSE LET T == after[n - 1] IN T \cup Refs(T, "all")]
           after == CHOOSE after : after = f(after)
<1>1. Reach(S, "all") = after[N]
  BY Zenon DEF Reach
<1>2. N \in Nat /\ S \in D
  BY Finite
<1>3. \A T \in D : go(T) \in D
  BY SoundRefs
<1> DEFINE G == [n \in 1..N |-> [T \in D |-> go(T)]]
<1>4. Rounds(1..N, D, G) /\ \A n \in 1..N : \A T \in D : G[n][T] = go(T)
  BY <1>3 DEF Rounds
<1> HIDE DEF D, go, N, G, f
<1>5. PICK u : Runs(N, D, S, G, u)
  BY <1>2, <1>4, Iterates
<1>6. u \in [0..N -> D] /\ u[0] = S
  BY <1>5 DEF Runs
<1>7. \A n \in 1..N : n - 1 \in 0..N /\ u[n - 1] \in D /\ n \in 0..N /\ n # 0
  BY <1>2, <1>6
<1>8. \A n \in 1..N : u[n] = go(u[n - 1])
  BY <1>4, <1>5, <1>7 DEF Runs, ByRounds
<1>9. u = f(u)
  <2>1. \A n \in 0..N : n = 0 \/ n \in 1..N
    BY <1>2
  <2>2. \A n \in 0..N : u[n] = IF n = 0 THEN S ELSE go(u[n - 1])
    BY <1>6, <1>7, <1>8, <2>1
  <2>3. QED
    BY <1>6, <2>2 DEF f, go
<1>10. after = f(after)
  BY <1>9, Zenon
<1> DEFINE at == after
<1>11. \A n \in 0..N : at[n] = IF n = 0 THEN S ELSE go(at[n - 1])
  <2> HIDE DEF after
  <2>1. QED
    BY <1>10 DEF f, go
<1> HIDE DEF after, at
<1> DEFINE R == {n \in 0..N : at[n] \in D}
<1>12. 0 \in R
  BY <1>2, <1>11
<1>13. ASSUME NEW n \in 1..N, n - 1 \in R
       PROVE  n \in R
  <2>1. at[n] = go(at[n - 1])
    BY <1>7, <1>11
  <2>2. at[n] \in D
    BY <1>3, <1>13, <2>1
  <2>3. QED
    BY <1>7, <2>2
<1>14. N \in R
  <2> HIDE DEF R
  <2>1. 0..N \subseteq R
    BY <1>2, <1>12, <1>13, StepsTo
  <2>2. QED
    BY <1>2, <2>1
<1>15. at[N] \in D
  BY <1>14
<1>16. QED
  BY <1>1, <1>15 DEF at, D, N

\* Nothing that can be reached is dead.
LEMMA OrderLive ==
    ASSUME IInv
    PROVE  NothingLiveIsDead
<1>1. Solid(h) /\ h.white # Other(h.white)
  BY PhaseFacts DEF IInv
<1>2. {Main} \cup Waiting \cup Due \subseteq Sound(h)
  BY <1>1 DEF Solid, Roots, Waiting, Due
<1>3. Reach({Main} \cup Waiting \cup Due, "all") \subseteq Sound(h)
  BY <1>2, ReachSound
<1>4. QED
  BY <1>3 DEF NothingLiveIsDead, Sound, Live, IsDead

\* Whatever a script can still get hold of, through weak tables, cached closures and
\* pending finalizers too, is neither freed nor about to be (lgc.cpp:719, lfunc.cpp:57).
THEOREM LiveNeverFreed == Spec => []NothingLiveIsDead
BY HeapInOrder, OrderLive, PTL

-----------------------------------------------------------------------------
\* What a black object refers to is not white.
LEMMA OrderBlack ==
    ASSUME IInv
    PROVE  BlackNeverPointsToWhite
<1>1. SUFFICES ASSUME h.state = "propagate", NEW o \in Objs, h.kind[o] # "free", IsBlack(h, o),
                      NEW v \in Refs({o}, "strong")
               PROVE  ~IsWhite(h, v)
  BY DEF BlackNeverPointsToWhite
<1>2. Blacks(h, {}) /\ Colored(h)
  BY <1>1, PhaseFacts DEF IInv, Phase, Loose
<1>3. o \in Bodies /\ o \in Live(h) /\ h.col[o] = "black"
  BY <1>1, Names DEF IsBlack, Live
<1>4. RefsIn(h, o, NonWhite(h))
  BY <1>2, <1>3 DEF Blacks
<1>5. h.kind[o] \notin NeverBlack
  BY <1>2, <1>3 DEF Colored
<1>6. v # Nil /\ v \in KeysOf(h, o) \cup {h.val[o][k] : k \in Keys}
  <2>1. h.kind[o] \notin {"open", "weakvalue", "ephemeron", "allweak"}
    BY <1>5 DEF NeverBlack
  <2>2. v # Nil /\ v \in From({o}, o, "strong")
    BY <1>1, RefsIs
  <2>3. QED
    BY <2>1, <2>2 DEF From
<1>7. v \in NonWhite(h)
  BY <1>4, <1>6 DEF RefsIn, KeysIn, ValuesIn, KeysOf
<1>8. QED
  BY <1>7 DEF NonWhite

\* Between the steps of a mark phase no black object points to a white one, whatever the
\* program has stored (include/lgc.h:22).
THEOREM BlackBarred == Spec => []BlackNeverPointsToWhite
BY HeapInOrder, OrderBlack, PTL
=============================================================================

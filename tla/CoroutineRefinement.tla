------------------------ MODULE CoroutineRefinement ------------------------
(***************************************************************************)
(* The proof that LuaCalls implements Coroutines, for any set of threads   *)
(* and any limits.                                                         *)
(*                                                                         *)
(* The abstract specification has no C stack: errors go to the innermost   *)
(* protected call of the activation.  In the code they go to the innermost *)
(* luaD_rawrunprotected of the C stack, or in lua_resume to the last       *)
(* marked call of the coroutine.  CoInv, of LuaCallsProofs, makes these    *)
(* the same call: it says which frames stand where, and that no frame is   *)
(* left that would catch an error of a marked call.  Every step is shown   *)
(* to be a step of the abstract specification in four parts: what the step *)
(* does to the view of each thread (View), to the activations (Acts) and   *)
(* to the coroutines that can be resumed (Ready), and which abstract       *)
(* action that is.                                                         *)
(***************************************************************************)
EXTENDS LuaCallsProofs

-----------------------------------------------------------------------------
(* The activations of a C stack                                            *)

\* Activations, of any C stack s; an activation starts at the places Begun(s).
Begun(s) == {i \in 1..Len(s) : s[i].k \in Starts}
Rank(S, i) == Cardinality({j \in S : j <= i})
NthBegun(s, n) == CHOOSE i \in Begun(s) : Rank(Begun(s), i) = n
Acts(s) == [n \in 1..Cardinality(Begun(s)) |-> [t |-> s[NthBegun(s, n)].t, base |-> s[NthBegun(s, n)].base]]

\* Each number up to the size of a finite set of numbers is the rank of one of them.
LEMMA Ranks ==
    ASSUME NEW S \in SUBSET Nat, IsFiniteSet(S)
    PROVE  /\ Cardinality(S) \in Nat
           /\ \A i \in S : Rank(S, i) \in 1..Cardinality(S)
           /\ \A i, j \in S : i < j => Rank(S, i) < Rank(S, j)
           /\ \A n \in 1..Cardinality(S) : \E i \in S : Rank(S, i) = n
<1> DEFINE N == Cardinality(S)
           To(i) == {j \in S : j <= i}
<1>1. N \in Nat
  BY FS_CardinalityType
<1>2. \A i \in S : IsFiniteSet(To(i)) /\ Cardinality(To(i)) \in Nat /\ Cardinality(To(i)) <= N
  <2> SUFFICES ASSUME NEW i \in S
               PROVE  IsFiniteSet(To(i)) /\ Cardinality(To(i)) \in Nat /\ Cardinality(To(i)) <= N
    OBVIOUS
  <2>1. To(i) \in SUBSET S
    OBVIOUS
  <2> HIDE DEF To
  <2>2. IsFiniteSet(To(i)) /\ Cardinality(To(i)) <= N
    BY <2>1, FS_Subset
  <2>3. QED
    BY <2>2, FS_CardinalityType
<1>3. \A i \in S : Rank(S, i) \in 1..N
  <2> SUFFICES ASSUME NEW i \in S
               PROVE  Rank(S, i) \in 1..N
    OBVIOUS
  <2>1. i \in To(i)
    OBVIOUS
  <2> HIDE DEF To
  <2>2. Cardinality(To(i)) # 0
    BY <1>2, <2>1, FS_EmptySet
  <2>3. Rank(S, i) = Cardinality(To(i))
    BY DEF Rank, To
  <2>4. QED
    BY <1>1, <1>2, <2>2, <2>3
<1>4. ASSUME NEW i \in S, NEW j \in S, i < j
      PROVE  Rank(S, i) < Rank(S, j)
  <2>0. \A x \in S : x \in Nat
    OBVIOUS
  <2>a. i \in Nat /\ j \in Nat /\ \A x \in S : x <= i => x <= j
    BY <1>4, <2>0
  <2>b. j <= j /\ ~(j <= i)
    BY <1>4, <2>a
  <2>1. To(i) \in SUBSET To(j) /\ j \in To(j) /\ j \notin To(i)
    BY Zenon, <2>a, <2>b
  <2>2. Rank(S, i) = Cardinality(To(i)) /\ Rank(S, j) = Cardinality(To(j))
    BY DEF Rank
  <2> HIDE DEF To
  <2>3. /\ Cardinality(To(i)) <= Cardinality(To(j))
        /\ Cardinality(To(j)) = Cardinality(To(i)) => To(j) = To(i)
    BY <1>2, <2>1, FS_Subset
  <2>4. QED
    BY <1>2, <2>1, <2>2, <2>3
<1>5. ASSUME NEW n \in 1..N, \A i \in S : Rank(S, i) # n
      PROVE  FALSE
  <2> DEFINE T == (1..N) \ {n}
             f == [i \in S |-> Rank(S, i)]
  <2>1. IsFiniteSet(1..N) /\ Cardinality(1..N) = N
    BY <1>1, FS_Interval
  <2>2. IsFiniteSet(T) /\ Cardinality(T) = N - 1
    BY <2>1, FS_RemoveElement
  <2>3. f \in [S -> T]
    BY <1>3, <1>5
  <2>4. Cardinality(T) < Cardinality(S)
    BY <1>1, <2>2
  <2> HIDE DEF T, f
  <2>5. PICK x \in S, y \in S : x # y /\ f[x] = f[y]
    BY <2>2, <2>3, <2>4, FS_PigeonHole
  <2>6. Rank(S, x) = Rank(S, y)
    BY <2>5 DEF f
  <2>7. Rank(S, x) \in Nat
    BY <1>3
  <2>8. x < y \/ y < x
    BY <2>5
  <2>9. QED
    BY <1>4, <2>6, <2>7, <2>8
<1>6. QED
  BY <1>1, <1>3, <1>4, <1>5

\* The n-th of them is one; only one has a rank.
LEMMA BegunFacts ==
    ASSUME NEW s, Len(s) \in Nat
    PROVE  /\ Begun(s) \in SUBSET Nat /\ IsFiniteSet(Begun(s)) /\ Cardinality(Begun(s)) \in Nat
           /\ \A n \in 1..Cardinality(Begun(s)) :
                NthBegun(s, n) \in Begun(s) /\ Rank(Begun(s), NthBegun(s, n)) = n
           /\ \A i, j \in Begun(s) : Rank(Begun(s), i) = Rank(Begun(s), j) => i = j
           /\ \A i \in Begun(s) : Rank(Begun(s), i) \in 1..Cardinality(Begun(s))
<1>1. IsFiniteSet(1..Len(s))
  BY FS_Interval
<1>2. Begun(s) \in SUBSET (1..Len(s)) /\ Begun(s) \in SUBSET Nat
  BY DEF Begun
<1>3. IsFiniteSet(Begun(s))
  BY <1>1, <1>2, FS_Subset
<1>4. /\ Cardinality(Begun(s)) \in Nat
      /\ \A i \in Begun(s) : Rank(Begun(s), i) \in 1..Cardinality(Begun(s))
      /\ \A i, j \in Begun(s) : i < j => Rank(Begun(s), i) < Rank(Begun(s), j)
      /\ \A n \in 1..Cardinality(Begun(s)) : \E i \in Begun(s) : Rank(Begun(s), i) = n
  BY <1>2, <1>3, Ranks
<1>5. \A n \in 1..Cardinality(Begun(s)) :
         NthBegun(s, n) \in Begun(s) /\ Rank(Begun(s), NthBegun(s, n)) = n
  BY <1>4 DEF NthBegun
<1>6. \A i, j \in Begun(s) : Rank(Begun(s), i) = Rank(Begun(s), j) => i = j
  <2> SUFFICES ASSUME NEW i \in Begun(s), NEW j \in Begun(s), Rank(Begun(s), i) = Rank(Begun(s), j)
               PROVE  i = j
    OBVIOUS
  <2>1. i \in Nat /\ j \in Nat /\ Rank(Begun(s), i) \in Nat
    BY <1>2, <1>4
  <2>2. QED
    BY <1>4, <2>1
<1>7. QED
  BY <1>2, <1>3, <1>4, <1>5, <1>6

Acting == [t : Threads, base : Nat]
Record(f) == [t |-> f.t, base |-> f.base]

\* Every activation is that of a frame.
LEMMA ActsFacts ==
    ASSUME NEW s \in Seq(Frames)
    PROVE  /\ Acts(s) \in Seq(Acting) /\ Len(Acts(s)) = Cardinality(Begun(s))
           /\ \A n \in 1..Len(Acts(s)) : /\ NthBegun(s, n) \in Begun(s)
                                         /\ Acts(s)[n] = Record(s[NthBegun(s, n)])
<1>1. Len(s) \in Nat /\ \A i \in 1..Len(s) : s[i] \in Frames
  OBVIOUS
<1>2. \A i \in 1..Len(s) : Record(s[i]) \in Acting
  BY <1>1, FrameTypes DEF Record, Acting
<1>3. \A n \in 1..Cardinality(Begun(s)) : NthBegun(s, n) \in Begun(s)
  BY <1>1, BegunFacts
<1>4. \A i \in Begun(s) : i \in 1..Len(s)
  BY DEF Begun
<1>5. Acts(s) = [n \in 1..Cardinality(Begun(s)) |-> Record(s[NthBegun(s, n)])]
  BY DEF Acts, Record
<1>6. Cardinality(Begun(s)) \in Nat
  BY <1>1, BegunFacts
<1>7. \A n \in 1..Cardinality(Begun(s)) : Record(s[NthBegun(s, n)]) \in Acting
  BY <1>2, <1>3, <1>4
<1>8. QED
  BY <1>3, <1>5, <1>6, <1>7

\* A step that starts no activation.
LEMMA ActsSame ==
    ASSUME NEW s \in Seq(Frames), NEW w, Begun(w) = Begun(s), \A i \in Begun(s) : w[i] = s[i]
    PROVE  Acts(w) = Acts(s)
<1>1. \A n \in 1..Cardinality(Begun(s)) : NthBegun(s, n) \in Begun(s)
  BY BegunFacts
<1>2. \A n : NthBegun(w, n) = NthBegun(s, n)
  BY DEF NthBegun
<1>3. \A n \in 1..Cardinality(Begun(s)) : w[NthBegun(w, n)] = s[NthBegun(s, n)]
  BY <1>1, <1>2
<1>4. QED
  BY <1>3 DEF Acts

\* One that starts one.
LEMMA ActsMore ==
    ASSUME NEW s \in Seq(Frames), NEW w \in Seq(Frames), NEW m, Begun(w) = Begun(s) \cup {m},
           \A i \in Begun(s) : w[i] = s[i] /\ i < m
    PROVE  Acts(w) = Append(Acts(s), Record(w[m]))
<1> DEFINE S == Begun(s)
           W == Begun(w)
<1>1. /\ S \in SUBSET Nat /\ IsFiniteSet(S) /\ Cardinality(S) \in Nat
      /\ \A n \in 1..Cardinality(S) : NthBegun(s, n) \in S /\ Rank(S, NthBegun(s, n)) = n
  BY BegunFacts
<1>w. Len(w) \in Nat
  OBVIOUS
<1>2. /\ W \in SUBSET Nat /\ IsFiniteSet(W) /\ Cardinality(W) \in Nat
      /\ \A n \in 1..Cardinality(W) : NthBegun(w, n) \in W /\ Rank(W, NthBegun(w, n)) = n
      /\ \A i, j \in W : Rank(W, i) = Rank(W, j) => i = j
  BY <1>w, BegunFacts, Zenon
<1>3. m \in W /\ m \in Nat /\ W = S \cup {m} /\ \A i \in S : i < m /\ w[i] = s[i] /\ i \in Nat
  BY <1>1, <1>2
<1>4. m \notin S
  BY <1>3
<1> HIDE DEF S, W
<1>5. Cardinality(W) = Cardinality(S) + 1
  BY <1>1, <1>3, <1>4, FS_AddElement
<1>6. \A i \in S : Rank(W, i) = Rank(S, i)
  <2> SUFFICES ASSUME NEW i \in S
               PROVE  {j \in W : j <= i} = {j \in S : j <= i}
    BY DEF Rank
  <2>1. ~(m <= i)
    BY <1>3
  <2>2. QED
    BY <1>3, <2>1
<1>7. Rank(W, m) = Cardinality(W)
  <2>1. \A j \in W : j <= m
    BY <1>3
  <2>2. {j \in W : j <= m} = W
    BY <2>1
  <2>3. QED
    BY <2>2 DEF Rank
<1>8. ASSUME NEW n \in 1..Cardinality(S)
      PROVE  NthBegun(w, n) = NthBegun(s, n)
  <2>1. n \in 1..Cardinality(W)
    BY <1>1, <1>5
  <2>2. NthBegun(w, n) \in W /\ Rank(W, NthBegun(w, n)) = n
    BY <1>2, <2>1
  <2>3. NthBegun(s, n) \in W /\ Rank(W, NthBegun(s, n)) = n
    BY <1>1, <1>3, <1>6
  <2>4. QED
    BY <1>2, <2>2, <2>3
<1>9. NthBegun(w, Cardinality(W)) = m
  <2>1. Cardinality(W) \in 1..Cardinality(W)
    BY <1>1, <1>5
  <2>2. QED
    BY <1>2, <1>3, <1>7, <2>1
<1> DEFINE a == Acts(s)
           b == Acts(w)
<1>10. /\ a \in Seq(Acting) /\ Len(a) = Cardinality(S)
       /\ \A n \in 1..Len(a) : NthBegun(s, n) \in S /\ a[n] = Record(s[NthBegun(s, n)])
  BY ActsFacts DEF S
<1>11. /\ b \in Seq(Acting) /\ Len(b) = Cardinality(W)
       /\ \A n \in 1..Len(b) : NthBegun(w, n) \in W /\ b[n] = Record(w[NthBegun(w, n)])
  BY ActsFacts DEF W
<1> HIDE DEF a, b
<1>12. \A n \in 1..Len(a) : b[n] = a[n]
  <2> SUFFICES ASSUME NEW n \in 1..Len(a)
               PROVE  b[n] = a[n]
    OBVIOUS
  <2>1. n \in 1..Cardinality(S) /\ n \in 1..Len(b)
    BY <1>1, <1>5, <1>10, <1>11
  <2>2. b[n] = Record(w[NthBegun(s, n)]) /\ a[n] = Record(s[NthBegun(s, n)]) /\ NthBegun(s, n) \in S
    BY <1>8, <1>10, <1>11, <2>1
  <2>3. QED
    BY <1>3, <2>2
<1>13. Len(b) = Len(a) + 1 /\ b[Len(a) + 1] = Record(w[m]) /\ Len(a) \in Nat
  <2>1. Len(b) = Len(a) + 1 /\ Len(b) \in 1..Len(b)
    BY <1>1, <1>5, <1>10, <1>11
  <2>2. QED
    BY <1>9, <1>10, <1>11, <2>1
<1>14. Record(w[m]) \in Acting
  <2>1. m \in 1..Len(w)
    BY <1>3 DEF W, Begun
  <2>2. w[m] \in Frames
    BY <2>1
  <2>3. QED
    BY <2>2, FrameTypes DEF Record, Acting
<1>15. b = Append(a, Record(w[m]))
  <2> DEFINE e == Append(a, Record(w[m]))
  <2>1. e \in Seq(Acting) /\ Len(e) = Len(a) + 1 /\ e[Len(a) + 1] = Record(w[m])
        /\ \A n \in 1..Len(a) : e[n] = a[n]
    BY <1>10, <1>14
  <2>2. \A n \in 1..Len(b) : n \in 1..Len(a) \/ n = Len(a) + 1
    BY <1>13
  <2> HIDE DEF e
  <2>3. \A n \in 1..Len(b) : b[n] = e[n]
    BY <1>12, <1>13, <2>1, <2>2
  <2>4. b = e
    BY <1>11, <1>13, <2>1, <2>3
  <2>5. QED
    BY <2>4 DEF e
<1>16. QED
  BY <1>15 DEF a, b

-----------------------------------------------------------------------------
(* The mapping: how the abstract specification sees a thread               *)

\* The calls of a thread as the abstract specification has them; y: it is about to
\* yield.
Names == Functions \cup CFunctions \cup {"caught"}
Shows == [fn : Names, shared : BOOLEAN]
Deep(x, y) == IF y THEN Len(x.ci) - 1 ELSE Len(x.ci)
View(x, y) ==
    IF x.status = "error" THEN <<>>
    ELSE [i \in 1..Deep(x, y) |-> [fn |-> Label(x.ci[i]), shared |-> i \in x.open]]

\* The thread t is about to yield; it can be resumed.
Yields(s, m, t) == m = "yield" /\ Runs(s, t)
Ready(x, y) == (x.status = "yield" /\ ~y) \/ (x.status = "ok" /\ ~x.started)

\* The mapped variables.
calls == [t \in Threads |-> Calls(t)]
ready == {t \in Threads : \/ L[t].status = "yield" /\ ~(ctl = "yield" /\ t = R)
                          \/ L[t].status = "ok" /\ ~L[t].started}

\* The names that calls show under.
LEMMA LabelTypes ==
    ASSUME NEW f \in Infos
    PROVE  Label(f) \in Names
BY DEF Infos, Label, Names

\* The form of the view of a thread.
LEMMA ViewFacts ==
    ASSUME NEW x \in State, NEW y \in BOOLEAN, y => Len(x.ci) # 0
    PROVE  /\ View(x, y) \in Seq(Shows) /\ x.ci \in Seq(Infos) /\ Len(x.ci) \in Nat
           /\ Deep(x, y) \in 0..Len(x.ci)
           /\ x.status # "error" => /\ Len(View(x, y)) = Deep(x, y)
                                    /\ \A i \in 1..Deep(x, y) :
                                         /\ View(x, y)[i] \in Shows
                                         /\ View(x, y)[i].fn = Label(x.ci[i])
                                         /\ View(x, y)[i].shared = (i \in x.open)
<1> DEFINE n == Deep(x, y)
<1>1. x.ci \in Seq(Infos) /\ Len(x.ci) \in Nat
  BY DEF State
<1>2. n \in 0..Len(x.ci)
  BY <1>1 DEF Deep
<1> HIDE DEF n
<1>3. \A i \in 1..n : x.ci[i] \in Infos
  BY <1>1, <1>2
<1>4. \A i \in 1..n : Label(x.ci[i]) \in Names
  BY <1>3, LabelTypes
<1> DEFINE e(i) == [fn |-> Label(x.ci[i]), shared |-> i \in x.open]
<1>5. \A i \in 1..n : e(i) \in Shows
  BY <1>4 DEF Shows
<1>6. \A i : e(i).fn = Label(x.ci[i]) /\ e(i).shared = (i \in x.open)
  OBVIOUS
<1>7. CASE x.status = "error"
  BY <1>1, <1>2, <1>7 DEF View, n
<1>8. CASE x.status # "error"
  <2>1. View(x, y) = [i \in 1..n |-> e(i)]
    BY <1>8 DEF View, n
  <2> HIDE DEF e
  <2>2. n \in Nat
    BY <1>2
  <2>3. View(x, y) \in Seq(Shows) /\ Len(View(x, y)) = n /\ \A i \in 1..n : View(x, y)[i] = e(i)
    BY <1>5, <2>1, <2>2
  <2>4. QED
    BY <1>1, <1>2, <1>5, <1>6, <2>3 DEF n
<1>9. QED
  BY <1>7, <1>8

\* What has that form is the view.
LEMMA ViewIs ==
    ASSUME NEW x \in State, NEW y \in BOOLEAN, y => Len(x.ci) # 0, x.status # "error",
           NEW v \in Seq(Shows), Len(v) = Deep(x, y),
           \A i \in 1..Len(v) : v[i].fn = Label(x.ci[i]) /\ v[i].shared = (i \in x.open)
    PROVE  View(x, y) = v
<1> DEFINE u == View(x, y)
<1>1. u \in Seq(Shows) /\ Len(u) = Len(v)
      /\ \A i \in 1..Len(u) : u[i] \in Shows /\ u[i].fn = v[i].fn /\ u[i].shared = v[i].shared
  BY ViewFacts
<1> HIDE DEF u
<1>2. \A i \in 1..Len(u) : v[i] \in Shows
  BY <1>1
<1>3. \A i \in 1..Len(u) : u[i] = v[i]
  BY <1>1, <1>2 DEF Shows
<1>4. u = v
  BY <1>1, <1>3
<1>5. QED
  BY <1>4 DEF u

\* Calls cuts off the call of a thread that is about to yield.
LEMMA CutView ==
    ASSUME NEW x \in State, NEW y \in BOOLEAN, y => Len(x.ci) # 0
    PROVE  (IF x.status = "error" THEN <<>>
            ELSE SubSeq([i \in 1..Len(x.ci) |-> [fn |-> Label(x.ci[i]), shared |-> i \in x.open]],
                        1, IF y THEN Len(x.ci) - 1 ELSE Len(x.ci)))
           = View(x, y)
<1> DEFINE w == [i \in 1..Len(x.ci) |-> [fn |-> Label(x.ci[i]), shared |-> i \in x.open]]
           v == SubSeq(w, 1, Deep(x, y))
<1>1. CASE x.status = "error"
  BY <1>1 DEF View
<1>2. CASE x.status # "error"
  <2>1. Len(x.ci) \in Nat /\ Deep(x, y) \in 0..Len(x.ci)
    BY ViewFacts
  <2>2. View(x, FALSE) = w /\ View(x, FALSE) \in Seq(Shows)
    BY <1>2, ViewFacts DEF View, Deep
  <2>3. Len(w) = Len(x.ci)
        /\ \A i \in 1..Len(x.ci) : w[i].fn = Label(x.ci[i]) /\ w[i].shared = (i \in x.open)
    BY <1>2, <2>2, ViewFacts DEF Deep
  <2>a. w \in Seq(Shows)
    BY <2>2
  <2> HIDE DEF w
  <2>4. v \in Seq(Shows) /\ Len(v) = Deep(x, y) /\ \A i \in 1..Len(v) : v[i] = w[i] /\ i \in 1..Len(x.ci)
    BY <2>1, <2>3, <2>a
  <2> HIDE DEF v
  <2>5. View(x, y) = v
    BY <1>2, <2>3, <2>4, ViewIs
  <2>6. QED
    BY <1>2, <2>5 DEF v, w, Deep
<1>3. QED
  BY <1>1, <1>2

\* The thread on top runs.
LEMMA RunnerIs ==
    ASSUME NEW l, NEW s, NEW m, World(l, s, m), NEW t
    PROVE  /\ Yields(s, m, t) <=> m = "yield" /\ t = s[Len(s)].t
           /\ Yields(s, m, t) \in BOOLEAN
           /\ t \in Threads => l[t] \in State /\ (Yields(s, m, t) => Len(l[t].ci) # 0)
<1>1. m = "yield" => Len(s) # 0
  BY DEF World
<1>2. Yields(s, m, t) <=> m = "yield" /\ t = s[Len(s)].t
  BY <1>1 DEF Yields, Runs
<1>3. Yields(s, m, t) \in BOOLEAN
  BY DEF Yields
<1>4. ASSUME t \in Threads
      PROVE  l[t] \in State /\ (Yields(s, m, t) => Len(l[t].ci) # 0)
  <2>1. l[t] \in State
    BY <1>4 DEF World
  <2>2. Yields(s, m, t) => Len(l[t].ci) # 0
    BY <1>4, RunnerFacts DEF Yields
  <2>3. QED
    BY <2>1, <2>2
<1>5. QED
  BY <1>2, <1>3, <1>4

\* The mapping, in these terms, before and after a step.
LEMMA MappedNow ==
    ASSUME World(L, cs, ctl)
    PROVE  /\ calls = [t \in Threads |-> View(L[t], Yields(cs, ctl, t))]
           /\ Activations = Acts(cs)
           /\ ready = {t \in Threads : Ready(L[t], Yields(cs, ctl, t))}
<1>1. \A t \in Threads : /\ Yields(cs, ctl, t) <=> ctl = "yield" /\ t = R
                         /\ Yields(cs, ctl, t) \in BOOLEAN
                         /\ L[t] \in State /\ (Yields(cs, ctl, t) => Len(L[t].ci) # 0)
  BY RunnerIs DEF R
<1>2. \A t \in Threads : Calls(t) = View(L[t], Yields(cs, ctl, t))
  <2> SUFFICES ASSUME NEW t \in Threads
               PROVE  Calls(t) = View(L[t], Yields(cs, ctl, t))
    OBVIOUS
  <2> DEFINE y == Yields(cs, ctl, t)
  <2>1. y \in BOOLEAN /\ L[t] \in State /\ (y => Len(L[t].ci) # 0)
    BY <1>1
  <2>2. (IF y THEN Len(L[t].ci) - 1 ELSE Len(L[t].ci))
        = (IF ctl = "yield" /\ t = R THEN Len(L[t].ci) - 1 ELSE Len(L[t].ci))
    BY <1>1
  <2> HIDE DEF y
  <2>3. QED
    BY <2>1, <2>2, CutView DEF Calls, Size, y
<1>3. Activations = Acts(cs)
  BY DEF Activations, Acts, NthBegun, Begun, Rank, Starts
<1>4. ready = {t \in Threads : Ready(L[t], Yields(cs, ctl, t))}
  BY <1>1 DEF ready, Ready
<1>5. QED
  BY <1>2, <1>3, <1>4 DEF calls

\* The mapping after a step.
LEMMA MappedThen ==
    ASSUME World(L', cs', ctl')
    PROVE  /\ calls' = [t \in Threads |-> View(L'[t], Yields(cs', ctl', t))]
           /\ Activations' = Acts(cs')
           /\ ready' = {t \in Threads : Ready(L'[t], Yields(cs', ctl', t))}
<1>1. \A t \in Threads : /\ Yields(cs', ctl', t) <=> ctl' = "yield" /\ t = R'
                         /\ Yields(cs', ctl', t) \in BOOLEAN
                         /\ L'[t] \in State /\ (Yields(cs', ctl', t) => Len(L'[t].ci) # 0)
  BY RunnerIs DEF R
<1>2. \A t \in Threads : Calls(t)' = View(L'[t], Yields(cs', ctl', t))
  <2> SUFFICES ASSUME NEW t \in Threads
               PROVE  Calls(t)' = View(L'[t], Yields(cs', ctl', t))
    OBVIOUS
  <2> DEFINE y == Yields(cs', ctl', t)
  <2>1. y \in BOOLEAN /\ L'[t] \in State /\ (y => Len(L'[t].ci) # 0)
    BY <1>1
  <2>2. (IF y THEN Len(L'[t].ci) - 1 ELSE Len(L'[t].ci))
        = (IF ctl' = "yield" /\ t = R' THEN Len(L'[t].ci) - 1 ELSE Len(L'[t].ci))
    BY <1>1
  <2> HIDE DEF y
  <2>3. QED
    BY <2>1, <2>2, CutView DEF Calls, Size, y
<1>3. Activations' = Acts(cs')
  BY DEF Activations, Acts, NthBegun, Begun, Rank, Starts
<1>4. ready' = {t \in Threads : Ready(L'[t], Yields(cs', ctl', t))}
  BY <1>1 DEF ready, Ready
<1>5. QED
  BY <1>2, <1>3, <1>4 DEF calls

-----------------------------------------------------------------------------
(* Where control is                                                        *)

\* The frame q has started the last activation on the C stack s.
EntryAt(s, q) == /\ q \in 1..Len(s) /\ s[q].k \in Starts /\ s[q].t = s[Len(s)].t
                 /\ \A i \in q + 1..Len(s) : s[i].k \notin Starts /\ s[i].t = s[Len(s)].t

\* Some activation is the last one.
LEMMA EntryExists ==
    ASSUME NEW s \in Seq(Frames), ActGrouped(s), Len(s) # 0
    PROVE  \E q : EntryAt(s, q)
<1>1. Len(s) \in 1..Len(s)
  OBVIOUS
<1>2. PICK q \in 1..Len(s) : /\ s[q].k \in Starts /\ s[q].t = s[Len(s)].t
                             /\ \A j \in q + 1..Len(s) : s[j].k \notin Starts /\ s[j].t = s[Len(s)].t
  BY <1>1 DEF ActGrouped
<1>3. QED
  BY <1>2 DEF EntryAt

\* The last activation is that of the frame.
LEMMA LastActs ==
    ASSUME NEW s \in Seq(Frames), NEW q, EntryAt(s, q)
    PROVE  /\ q \in Nat /\ s[q] \in Frames /\ s[q].base \in Nat /\ s[q].t \in Threads
           /\ SubSeq(s, 1, q - 1) \in Seq(Frames)
           /\ Acts(s) = Append(Acts(SubSeq(s, 1, q - 1)), Record(s[q]))
           /\ Acts(s) \in Seq(Acting) /\ Len(Acts(s)) \in Nat /\ Len(Acts(s)) # 0
           /\ Acts(s)[Len(Acts(s))] = Record(s[q])
           /\ SubSeq(Acts(s), 1, Len(Acts(s)) - 1) = Acts(SubSeq(s, 1, q - 1))
<1> DEFINE w == SubSeq(s, 1, q - 1)
<1>1. q \in 1..Len(s) /\ s[q].k \in Starts /\ \A i \in q + 1..Len(s) : s[i].k \notin Starts
  BY DEF EntryAt
<1>2. q \in Nat /\ s[q] \in Frames
  BY <1>1
<1>3. s[q].base \in Nat /\ s[q].t \in Threads
  BY <1>2, FrameTypes
<1>4. FirstOf(s, w, q)
  BY <1>1, <1>2 DEF FirstOf
<1>5. w \in Seq(Frames) /\ Len(w) = q - 1 /\ \A i \in 1..q - 1 : w[i] = s[i]
  BY <1>4, FirstFrames
<1> HIDE DEF w
<1>6. \A i \in 1..Len(s) : i \in 1..q - 1 \/ i = q \/ i \in q + 1..Len(s)
  BY <1>1
<1>7. \A i \in 1..q - 1 : i \in 1..Len(s) /\ i < q
  BY <1>1
<1>8. Begun(s) = Begun(w) \cup {q}
  BY <1>1, <1>5, <1>6, <1>7 DEF Begun
<1>9. \A i \in Begun(w) : s[i] = w[i] /\ i < q
  BY <1>5, <1>7 DEF Begun
<1>10. Acts(s) = Append(Acts(w), Record(s[q]))
  BY <1>5, <1>8, <1>9, ActsMore
<1>11. Acts(w) \in Seq(Acting)
  BY <1>5, ActsFacts
<1>12. Record(s[q]) \in Acting
  BY <1>3 DEF Record, Acting
<1> DEFINE a == Acts(w)
           e == Record(s[q])
<1> HIDE DEF a, e
<1>13. /\ Append(a, e) \in Seq(Acting) /\ Len(Append(a, e)) \in Nat /\ Len(Append(a, e)) # 0
       /\ Append(a, e)[Len(Append(a, e))] = e
       /\ SubSeq(Append(a, e), 1, Len(Append(a, e)) - 1) = a
  BY <1>11, <1>12 DEF a, e
<1>14. QED
  BY <1>2, <1>3, <1>5, <1>10, <1>13 DEF a, e, w

\* Where control is, in the abstract specification too.
LEMMA Where ==
    ASSUME CoInv, cs # <<>>
    PROVE  /\ Activations = Acts(cs) /\ Activations # <<>> /\ Activations \in Seq(Acting)
           /\ Len(Activations) \in Nat /\ Len(Activations) # 0
           /\ C!T = R /\ R \in Threads
           /\ calls[R] = View(L[R], ctl = "yield")
           /\ \A q : EntryAt(cs, q) => /\ C!Now = Record(cs[q]) /\ C!Now.base = cs[q].base
                                       /\ cs[q].base \in Nat
           /\ \E q : EntryAt(cs, q)
<1>1. World(L, cs, ctl)
  BY DEF CoInv
<1>2. R \in Threads /\ Runs(cs, R) /\ cs \in Seq(Frames) /\ Len(cs) > 0 /\ Len(cs) \in Nat
  BY Here
<1>3. PICK q : EntryAt(cs, q)
  BY <1>1, <1>2, EntryExists DEF World
<1>4. Activations = Acts(cs) /\ calls = [t \in Threads |-> View(L[t], Yields(cs, ctl, t))]
  BY <1>1, MappedNow
<1>5. /\ Acts(cs) \in Seq(Acting) /\ Len(Acts(cs)) \in Nat /\ Len(Acts(cs)) # 0
  BY <1>2, <1>3, LastActs
<1>6. \A p : EntryAt(cs, p) => /\ Acts(cs)[Len(Acts(cs))] = Record(cs[p]) /\ cs[p].base \in Nat
  BY <1>2, LastActs
<1>7. C!Now = Acts(cs)[Len(Acts(cs))]
  BY <1>4 DEF C!Now
<1>8. C!T = R
  <2>1. C!Now = Record(cs[q])
    BY <1>3, <1>6, <1>7
  <2>2. cs[q].t = R
    BY <1>3 DEF EntryAt, R
  <2>3. QED
    BY <2>1, <2>2 DEF C!T, Record
<1>9. calls[R] = View(L[R], ctl = "yield")
  <2>1. Yields(cs, ctl, R) <=> ctl = "yield"
    BY <1>2 DEF Yields
  <2>2. Yields(cs, ctl, R) = (ctl = "yield")
    BY <2>1 DEF Yields
  <2>3. QED
    BY <1>2, <1>4, <2>2
<1>10. \A p : EntryAt(cs, p) => /\ C!Now = Record(cs[p]) /\ C!Now.base = cs[p].base
                                /\ cs[p].base \in Nat
  BY <1>6, <1>7 DEF Record
<1>11. Activations # <<>>
  BY <1>4, <1>5
<1>12. QED
  BY <1>2, <1>3, <1>4, <1>5, <1>8, <1>9, <1>10, <1>11

\* Control is with a Lua function.
LEMMA LuaHere ==
    ASSUME CoInv, InLua
    PROVE  /\ C!InLua /\ C!T = R /\ R \in Threads /\ ctl = "run" /\ cs # <<>>
           /\ L[R] \in State /\ L[R].status = "ok" /\ L[R].started
           /\ calls[R] = View(L[R], FALSE)
           /\ Len(calls[R]) = Len(L[R].ci) /\ Len(L[R].ci) \in Nat /\ Len(L[R].ci) > 0
           /\ calls[R] \in Seq(Shows) /\ OpenOk(L[R].ci, L[R].open)
<1> DEFINE c == L[R].ci
<1>1. /\ World(L, cs, "run") /\ ctl = "run" /\ cs # <<>>
      /\ Len(c) > 0 /\ c[Len(c)].fn \in Functions
      /\ \A i \in Mine(cs, R) : cs[i].base < Len(c)
      /\ L[R].status = "ok" /\ L[R].started
  BY LuaRuns
<1>2. R \in Threads /\ Runs(cs, R) /\ L[R] \in State /\ cs \in Seq(Frames)
  BY <1>1, Here
<1>3. /\ Activations # <<>> /\ C!T = R /\ calls[R] = View(L[R], FALSE)
      /\ \A q : EntryAt(cs, q) => C!Now.base = cs[q].base /\ cs[q].base \in Nat
      /\ \E q : EntryAt(cs, q)
  <2>1. (ctl = "yield") = FALSE
    BY <1>1
  <2>2. QED
    BY <1>1, <2>1, Where
<1>4. /\ View(L[R], FALSE) \in Seq(Shows) /\ Len(View(L[R], FALSE)) = Len(c) /\ Len(c) \in Nat
      /\ \A i \in 1..Len(c) : View(L[R], FALSE)[i].fn = Label(c[i])
  BY <1>1, <1>2, ViewFacts DEF Deep
<1>5. PICK q : EntryAt(cs, q)
  BY <1>3
<1>6. C!Now.base < Len(c)
  <2>1. q \in Mine(cs, R)
    BY <1>5 DEF EntryAt, Mine, R
  <2>2. QED
    BY <1>1, <1>3, <1>5, <2>1
<1>7. Len(calls[R]) > C!Now.base
  BY <1>3, <1>4, <1>5, <1>6
<1>8. C!Running
  BY <1>3, <1>7 DEF C!Running, calls
<1>0. Len(c) \in 1..Len(c)
  BY <1>1, <1>4
<1>9. c[Len(c)] \in Infos /\ Stack(c, cs, R, FALSE) /\ OpenOk(c, L[R].open)
  <2>1. c \in Seq(Infos)
    BY <1>2 DEF State
  <2>2. c[Len(c)] \in Infos
    BY <1>0, <2>1
  <2>3. QED
    BY <1>1, <1>2, <2>2, RunFacts
<1>10. Label(c[Len(c)]) = c[Len(c)].fn
  <2>1. c[Len(c)].stat => c[Len(c)].fn \in Protected
    BY <1>0, <1>9 DEF Stack, InfosOk, Flagged
  <2>2. QED
    BY <1>1, <2>1 DEF Label, Functions, Protected
<1>11. C!Top \in C!Functions
  <2>1. C!Top = calls[R][Len(calls[R])].fn
    BY <1>3 DEF C!Top, calls
  <2>2. C!Top = c[Len(c)].fn
    BY <1>0, <1>3, <1>4, <1>10, <2>1
  <2>3. QED
    BY <1>1, <2>2 DEF C!Functions, Functions
<1>12. C!InLua
  BY <1>8, <1>11 DEF C!InLua
<1>13. QED
  BY <1>1, <1>2, <1>3, <1>4, <1>9, <1>12

\* What the abstract specification sees of a thread.
Alike(x, x2) == x2.ci = x.ci /\ x2.open = x.open /\ x2.status = x.status /\ x2.started = x.started
\* The abstract specification does not tell such threads apart.
LEMMA AlikeSame ==
    ASSUME NEW x, NEW x2, Alike(x, x2), NEW y
    PROVE  View(x2, y) = View(x, y) /\ (Ready(x2, y) <=> Ready(x, y))
<1>1. Deep(x2, y) = Deep(x, y)
  BY DEF Deep, Alike
<1>2. View(x2, y) = View(x, y)
  BY <1>1 DEF View, Alike
<1>3. QED
  BY <1>2 DEF Ready, Alike

\* Only one thread changes, and runs on; no yield is involved.
LEMMA OneChanges ==
    ASSUME CoInv, World(L', cs', ctl'), ctl # "yield", ctl' # "yield", NEW t \in Threads,
           \A u \in Threads : u # t => Alike(L[u], L'[u]),
           L'[t].status = L[t].status, L'[t].started = L[t].started
    PROVE  /\ calls' = [calls EXCEPT ![t] = View(L'[t], FALSE)] /\ calls[t] = View(L[t], FALSE)
           /\ ready' = ready
<1>1. World(L, cs, ctl)
  BY DEF CoInv
<1>2. \A u : Yields(cs, ctl, u) = FALSE /\ Yields(cs', ctl', u) = FALSE
  BY DEF Yields
<1>3. /\ calls = [u \in Threads |-> View(L[u], FALSE)]
      /\ ready = {u \in Threads : Ready(L[u], FALSE)}
  BY <1>1, <1>2, MappedNow
<1>4. /\ calls' = [u \in Threads |-> View(L'[u], FALSE)]
      /\ ready' = {u \in Threads : Ready(L'[u], FALSE)}
  BY <1>2, MappedThen
<1>5. \A u \in Threads : u # t => View(L'[u], FALSE) = View(L[u], FALSE)
  BY AlikeSame
<1>6. \A u \in Threads : Ready(L'[u], FALSE) <=> Ready(L[u], FALSE)
  <2>1. Ready(L'[t], FALSE) <=> Ready(L[t], FALSE)
    BY DEF Ready
  <2>2. QED
    BY <2>1, AlikeSame
<1>7. QED
  BY <1>3, <1>4, <1>5, <1>6

-----------------------------------------------------------------------------
(* The abstract steps, in terms of the mapped variables                    *)

\* The steps of the abstract specification, in terms of the mapped variables.
Shown(fns) == [i \in 1..Len(fns) |-> [fn |-> fns[i], shared |-> FALSE]]
Callable == {<<"lua">>, <<"raise">>, <<"failed">>}
            \cup {<<f>> : f \in Protected \cup {"dofile", "sort"}}
            \cup {<<f, "lua">> : f \in Protected \cup {"dofile", "sort"}}

\* A call to one function.
LEMMA ShownOne ==
    ASSUME NEW f
    PROVE  Shown(<<f>>) = <<[fn |-> f, shared |-> FALSE]>>
<1> DEFINE w == <<f>>
           e == [fn |-> f, shared |-> FALSE]
<1>1. Len(w) = 1 /\ w[1] = f
  OBVIOUS
<1>2. \A i \in 1..1 : i = 1
  OBVIOUS
<1> HIDE DEF w
<1>3. Shown(w) = [i \in 1..1 |-> e]
  BY <1>1, <1>2 DEF Shown
<1> HIDE DEF e
<1>4. Shown(w) = <<e>>
  BY <1>3
<1>5. QED
  BY <1>4 DEF w, e

\* A Lua function calls functions.
LEMMA CallNext ==
    ASSUME C!InLua, NEW fns \in Callable, Activations' = Activations, ready' = ready, ok' = TRUE,
           calls' = [calls EXCEPT ![C!T] = calls[C!T] \o Shown(fns)]
    PROVE  C!Next
<1>1. C!Call(fns)
  BY DEF C!Call, C!Pushed, C!Frame, Shown, calls, ready
<1>2. C!LuaStep
  <2>1. CASE fns \in {<<"lua">>, <<"raise">>, <<"failed">>}
    BY Zenon, <1>1, <2>1 DEF C!LuaStep
  <2>2. ASSUME NEW f \in Protected \cup {"dofile", "sort"}, fns = <<f>> \/ fns = <<f, "lua">>
        PROVE  C!LuaStep
    <3>1. C!Call(<<f>>) \/ C!Call(<<f, "lua">>)
      BY Zenon, <1>1, <2>2
    <3>2. f \in C!Protected \cup {"dofile", "sort"}
      BY DEF Protected, C!Protected
    <3>3. QED
      BY Zenon, <3>1, <3>2 DEF C!LuaStep
  <2>3. QED
    BY Zenon, <2>1, <2>2 DEF Callable
<1>3. QED
  BY <1>2 DEF C!Next

\* A closure comes to use the locals of the last call, or no longer does.
LEMMA ShareNext ==
    ASSUME C!InLua, NEW b \in BOOLEAN, Activations' = Activations, ready' = ready, ok' = TRUE,
           calls' = [calls EXCEPT ![C!T][Len(calls[C!T])].shared = b]
    PROVE  C!Next
<1>1. C!Share(b)
  BY DEF C!Share, calls, ready
<1>2. C!LuaStep
  BY Zenon, <1>1 DEF C!LuaStep
<1>3. QED
  BY <1>2 DEF C!Next

\* The last call returns.
LEMMA ReturnNext ==
    ASSUME C!Running, C!Top # "raise", Activations' = Activations, ready' = ready,
           ok' = (C!Top \notin {"caught", "failed"}),
           calls' = [calls EXCEPT ![C!T] = SubSeq(calls[C!T], 1, Len(calls[C!T]) - 1)]
    PROVE  C!Next
<1>1. C!Return
  BY DEF C!Return, calls, ready
<1>2. Activations # <<>>
  BY DEF C!Running
<1>3. QED
  BY <1>1, <1>2 DEF C!Next

\* The last activation is over.
LEMMA FinishNext ==
    ASSUME Activations # <<>>, ~C!Running, ready' = ready, calls' = calls, ok' = TRUE,
           Activations' = SubSeq(Activations, 1, Len(Activations) - 1)
    PROVE  C!Next
<1>1. C!Finish
  BY DEF C!Finish, calls, ready
<1>2. QED
  BY <1>1 DEF C!Next

\* The handler of the innermost protected call runs.
LEMMA HandleNext ==
    ASSUME Activations # <<>>, Activations' = Activations, ready' = ready, ok' = TRUE,
           C!Guards # {}, calls[C!T][C!Max(C!Guards)].fn = "xpcall",
           calls' = [calls EXCEPT ![C!T] = calls[C!T] \o Shown(<<"handler">>)]
    PROVE  C!Next
<1>1. C!Handle
  BY DEF C!Handle, C!Pushed, C!Frame, Shown, calls, ready
<1>2. QED
  BY <1>1 DEF C!Next

\* The innermost protected call of the activation catches an error.
LEMMA CatchNext ==
    ASSUME Activations # <<>>, Activations' = Activations, ready' = ready, ok' = TRUE,
           C!Guards # {},
           calls' = [calls EXCEPT ![C!T] = C!Cut(calls[C!T], C!Max(C!Guards), "caught")]
    PROVE  C!Next
<1>1. C!Throw
  BY DEF C!Throw, calls, ready
<1>2. QED
  BY <1>1 DEF C!Next

\* The threads when the last activation is gone.
Left(t) == IF t = C!T THEN SubSeq(calls[t], 1, C!Now.base) ELSE calls[t]
Rest == SubSeq(Activations, 1, Len(Activations) - 1)
Caller == Rest[Len(Rest)].t
Fails(f) == /\ Left(Caller)[Len(Left(Caller))].fn = f[1]
            /\ calls' = [t \in Threads |-> IF t = Caller THEN C!Cut(Left(Caller), Len(Left(Caller)), f[2])
                                           ELSE Left(t)]
\* The activation fails, and its caller sees that.
LEMMA EndNext ==
    ASSUME Activations # <<>>, ready' = ready, ok' = TRUE, C!Guards = {}, Activations' = Rest,
           \/ Rest = <<>> /\ calls' = [t \in Threads |-> Left(t)]
           \/ Rest # <<>> /\ \E f \in C!Failures : Fails(f)
    PROVE  C!Next
<1>1. CASE Rest = <<>>
  <2>1. calls' = [t \in Threads |-> Left(t)]
    BY <1>1
  <2>2. C!Throw
    BY Zenon, <1>1, <2>1 DEF C!Throw, Rest, Left, calls, ready
  <2>3. QED
    BY <2>2 DEF C!Next
<1>2. CASE Rest # <<>>
  <2>1. PICK f \in C!Failures : Fails(f)
    BY <1>2
  <2>2. C!Throw
    BY Zenon, <1>2, <2>1 DEF C!Throw, Fails, Caller, Rest, Left, calls, ready
  <2>3. QED
    BY <2>2 DEF C!Next
<1>3. QED
  BY <1>1, <1>2

\* A coroutine starts or goes on.
LEMMA ResumeNext ==
    ASSUME C!InLua, NEW c \in Threads, NEW f \in {"resume", "wrap"}, c \in ready,
           ready' = ready \ {c}, Activations' = Append(Activations, [t |-> c, base |-> 0]), ok' = TRUE,
           calls' = [calls EXCEPT ![C!T] = calls[C!T] \o Shown(<<f>>),
                                  ![c] = IF @ = <<>> THEN Shown(<<"lua">>) ELSE SubSeq(@, 1, Len(@) - 1)]
    PROVE  C!Next
<1>0. Shown(<<"lua">>) = <<[fn |-> "lua", shared |-> FALSE]>>
  BY ShownOne
<1>1. C!Resume(c, f)
  BY <1>0 DEF C!Resume, C!Pushed, C!Frame, Shown, calls, ready
<1>2. C!LuaStep
  BY Zenon, <1>1 DEF C!LuaStep
<1>3. QED
  BY <1>2 DEF C!Next

\* A coroutine is created.
LEMMA CreateNext ==
    ASSUME C!InLua, NEW c \in Threads, c \notin ready, c # Main,
           \A i \in 1..Len(Activations) : Activations[i].t # c,
           ready' = ready \cup {c}, Activations' = Activations, ok' = TRUE,
           calls' = [calls EXCEPT ![c] = <<>>]
    PROVE  C!Next
<1>1. c \notin ready \cup {Main} \cup {Activations[i].t : i \in 1 .. Len(Activations)}
  OBVIOUS
<1>2. C!Create(c)
  BY <1>1 DEF C!Create, calls, ready
<1>3. C!LuaStep
  BY Zenon, <1>2 DEF C!LuaStep
<1>4. QED
  BY <1>3 DEF C!Next

\* A coroutine yields.
LEMMA YieldNext ==
    ASSUME C!InLua, C!T # Main, \A i \in 1..Len(calls[C!T]) : calls[C!T][i].fn \notin C!Barriers,
           ready' = ready \cup {C!T}, Activations' = SubSeq(Activations, 1, Len(Activations) - 1),
           ok' = TRUE, calls' = [calls EXCEPT ![C!T] = calls[C!T] \o Shown(<<"yield">>)]
    PROVE  C!Next
<1>1. C!Yield
  BY DEF C!Yield, C!Pushed, C!Frame, Shown, calls, ready
<1>2. C!LuaStep
  BY Zenon, <1>1 DEF C!LuaStep
<1>3. QED
  BY <1>2 DEF C!Next

\* The threads when a function of the library has called the host.
Under(t) == IF Activations # <<>> /\ t = C!T THEN calls[t] \o Shown(<<"host">>) ELSE calls[t]
\* The host calls into Lua.
LEMMA HostNext ==
    ASSUME Activations = <<>> \/ C!InLua, NEW fns \in {<<>>, <<"lua">>}, ready' = ready, ok' = TRUE,
           Activations' = Append(Activations, [t |-> Main, base |-> Len(Under(Main))]),
           calls' = [t \in Threads |-> IF t = Main THEN Under(t) \o Shown(fns) ELSE Under(t)]
    PROVE  C!Next
<1>1. C!HostCall(fns)
  BY DEF C!HostCall, C!Pushed, C!Frame, Under, Shown, calls, ready
<1>2. CASE C!InLua
  <2>1. C!LuaStep
    BY Zenon, <1>1 DEF C!LuaStep
  <2>2. QED
    BY <1>2, <2>1 DEF C!Next
<1>3. CASE Activations = <<>>
  BY Zenon, <1>1, <1>3 DEF C!Next
<1>4. QED
  BY <1>2, <1>3

-----------------------------------------------------------------------------
(* How the views of a thread change                                        *)

\* The C stack w goes on where s ends, and no activation starts there.
GoesOn(s, w) == /\ s \in Seq(Frames) /\ w \in Seq(Frames) /\ Len(s) <= Len(w)
                /\ \A i \in 1..Len(s) : w[i] = s[i]
                /\ \A i \in Len(s) + 1..Len(w) : w[i].k \notin Starts
\* Then no activation is new.
LEMMA ActsGoOn ==
    ASSUME NEW s, NEW w, GoesOn(s, w)
    PROVE  Acts(w) = Acts(s)
<1>1. Len(s) \in Nat /\ Len(w) \in Nat /\ Len(s) <= Len(w)
  BY DEF GoesOn
<1>2. \A i \in 1..Len(w) : i \in 1..Len(s) \/ i \in Len(s) + 1..Len(w)
  BY <1>1
<1>3. \A i \in 1..Len(s) : i \in 1..Len(w)
  BY <1>1
<1>4. Begun(w) = Begun(s) /\ \A i \in Begun(s) : w[i] = s[i]
  BY <1>2, <1>3 DEF GoesOn, Begun
<1>5. QED
  BY <1>4, ActsSame DEF GoesOn

\* x2 is seen as x, with calls to more functions.
Sees(x, y) == x \in State /\ y \in BOOLEAN /\ (y => Len(x.ci) # 0) /\ x.status # "error"
More(x, y, x2, y2, fns) ==
    /\ Sees(x, y) /\ Sees(x2, y2) /\ fns \in Seq(Names) /\ Deep(x2, y2) = Deep(x, y) + Len(fns)
    /\ \A i \in 1..Deep(x, y) : Label(x2.ci[i]) = Label(x.ci[i]) /\ (i \in x2.open <=> i \in x.open)
    /\ \A i \in 1..Len(fns) : Label(x2.ci[Deep(x, y) + i]) = fns[i] /\ Deep(x, y) + i \notin x2.open
\* Such calls are added to the view.
LEMMA ViewMore ==
    ASSUME NEW x, NEW y, NEW x2, NEW y2, NEW fns, More(x, y, x2, y2, fns)
    PROVE  View(x2, y2) = View(x, y) \o Shown(fns)
<1> DEFINE n == Deep(x, y)
           a == View(x, y)
           b == Shown(fns)
           v == a \o b
<1>0. Sees(x, y) /\ Sees(x2, y2) /\ fns \in Seq(Names) /\ Len(fns) \in Nat
  BY DEF More
<1>1. /\ a \in Seq(Shows) /\ n \in Nat /\ Len(a) = n
      /\ \A i \in 1..n : a[i].fn = Label(x.ci[i]) /\ a[i].shared = (i \in x.open)
  BY <1>0, ViewFacts DEF Sees
<1>2. b \in Seq(Shows) /\ Len(b) = Len(fns)
      /\ \A i \in 1..Len(fns) : b[i].fn = fns[i] /\ b[i].shared = FALSE
  <2>1. \A i \in 1..Len(fns) : fns[i] \in Names
    BY <1>0
  <2>2. \A i \in 1..Len(fns) : [fn |-> fns[i], shared |-> FALSE] \in Shows
    BY <2>1 DEF Shows
  <2>3. QED
    BY <1>0, <2>2 DEF Shown
<1> HIDE DEF a, b, n
<1>3. /\ v \in Seq(Shows) /\ Len(v) = n + Len(fns)
      /\ \A i \in 1..Len(v) : \/ i \in 1..n /\ v[i] = a[i]
                              \/ \E j \in 1..Len(fns) : i = n + j /\ v[i] = b[j]
  <2>1. v \in Seq(Shows) /\ Len(v) = n + Len(fns)
        /\ \A i \in 1..Len(v) : v[i] = IF i <= n THEN a[i] ELSE b[i - n]
    BY <1>0, <1>1, <1>2
  <2>2. ASSUME NEW i \in 1..Len(v), ~(i <= n)
        PROVE  i - n \in 1..Len(fns) /\ i = n + (i - n)
    BY <1>0, <1>1, <2>1, <2>2
  <2>3. \A i \in 1..Len(v) : i <= n => i \in 1..n
    BY <1>1, <2>1
  <2> HIDE DEF v
  <2>4. QED
    BY <2>1, <2>2, <2>3
<1> HIDE DEF v
<1>4. Len(v) = Deep(x2, y2)
  BY <1>3 DEF More, n
<1>5. ASSUME NEW i \in 1..Len(v)
      PROVE  v[i].fn = Label(x2.ci[i]) /\ v[i].shared = (i \in x2.open)
  <2>1. CASE i \in 1..n /\ v[i] = a[i]
    <3>1. Label(x2.ci[i]) = Label(x.ci[i]) /\ (i \in x2.open) = (i \in x.open)
      BY <2>1 DEF More, n
    <3>2. QED
      BY <1>1, <2>1, <3>1
  <2>2. ASSUME NEW j \in 1..Len(fns), i = n + j, v[i] = b[j]
        PROVE  v[i].fn = Label(x2.ci[i]) /\ v[i].shared = (i \in x2.open)
    <3>1. Label(x2.ci[n + j]) = fns[j] /\ (n + j \in x2.open) = FALSE
      BY DEF More, n
    <3>2. QED
      BY <1>2, <2>2, <3>1
  <2>3. QED
    BY <1>3, <2>1, <2>2
<1>6. View(x2, y2) = v
  BY <1>0, <1>3, <1>4, <1>5, ViewIs DEF Sees
<1>7. QED
  BY <1>6 DEF v, a, b

\* x2 is seen as the first n calls of x.
Less(x, y, x2, y2, n) ==
    /\ Sees(x, y) /\ Sees(x2, y2) /\ Deep(x2, y2) = n /\ n \in 0..Deep(x, y)
    /\ \A i \in 1..n : Label(x2.ci[i]) = Label(x.ci[i]) /\ (i \in x2.open <=> i \in x.open)
\* The view is cut off.
LEMMA ViewLess ==
    ASSUME NEW x, NEW y, NEW x2, NEW y2, NEW n, Less(x, y, x2, y2, n)
    PROVE  View(x2, y2) = SubSeq(View(x, y), 1, n)
<1> DEFINE a == View(x, y)
           v == SubSeq(a, 1, n)
<1>0. Sees(x, y) /\ Sees(x2, y2)
  BY DEF Less
<1>1. /\ a \in Seq(Shows) /\ Deep(x, y) \in Nat /\ Len(a) = Deep(x, y) /\ n \in 0..Len(a)
      /\ \A i \in 1..Deep(x, y) : a[i].fn = Label(x.ci[i]) /\ a[i].shared = (i \in x.open)
  BY <1>0, ViewFacts DEF Sees, Less
<1> HIDE DEF a
<1>2. v \in Seq(Shows) /\ Len(v) = n /\ \A i \in 1..n : v[i] = a[i] /\ i \in 1..Deep(x, y)
  BY <1>1
<1> HIDE DEF v
<1>3. ASSUME NEW i \in 1..Len(v)
      PROVE  v[i].fn = Label(x2.ci[i]) /\ v[i].shared = (i \in x2.open)
  <2>1. Label(x2.ci[i]) = Label(x.ci[i]) /\ (i \in x2.open) = (i \in x.open)
    BY <1>2 DEF Less
  <2>2. QED
    BY <1>1, <1>2, <2>1
<1>4. View(x2, y2) = v
  BY <1>0, <1>2, <1>3, ViewIs DEF Sees, Less
<1>5. QED
  BY <1>4 DEF v, a

\* Then the n-th call shows as fn.
Marks(x, y, x2, y2, n, fn) ==
    /\ Sees(x, y) /\ Sees(x2, y2) /\ Deep(x2, y2) = n /\ n \in 1..Deep(x, y)
    /\ \A i \in 1..n : i # n => Label(x2.ci[i]) = Label(x.ci[i])
    /\ Label(x2.ci[n]) = fn /\ \A i \in 1..n : (i \in x2.open <=> i \in x.open)
\* The view is cut off, and its last call shows as fn.
LEMMA ViewMarks ==
    ASSUME NEW x, NEW y, NEW x2, NEW y2, NEW n, NEW fn, Marks(x, y, x2, y2, n, fn)
    PROVE  /\ View(x2, y2) = C!Cut(View(x, y), n, fn)
           /\ View(x2, y2) = C!Cut(SubSeq(View(x, y), 1, n), n, fn)
<1> DEFINE a == View(x, y)
           b == SubSeq(a, 1, n - 1)
           e == [a[n] EXCEPT !.fn = fn]
           v == Append(b, e)
<1>0. Sees(x, y) /\ Sees(x2, y2)
  BY DEF Marks
<1>1. /\ a \in Seq(Shows) /\ Deep(x, y) \in Nat /\ Len(a) = Deep(x, y) /\ n \in 1..Len(a)
      /\ \A i \in 1..Deep(x, y) : a[i].fn = Label(x.ci[i]) /\ a[i].shared = (i \in x.open)
  BY <1>0, ViewFacts DEF Sees, Marks
<1>2. fn \in Names
  <2>1. n \in 1..Len(x2.ci) /\ x2.ci \in Seq(Infos)
    BY <1>0, <1>1, ViewFacts DEF Sees, Marks
  <2>2. x2.ci[n] \in Infos
    BY <2>1
  <2>3. QED
    BY <2>2, LabelTypes DEF Marks
<1> HIDE DEF a
<1>3. a[n] \in Shows
  BY <1>1
<1>4. e \in Shows /\ e.fn = fn /\ e.shared = a[n].shared
  BY <1>2, <1>3 DEF Shows
<1> HIDE DEF e
<1>5. b \in Seq(Shows) /\ Len(b) = n - 1
      /\ \A i \in 1..n - 1 : b[i] = a[i] /\ i \in 1..Deep(x, y) /\ i \in 1..n /\ i # n
  BY <1>1
<1> HIDE DEF b
<1>6. v \in Seq(Shows) /\ Len(v) = n /\ v[n] = e /\ \A i \in 1..n : i = n \/ (i \in 1..n - 1 /\ v[i] = b[i])
  BY <1>1, <1>4, <1>5
<1> HIDE DEF v
<1>7. ASSUME NEW i \in 1..Len(v)
      PROVE  v[i].fn = Label(x2.ci[i]) /\ v[i].shared = (i \in x2.open)
  <2>0. i \in 1..n /\ i \in 1..Deep(x, y)
    BY <1>1, <1>6
  <2>1. (i \in x2.open) = (i \in x.open) /\ Label(x2.ci[n]) = fn
        /\ (i # n => Label(x2.ci[i]) = Label(x.ci[i]))
    BY <2>0 DEF Marks
  <2>2. CASE i = n
    BY <1>1, <1>4, <1>6, <2>0, <2>1, <2>2
  <2>3. CASE i # n
    <3>1. v[i] = a[i]
      BY <1>5, <1>6, <2>0, <2>3
    <3>2. QED
      BY <1>1, <2>0, <2>1, <2>3, <3>1
  <2>4. QED
    BY <2>2, <2>3
<1>8. View(x2, y2) = v
  BY <1>0, <1>6, <1>7, ViewIs DEF Sees, Marks
<1>9. v = C!Cut(a, n, fn)
  BY DEF v, b, e, C!Cut
<1>10. C!Cut(a, n, fn) = C!Cut(SubSeq(a, 1, n), n, fn)
  <2>1. SubSeq(SubSeq(a, 1, n), 1, n - 1) = SubSeq(a, 1, n - 1) /\ SubSeq(a, 1, n)[n] = a[n]
    BY <1>1
  <2>2. QED
    BY <2>1 DEF C!Cut
<1>11. QED
  BY <1>8, <1>9, <1>10 DEF a

\* The locals of the last call are shared, or no longer.
Shares(x, x2, b) ==
    /\ Sees(x, FALSE) /\ Sees(x2, FALSE) /\ x2.ci = x.ci /\ Len(x.ci) # 0 /\ b \in BOOLEAN
    /\ \A i \in 1..Len(x.ci) : IF i = Len(x.ci) THEN i \in x2.open <=> b ELSE i \in x2.open <=> i \in x.open
\* The last call of the view changes.
LEMMA ViewShares ==
    ASSUME NEW x, NEW x2, NEW b, Shares(x, x2, b)
    PROVE  View(x2, FALSE) = [View(x, FALSE) EXCEPT ![Len(View(x, FALSE))].shared = b]
<1> DEFINE a == View(x, FALSE)
           n == Len(x.ci)
           e == [a[n] EXCEPT !.shared = b]
           v == [a EXCEPT ![n] = e]
<1>0. Sees(x, FALSE) /\ Sees(x2, FALSE) /\ b \in BOOLEAN
  BY DEF Shares
<1>1. /\ a \in Seq(Shows) /\ n \in Nat /\ Len(a) = n /\ n \in 1..n
      /\ \A i \in 1..n : a[i].fn = Label(x.ci[i]) /\ a[i].shared = (i \in x.open)
  <2>1. x \in State /\ x.status # "error" /\ Deep(x, FALSE) = n /\ n # 0
    BY <1>0 DEF Sees, Shares, Deep
  <2>2. /\ a \in Seq(Shows) /\ n \in Nat /\ Len(a) = Deep(x, FALSE)
        /\ \A i \in 1..Deep(x, FALSE) : a[i].fn = Label(x.ci[i]) /\ a[i].shared = (i \in x.open)
    BY <2>1, ViewFacts
  <2> HIDE DEF a, n
  <2>3. n \in 1..n
    BY <2>1, <2>2
  <2>4. QED
    BY <2>1, <2>2, <2>3 DEF n
<1> HIDE DEF a
<1>2. a[n] \in Shows
  BY <1>1
<1>3. e \in Shows /\ e.fn = a[n].fn /\ e.shared = b
  BY <1>0, <1>2 DEF Shows
<1> HIDE DEF e
<1>4. v \in Seq(Shows) /\ Len(v) = n /\ v[n] = e /\ \A i \in 1..n : i # n => v[i] = a[i]
  BY <1>1, <1>3
<1> HIDE DEF v
<1>5. ASSUME NEW i \in 1..Len(v)
      PROVE  v[i].fn = Label(x2.ci[i]) /\ v[i].shared = (i \in x2.open)
  <2>0. i \in 1..n
    BY <1>4
  <2>1. x2.ci = x.ci /\ (i \in x2.open) = (IF i = n THEN b ELSE i \in x.open)
    BY <2>0 DEF Shares
  <2>2. CASE i = n
    BY <1>1, <1>3, <1>4, <2>0, <2>1, <2>2
  <2>3. CASE i # n
    BY <1>1, <1>4, <2>0, <2>1, <2>3
  <2>4. QED
    BY <2>2, <2>3
<1>6. View(x2, FALSE) = v
  <2>1. Len(v) = Deep(x2, FALSE)
    BY <1>4 DEF Deep, Shares
  <2>2. QED
    BY <1>0, <1>4, <1>5, <2>1, ViewIs DEF Sees
<1>7. v = [a EXCEPT ![Len(a)].shared = b]
  BY <1>1 DEF v, e
<1>8. QED
  BY <1>6, <1>7 DEF a

-----------------------------------------------------------------------------
(* Steps of a Lua function that call functions                             *)

\* The calls d are those of c and then those of the functions fns.
Adding(c, d, fns) ==
    /\ c \in Seq(Infos) /\ d \in Seq(Infos) /\ Len(d) = Len(c) + Len(fns)
    /\ \A i \in 1..Len(c) : d[i] = c[i]
    /\ \A i \in 1..Len(fns) : d[Len(c) + i].fn = fns[i] /\ ~d[Len(c) + i].stat

\* What a Lua function can call.
LEMMA CallableNames ==
    ASSUME NEW fns \in Callable \cup {<<>>}
    PROVE  fns \in Seq(Names)
<1>1. CASE fns \in {<<>>, <<"lua">>, <<"raise">>, <<"failed">>}
  <2>1. "lua" \in Names /\ "raise" \in Names /\ "failed" \in Names
    BY DEF Names, Functions, CFunctions
  <2>2. <<>> \in Seq(Names) /\ <<"lua">> \in Seq(Names) /\ <<"raise">> \in Seq(Names)
        /\ <<"failed">> \in Seq(Names)
    BY <2>1
  <2>3. QED
    BY <1>1, <2>2
<1>2. ASSUME NEW f \in Protected \cup {"dofile", "sort"}, fns = <<f>> \/ fns = <<f, "lua">>
      PROVE  fns \in Seq(Names)
  <2>1. f \in Names /\ "lua" \in Names
    BY DEF Protected, Names, Functions, CFunctions
  <2>2. <<f>> \in Seq(Names) /\ <<f, "lua">> \in Seq(Names)
    BY <2>1
  <2>3. QED
    BY <1>2, <2>2
<1>3. QED
  BY <1>1, <1>2 DEF Callable

\* The calls are added to the view.
LEMMA AddingShows ==
    ASSUME NEW x \in State, NEW x2 \in State, NEW fns \in Seq(Names), Adding(x.ci, x2.ci, fns),
           x.status # "error", x2.status = x.status, x2.open = x.open, OpenOk(x.ci, x.open)
    PROVE  View(x2, FALSE) = View(x, FALSE) \o Shown(fns)
<1> DEFINE c == x.ci
           d == x2.ci
<1>1. Len(c) \in Nat /\ Deep(x, FALSE) = Len(c) /\ Deep(x2, FALSE) = Len(c) + Len(fns)
  BY DEF Adding, Deep
<1>2. \A i \in 1..Len(c) : Label(d[i]) = Label(c[i]) /\ (i \in x2.open <=> i \in x.open)
  BY DEF Adding
<1>3. \A i \in 1..Len(fns) : Label(d[Len(c) + i]) = fns[i] /\ Len(c) + i \notin x2.open
  <2> SUFFICES ASSUME NEW i \in 1..Len(fns)
               PROVE  Label(d[Len(c) + i]) = fns[i] /\ Len(c) + i \notin x2.open
    OBVIOUS
  <2>1. d[Len(c) + i].fn = fns[i] /\ ~d[Len(c) + i].stat
    BY DEF Adding
  <2>2. Len(c) + i \notin 1..Len(c)
    BY <1>1
  <2>3. QED
    BY <2>1, <2>2 DEF Label, OpenOk
<1>4. More(x, FALSE, x2, FALSE, fns)
  BY <1>1, <1>2, <1>3 DEF More, Sees
<1> DEFINE no == FALSE
<1>5. More(x, no, x2, no, fns)
  BY <1>4
<1> HIDE DEF no
<1>6. View(x2, no) = View(x, no) \o Shown(fns)
  BY <1>5, ViewMore
<1>7. QED
  BY <1>6 DEF no

\* A Lua function calls; the call of nothing is one that has failed at once.
Inside(l) == /\ l \in [Threads -> State] /\ \A u \in Threads : u # R => Alike(L[u], l[u])
             /\ l[R].status = L[R].status /\ l[R].started = L[R].started
\* A step of a Lua function that only adds such calls is an abstract call.
LEMMA AddsCalls ==
    ASSUME CoInv, InLua, World(L', cs', ctl'), ctl' # "yield", ok' = TRUE, GoesOn(cs, cs'),
           Inside(L'), L'[R].open = L[R].open,
           NEW fns \in Callable \cup {<<>>}, Adding(L[R].ci, L'[R].ci, fns)
    PROVE  C!Next
<1>1. /\ C!InLua /\ C!T = R /\ R \in Threads /\ ctl = "run" /\ cs # <<>>
      /\ L[R] \in State /\ L[R].status = "ok"
      /\ calls[R] = View(L[R], FALSE) /\ OpenOk(L[R].ci, L[R].open)
      /\ Len(calls[R]) = Len(L[R].ci) /\ Len(L[R].ci) \in Nat /\ Len(L[R].ci) > 0
  BY LuaHere
<1>2. calls' = [calls EXCEPT ![R] = View(L'[R], FALSE)] /\ ready' = ready
  BY <1>1, OneChanges DEF Inside
<1>3. Activations' = Activations
  <2>1. Acts(cs') = Acts(cs)
    BY ActsGoOn
  <2>2. World(L, cs, ctl)
    BY DEF CoInv
  <2>3. QED
    BY <2>1, <2>2, MappedNow, MappedThen
<1>4. L'[R] \in State /\ L'[R].status = L[R].status
  BY <1>1 DEF Inside
<1>5. View(L'[R], FALSE) = calls[R] \o Shown(fns)
  BY <1>1, <1>4, CallableNames, AddingShows
<1>6. CASE fns \in Callable
  <2>1. calls' = [calls EXCEPT ![C!T] = calls[C!T] \o Shown(fns)]
    BY <1>1, <1>2, <1>5
  <2>2. QED
    BY <1>1, <1>2, <1>3, <1>6, <2>1, CallNext
<1>7. CASE fns = <<>>
  <2> DEFINE n == Len(L[R].ci)
             b == n \in L[R].open
  <2>1. L'[R].ci = L[R].ci
    <3>1. Len(fns) = 0
      BY <1>7
    <3>2. QED
      BY <1>1, <3>1 DEF Adding
  <2>2. Shares(L[R], L'[R], b)
    BY <1>1, <1>4, <2>1 DEF Shares, Sees
  <2>3. View(L'[R], FALSE) = [calls[R] EXCEPT ![Len(calls[R])].shared = b]
    <3>1. View(L'[R], FALSE) = [View(L[R], FALSE) EXCEPT ![Len(View(L[R], FALSE))].shared = b]
      BY Zenon, <2>2, ViewShares
    <3>2. QED
      BY Zenon, <1>1, <3>1
  <2> HIDE DEF b
  <2>4. b \in BOOLEAN
    BY DEF b
  <2>5. calls' = [calls EXCEPT ![C!T][Len(calls[C!T])].shared = b]
    BY <1>1, <1>2, <2>3, Zenon
  <2>6. QED
    BY <1>1, <1>2, <1>3, <2>4, <2>5, ShareNext
<1>8. QED
  BY <1>6, <1>7

\* So does one of a library.
LEMMA CallsThrough ==
    ASSUME CoInv, InLua, World(L', cs', ctl'), ctl' # "yield", ok' = TRUE,
           NEW l, Inside(l), l[R].open = L[R].open, NEW s, GoesOn(cs, s),
           NEW pre \in Callable \cup {<<>>}, Append(pre, "lua") \in Callable,
           Adding(L[R].ci, l[R].ci, pre),
           NEW allow \in BOOLEAN, LuaDCall(R, l, s, allow, "lua")
    PROVE  C!Next
<1>1. R \in Threads /\ L[R].ci \in Seq(Infos) /\ Len(L[R].ci) \in Nat
  BY LuaHere, Here
<1>2. l \in [Threads -> State] /\ s \in Seq(Frames) /\ l[R] \in State /\ "lua" \in Functions
  BY <1>1 DEF Inside, GoesOn, Functions
<1>3. Called(l, s, R, allow, "lua", L', cs', ctl')
  BY <1>1, <1>2, CallTypes
<1>4. PICK f \in Frames :
         /\ cs' = Append(s, f) /\ f.k = "call"
         /\ \/ L'[R].ci = Append(l[R].ci, Info("lua"))
            \/ L'[R].ci = l[R].ci
  BY <1>3 DEF Called
<1>5. GoesOn(cs, cs')
  <2>1. cs' \in Seq(Frames) /\ Len(cs') = Len(s) + 1 /\ cs'[Len(s) + 1] = f
        /\ \A i \in 1..Len(s) : cs'[i] = s[i]
    BY <1>2, <1>4
  <2>2. Len(cs) \in Nat /\ Len(s) \in Nat /\ Len(cs) <= Len(s)
    BY DEF GoesOn
  <2>3. \A i \in 1..Len(cs) : i \in 1..Len(s)
    BY <2>2
  <2>4. \A i \in Len(cs) + 1..Len(cs') : i \in Len(cs) + 1..Len(s) \/ i = Len(s) + 1
    BY <2>1, <2>2
  <2>5. f.k \notin Starts
    BY <1>4 DEF Starts
  <2>6. \A i \in Len(cs) + 1..Len(s) : i \in 1..Len(s)
    BY <2>2
  <2>7. QED
    BY <2>1, <2>2, <2>3, <2>4, <2>5, <2>6 DEF GoesOn
<1>6. Inside(L') /\ L'[R].open = L[R].open
  <2>1. /\ L' \in [Threads -> State] /\ \A u \in Threads : u # R => L'[u] = l[u]
        /\ L'[R].status = l[R].status /\ L'[R].started = l[R].started /\ L'[R].open = l[R].open
    BY <1>3 DEF Called
  <2>2. QED
    BY <2>1 DEF Inside
<1>7. pre \in Seq(Names) /\ Len(pre) \in Nat
  BY CallableNames
<1>8. CASE L'[R].ci = l[R].ci
  <2>1. Adding(L[R].ci, L'[R].ci, pre)
    BY <1>8
  <2>2. QED
    BY <1>5, <1>6, <2>1, AddsCalls
<1>9. CASE L'[R].ci = Append(l[R].ci, Info("lua"))
  <2> DEFINE c == L[R].ci
             d == l[R].ci
             e == Append(d, Info("lua"))
             fns == Append(pre, "lua")
  <2>1. /\ c \in Seq(Infos) /\ d \in Seq(Infos) /\ Len(d) = Len(c) + Len(pre)
        /\ \A i \in 1..Len(c) : d[i] = c[i]
        /\ \A i \in 1..Len(pre) : d[Len(c) + i].fn = pre[i] /\ ~d[Len(c) + i].stat
    BY DEF Adding
  <2>2. Info("lua") \in Infos /\ Info("lua").fn = "lua" /\ ~Info("lua").stat
    BY InfoTypes DEF Functions
  <2>3. /\ e \in Seq(Infos) /\ Len(e) = Len(d) + 1 /\ e[Len(d) + 1] = Info("lua")
        /\ \A i \in 1..Len(d) : e[i] = d[i]
    BY <2>1, <2>2, AppendInfo DEF Pushed
  <2>4. Len(fns) = Len(pre) + 1 /\ fns[Len(pre) + 1] = "lua" /\ \A i \in 1..Len(pre) : fns[i] = pre[i]
    BY <1>7
  <2> HIDE DEF c, d, e, fns
  <2>5. Len(c) \in Nat
    BY <2>1
  <2>6. \A i \in 1..Len(c) : i \in 1..Len(d)
    BY <1>7, <2>1, <2>5
  <2>7. ASSUME NEW i \in 1..Len(fns)
        PROVE  e[Len(c) + i].fn = fns[i] /\ ~e[Len(c) + i].stat
    <3>1. CASE i = Len(pre) + 1
      <4>1. Len(c) + i = Len(d) + 1
        BY <1>7, <2>1, <2>5, <3>1
      <4>2. QED
        BY <2>2, <2>3, <2>4, <3>1, <4>1
    <3>2. CASE i # Len(pre) + 1
      <4>1. i \in 1..Len(pre) /\ Len(c) + i \in 1..Len(d)
        BY <1>7, <2>1, <2>4, <2>5, <3>2
      <4>2. QED
        BY <2>1, <2>3, <2>4, <4>1
    <3>3. QED
      BY <3>1, <3>2
  <2>8. Len(e) = Len(c) + Len(fns)
    BY <1>7, <2>1, <2>3, <2>4, <2>5
  <2>9. Adding(c, e, fns)
    BY <2>1, <2>3, <2>6, <2>7, <2>8 DEF Adding
  <2>10. Adding(L[R].ci, L'[R].ci, fns) /\ fns \in Callable \cup {<<>>}
    BY <1>9, <2>9 DEF c, e, d, fns
  <2>11. QED
    BY <1>5, <1>6, <2>10, AddsCalls
<1>10. QED
  BY <1>4, <1>8, <1>9

\* One call that Push makes.
LEMMA AddingOne ==
    ASSUME NEW c \in Seq(Infos), NEW f \in Infos, ~f.stat, NEW d, d = Append(c, f)
    PROVE  Adding(c, d, <<f.fn>>)
<1>1. d \in Seq(Infos) /\ Len(d) = Len(c) + 1 /\ d[Len(c) + 1] = f /\ \A i \in 1..Len(c) : d[i] = c[i]
  OBVIOUS
<1> DEFINE fns == <<f.fn>>
<1>2. Len(fns) = 1 /\ fns[1] = f.fn /\ \A i \in 1..1 : i = 1
  OBVIOUS
<1> HIDE DEF fns
<1>3. Adding(c, d, fns)
  BY <1>1, <1>2 DEF Adding
<1>4. QED
  BY <1>3 DEF fns

\* Nothing is added.
LEMMA AddingNone ==
    ASSUME NEW c \in Seq(Infos)
    PROVE  Adding(c, c, <<>>)
BY DEF Adding

\* A C stack goes on as itself.
LEMMA StaysOn ==
    ASSUME NEW s \in Seq(Frames)
    PROVE  GoesOn(s, s)
BY DEF GoesOn

\* CallLua, Raise, and a yield that is refused.
LEMMA PushStep ==
    ASSUME CoInv, InLua, World(L', cs', ctl'), ctl' # "yield", ok' = TRUE, cs' = cs,
           NEW f \in Infos, ~f.stat, f.fn \in {"lua", "raise"}, L' = Push(R, f)
    PROVE  C!Next
<1>1. R \in Threads /\ L \in [Threads -> State] /\ L[R].ci \in Seq(Infos) /\ cs \in Seq(Frames)
  BY LuaHere, Here
<1>2. Pushes(L, L', R, f)
  BY <1>1 DEF Pushes, Push
<1>3. /\ L' \in [Threads -> State] /\ \A u \in Threads : u # R => L'[u] = L[u]
      /\ L'[R].ci = Append(L[R].ci, f)
      /\ L'[R].status = L[R].status /\ L'[R].started = L[R].started
      /\ L'[R].open = L[R].open
  BY <1>2, PushStays
<1>4. Adding(L[R].ci, L'[R].ci, <<f.fn>>)
  BY <1>1, <1>3, AddingOne
<1>5. <<f.fn>> \in Callable \cup {<<>>}
  BY DEF Callable
<1>6. Inside(L')
  BY <1>3 DEF Inside, Alike
<1>7. GoesOn(cs, cs')
  BY <1>1, StaysOn
<1> DEFINE fns == <<f.fn>>
<1> HIDE DEF fns
<1>8. Adding(L[R].ci, L'[R].ci, fns) /\ fns \in Callable \cup {<<>>}
  BY <1>4, <1>5 DEF fns
<1>9. QED
  BY <1>3, <1>6, <1>7, <1>8, AddsCalls

\* OP_CALL of a Lua function: a call.
LEMMA CallLuaNext ==
    ASSUME CoInv, CallLua
    PROVE  C!Next
<1> DEFINE f == [Info("lua") EXCEPT !.reentry = TRUE]
<1>1. InLua /\ L' = Push(R, f) /\ cs' = cs /\ ctl' = ctl /\ ok' = TRUE
  BY DEF CallLua
<1>2. f \in Infos /\ f.fn = "lua" /\ ~f.stat
  BY DEF Info, Infos, Functions, CFunctions
<1>3. ctl' # "yield"
  BY <1>1, LuaHere
<1> HIDE DEF f
<1>4. World(L', cs', ctl')
  BY LuaSteps
<1>5. QED
  BY <1>1, <1>2, <1>3, <1>4, PushStep

\* A function of the library raises an error: a call that fails.
LEMMA RaiseNext ==
    ASSUME CoInv, Raise
    PROVE  C!Next
<1>1. InLua /\ L' = Push(R, Info("raise")) /\ cs' = cs /\ ctl' = "raise" /\ ok' = TRUE
  BY DEF Raise
<1>2. Info("raise") \in Infos /\ Info("raise").fn = "raise" /\ ~Info("raise").stat
  BY InfoTypes DEF CFunctions
<1>3. World(L', cs', ctl')
  BY LuaSteps
<1>4. QED
  BY <1>1, <1>2, <1>3, PushStep

\* A metamethod: a call.
LEMMA CallTMNext ==
    ASSUME CoInv, CallTM
    PROVE  C!Next
<1>1. InLua /\ LuaDCall(R, L, cs, TRUE, "lua") /\ ok' = TRUE
  BY DEF CallTM
<1>2. World(L', cs', ctl') /\ ctl' # "yield"
  BY CallTMStep
<1>3. L \in [Threads -> State] /\ L[R].ci \in Seq(Infos) /\ cs \in Seq(Frames)
  BY <1>1, LuaHere, Here
<1>4. Inside(L) /\ GoesOn(cs, cs)
  BY <1>3, StaysOn DEF Inside, Alike
<1>5. Adding(L[R].ci, L[R].ci, <<>>)
  BY <1>3, AddingNone
<1>6. Append(<<>>, "lua") = <<"lua">>
  OBVIOUS
<1>7. Append(<<>>, "lua") \in Callable
  BY <1>6 DEF Callable
<1> DEFINE pre == <<>>
<1>8. pre \in Callable \cup {<<>>} /\ Adding(L[R].ci, L[R].ci, pre) /\ Append(pre, "lua") \in Callable
  BY <1>5, <1>7
<1> HIDE DEF pre
<1> DEFINE allow == TRUE
<1>9. allow \in BOOLEAN /\ LuaDCall(R, L, cs, allow, "lua")
  BY <1>1
<1> HIDE DEF allow
<1>10. QED
  BY <1>1, <1>2, <1>4, <1>8, <1>9, CallsThrough

\* A library function that calls a Lua function: what l is before the call.
Library(l, fn) == /\ Inside(l) /\ l[R].open = L[R].open
                  /\ \E f \in Infos : f.fn = fn /\ ~f.stat /\ l[R].ci = Append(L[R].ci, f)
\* Two functions, one by one.
LEMMA AppendTwo ==
    ASSUME NEW S, NEW a \in S, NEW b \in S
    PROVE  Append(<<a>>, b) = <<a, b>>
<1> DEFINE p == <<a>>
           q == Append(p, b)
           r == <<a, b>>
<1>1. p \in Seq(S) /\ Len(p) = 1 /\ p[1] = a
  OBVIOUS
<1>2. r \in Seq(S) /\ Len(r) = 2 /\ r[1] = a /\ r[2] = b
  OBVIOUS
<1> HIDE DEF p, r
<1>3. q \in Seq(S) /\ Len(q) = 2 /\ q[1] = a /\ q[2] = b
  <2>1. q \in Seq(S) /\ Len(q) = Len(p) + 1 /\ q[Len(p) + 1] = b /\ \A i \in 1..Len(p) : q[i] = p[i]
    BY <1>1
  <2>2. Len(p) + 1 = 2 /\ 1 \in 1..Len(p)
    BY <1>1
  <2>3. QED
    BY <1>1, <2>1, <2>2
<1> HIDE DEF q
<1>4. \A i \in 1..2 : q[i] = r[i]
  BY <1>2, <1>3
<1>5. q = r
  BY <1>2, <1>3, <1>4
<1>6. QED
  BY <1>5 DEF p, q, r

\* A library function has called a Lua function: a call of both.
LEMMA LibraryNext ==
    ASSUME CoInv, InLua, World(L', cs', ctl'), ctl' # "yield", ok' = TRUE,
           NEW fn \in Protected \cup {"dofile", "sort"}, NEW l, Library(l, fn),
           NEW s, GoesOn(cs, s), NEW allow \in BOOLEAN, LuaDCall(R, l, s, allow, "lua")
    PROVE  C!Next
<1>1. L[R].ci \in Seq(Infos)
  BY LuaHere, Here
<1>2. PICK f \in Infos : f.fn = fn /\ ~f.stat /\ l[R].ci = Append(L[R].ci, f)
  BY DEF Library
<1>3. Adding(L[R].ci, l[R].ci, <<f.fn>>)
  BY <1>1, <1>2, AddingOne
<1>4. Append(<<fn>>, "lua") = <<fn, "lua">>
  <2> DEFINE S == Protected \cup {"dofile", "sort", "lua"}
  <2>1. fn \in S /\ "lua" \in S
    OBVIOUS
  <2>2. QED
    BY <2>1, AppendTwo
<1> DEFINE pre == <<fn>>
<1>5. pre \in Callable /\ Append(pre, "lua") \in Callable
  BY <1>4 DEF Callable
<1>6. Adding(L[R].ci, l[R].ci, pre)
  BY <1>2, <1>3
<1> HIDE DEF pre
<1>7. Inside(l) /\ l[R].open = L[R].open
  BY DEF Library
<1>8. QED
  BY <1>5, <1>6, <1>7, CallsThrough

\* dofile and sort: a call of both.
LEMMA CallKNext ==
    ASSUME CoInv, NEW fn \in {"dofile", "sort"}, CallK(fn)
    PROVE  C!Next
<1> DEFINE l == Push(R, Info(fn))
           allow == fn = "dofile" /\ L[R].nny = 0
<1>1. InLua /\ LuaDCall(R, l, cs, allow, "lua") /\ ok' = TRUE
  BY DEF CallK
<1>2. fn \in CFunctions \ {"raise"}
  BY DEF CFunctions
<1>3. /\ l \in [Threads -> State] /\ l[R].ci = Append(L[R].ci, Info(fn)) /\ l[R].open = L[R].open
      /\ l[R].status = L[R].status /\ l[R].started = L[R].started
      /\ \A t \in Threads : t # R => l[t] = L[t]
  BY <1>1, <1>2, LibraryCall
<1>4. Info(fn) \in Infos /\ Info(fn).fn = fn /\ ~Info(fn).stat
  BY <1>2, InfoTypes
<1>5. World(L', cs', ctl') /\ ctl' # "yield"
  BY CallKStep
<1> HIDE DEF l
<1>6. Library(l, fn)
  BY <1>3, <1>4 DEF Library, Inside, Alike
<1>7. GoesOn(cs, cs)
  BY <1>1, LuaHere, Here, StaysOn
<1>8. allow \in BOOLEAN
  OBVIOUS
<1> HIDE DEF allow
<1>9. QED
  BY <1>1, <1>5, <1>6, <1>7, <1>8, LibraryNext

\* pcall and xpcall: a call of both.
LEMMA PCallKNext ==
    ASSUME CoInv, NEW fn \in {"pcall", "xpcall"}, PCallK(fn)
    PROVE  C!Next
<1> DEFINE frame == Size(R) + 1
           e == IF fn = "xpcall" THEN frame ELSE 0
<1>1. InLua /\ fn \in CFunctions \ {"raise"} /\ fn \in Protected /\ ok' = TRUE
  BY DEF PCallK, CFunctions, Protected
<1>2. World(L', cs', ctl') /\ ctl' # "yield"
  BY PCallKStep
<1>3. /\ R \in Threads /\ L \in [Threads -> State] /\ L[R] \in State /\ cs \in Seq(Frames)
      /\ L[R].ci \in Seq(Infos) /\ Len(L[R].ci) \in Nat
  BY <1>1, LuaHere, Here
<1>4. frame \in Nat /\ e \in Nat
  BY <1>3 DEF Size
<1>5. CASE L[R].nny > 0
  <2> DEFINE l == Push(R, Info(fn))
             m == [l EXCEPT ![R].errfunc = e]
             y == [l[R] EXCEPT !.errfunc = e]
             f == Try("pcall", R, frame, L[R].nCcalls)
             s == Append(cs, f)
  <2>1. LuaDCall(R, m, s, FALSE, "lua")
    BY <1>5 DEF PCallK
  <2>2. /\ l \in [Threads -> State] /\ l[R].ci = Append(L[R].ci, Info(fn)) /\ l[R].open = L[R].open
        /\ l[R].status = L[R].status /\ l[R].started = L[R].started
        /\ \A t \in Threads : t # R => l[t] = L[t]
    BY <1>1, LibraryCall
  <2>3. m = [l EXCEPT ![R] = y]
    BY Zenon
  <2> HIDE DEF l
  <2>4. /\ y \in State /\ y.ci = l[R].ci /\ y.open = l[R].open
        /\ y.status = l[R].status /\ y.started = l[R].started
    BY <1>3, <1>4, <2>2 DEF State
  <2> HIDE DEF y, m
  <2>5. m \in [Threads -> State] /\ m[R] = y /\ \A u \in Threads : u # R => m[u] = l[u]
    BY <1>3, <2>2, <2>3, <2>4, Updated
  <2>6. Info(fn) \in Infos /\ Info(fn).fn = fn /\ ~Info(fn).stat
    BY <1>1, InfoTypes
  <2>7. Library(m, fn)
    BY <2>2, <2>4, <2>5, <2>6 DEF Library, Inside, Alike
  <2>8. f \in Frames /\ f.k = "pcall"
    BY <1>3, <1>4 DEF Try, Frames, Tries, State
  <2> HIDE DEF f
  <2>9. GoesOn(cs, s)
    <3>1. s \in Seq(Frames) /\ Len(s) = Len(cs) + 1 /\ s[Len(cs) + 1] = f
          /\ \A i \in 1..Len(cs) : s[i] = cs[i]
      BY <1>3, <2>8
    <3>2. \A i \in Len(cs) + 1..Len(s) : i = Len(cs) + 1
      BY <1>3, <3>1
    <3> HIDE DEF s
    <3>3. f.k \notin Starts
      BY <2>8 DEF Starts
    <3>4. Len(cs) <= Len(s)
      BY <1>3, <3>1
    <3>5. QED
      BY <1>3, <3>1, <3>2, <3>3, <3>4 DEF GoesOn
  <2> HIDE DEF s
  <2> DEFINE no == FALSE
  <2>10. no \in BOOLEAN /\ LuaDCall(R, m, s, no, "lua")
    BY <2>1
  <2> HIDE DEF no
  <2>11. QED
    BY <1>1, <1>2, <2>7, <2>9, <2>10, LibraryNext
<1>6. CASE ~(L[R].nny > 0)
  <2> DEFINE f == [Info(fn) EXCEPT !.ypcall = TRUE, !.h = L[R].errfunc]
             l == [Push(R, f) EXCEPT ![R].errfunc = e]
             d == Append(L[R].ci, f)
             y == [L[R] EXCEPT !.ci = d, !.errfunc = e]
  <2>1. LuaDCall(R, l, cs, TRUE, "lua")
    BY <1>6 DEF PCallK
  <2>2. f \in Infos /\ f.fn = fn /\ ~f.stat
    BY <1>1, <1>3 DEF Info, Infos, State
  <2>3. l = [L EXCEPT ![R] = y]
    BY <1>3, Zenon DEF Push
  <2> HIDE DEF f, l
  <2>4. d \in Seq(Infos)
    BY <1>3, <2>2
  <2>5. /\ y \in State /\ y.ci = d /\ y.open = L[R].open
        /\ y.status = L[R].status /\ y.started = L[R].started
    BY <1>3, <1>4, <2>4 DEF State
  <2> HIDE DEF y
  <2>6. l \in [Threads -> State] /\ l[R] = y /\ \A u \in Threads : u # R => l[u] = L[u]
    BY <1>3, <2>3, <2>5, Updated
  <2>7. Library(l, fn)
    BY <2>2, <2>5, <2>6 DEF Library, Inside, Alike
  <2>8. GoesOn(cs, cs)
    BY <1>3, StaysOn
  <2> DEFINE yes == TRUE
  <2>9. yes \in BOOLEAN /\ LuaDCall(R, l, cs, yes, "lua")
    BY <2>1
  <2> HIDE DEF yes
  <2>10. QED
    BY <1>1, <1>2, <2>7, <2>8, <2>9, LibraryNext
<1>7. QED
  BY <1>5, <1>6

\* FindUpval, TailCall.
LEMMA OpenNext ==
    ASSUME CoInv, FindUpval \/ TailCall
    PROVE  C!Next
<1>1. InLua /\ cs' = cs /\ ctl' = ctl /\ ok' = TRUE
  BY DEF FindUpval, TailCall
<1>2. /\ C!InLua /\ C!T = R /\ R \in Threads /\ ctl = "run" /\ cs # <<>>
      /\ L[R] \in State /\ L[R].status = "ok"
      /\ calls[R] = View(L[R], FALSE)
      /\ Len(L[R].ci) \in Nat /\ Len(L[R].ci) > 0
  BY <1>1, LuaHere
<1>3. L \in [Threads -> State] /\ cs \in Seq(Frames)
  BY <1>2, Here
<1> DEFINE n == Len(L[R].ci)
<1>4. PICK b \in BOOLEAN, o \in SUBSET Nat :
         /\ L' = [L EXCEPT ![R] = [L[R] EXCEPT !.open = o]]
         /\ \A i \in 1..n : IF i = n THEN i \in o <=> b ELSE i \in o <=> i \in L[R].open
  <2>1. CASE FindUpval
    <3> DEFINE o == L[R].open \cup {n}
    <3>1. o \in SUBSET Nat
      BY <1>2 DEF State
    <3>2. L' = [L EXCEPT ![R] = [L[R] EXCEPT !.open = o]]
      BY <2>1, Zenon DEF FindUpval, Size
    <3>3. \A i \in 1..n : IF i = n THEN i \in o <=> TRUE ELSE i \in o <=> i \in L[R].open
      OBVIOUS
    <3>4. QED
      BY <3>1, <3>2, <3>3
  <2>2. CASE TailCall
    <3> DEFINE o == L[R].open \ {n}
    <3>1. o \in SUBSET Nat
      BY <1>2 DEF State
    <3>2. L' = [L EXCEPT ![R] = [L[R] EXCEPT !.open = o]]
      BY <2>2, Zenon DEF TailCall, Size
    <3>3. \A i \in 1..n : IF i = n THEN i \in o <=> FALSE ELSE i \in o <=> i \in L[R].open
      OBVIOUS
    <3>4. QED
      BY <3>1, <3>2, <3>3
  <2>3. QED
    BY <1>1, <2>1, <2>2
<1> DEFINE y == [L[R] EXCEPT !.open = o]
<1>5. y \in State /\ y.ci = L[R].ci /\ y.status = "ok" /\ y.started = L[R].started /\ y.open = o
  BY <1>2 DEF State
<1> HIDE DEF y
<1>6. L' \in [Threads -> State] /\ L'[R] = y /\ \A u \in Threads : u # R => L'[u] = L[u]
  BY <1>2, <1>3, <1>4, <1>5, Updated DEF y
<1>7. World(L', cs', ctl') /\ ctl # "yield" /\ ctl' # "yield"
  BY <1>1, <1>2, OpenSteps
<1>8. calls' = [calls EXCEPT ![R] = View(L'[R], FALSE)] /\ ready' = ready
  <2>1. \A u \in Threads : u # R => Alike(L[u], L'[u])
    BY <1>6 DEF Alike
  <2>2. L'[R].status = L[R].status /\ L'[R].started = L[R].started
    BY <1>2, <1>5, <1>6
  <2>3. QED
    BY <1>2, <1>7, <2>1, <2>2, OneChanges
<1>9. Activations' = Activations
  <2>1. World(L, cs, ctl)
    BY DEF CoInv
  <2>2. QED
    BY <1>1, <1>7, <2>1, MappedNow, MappedThen
<1>10. View(L'[R], FALSE) = [calls[R] EXCEPT ![Len(calls[R])].shared = b]
  <2>1. Shares(L[R], L'[R], b)
    BY <1>2, <1>4, <1>5, <1>6 DEF Shares, Sees
  <2>2. View(L'[R], FALSE) = [View(L[R], FALSE) EXCEPT ![Len(View(L[R], FALSE))].shared = b]
    BY Zenon, <2>1, ViewShares
  <2>3. QED
    BY Zenon, <1>2, <2>2
<1>11. calls' = [calls EXCEPT ![C!T][Len(calls[C!T])].shared = b]
  BY <1>2, <1>8, <1>10, Zenon
<1>12. QED
  BY <1>1, <1>2, <1>8, <1>9, <1>11, ShareNext

-----------------------------------------------------------------------------
(* An activation fails at once: the coroutine cannot be resumed            *)

\* Only the last call of the thread is another one.
LEMMA RelabelFacts ==
    ASSUME NEW l \in [Threads -> State], NEW t \in Threads, Len(l[t].ci) > 0,
           NEW fn \in CFunctions, NEW l2, l2 = Relabel(l, t, fn)
    PROVE  /\ l2 \in [Threads -> State] /\ \A u \in Threads : u # t => l2[u] = l[u]
           /\ l2[t].ci \in Seq(Infos) /\ Len(l2[t].ci) = Len(l[t].ci)
           /\ \A i \in 1..Len(l[t].ci) : i # Len(l[t].ci) => l2[t].ci[i] = l[t].ci[i]
           /\ l2[t].ci[Len(l[t].ci)].fn = fn
           /\ l2[t].ci[Len(l[t].ci)].stat = l[t].ci[Len(l[t].ci)].stat
           /\ l2[t].open = l[t].open /\ l2[t].status = l[t].status /\ l2[t].started = l[t].started
<1> DEFINE c == l[t].ci
           z == Len(c)
           g == [c[z] EXCEPT !.fn = fn]
           d == [c EXCEPT ![z] = g]
           y == [l[t] EXCEPT !.ci = d]
<1>1. l[t] \in State /\ c \in Seq(Infos) /\ z \in Nat /\ z \in 1..z
  <2>1. l[t] \in State /\ c \in Seq(Infos) /\ z \in Nat
    BY DEF State
  <2>2. QED
    BY <2>1
<1>2. l2 = [l EXCEPT ![t] = y]
  BY DEF Relabel
<1>3. c[z] \in Infos
  <2> HIDE DEF c
  <2>1. QED
    BY <1>1
<1> HIDE DEF c, z
<1>4. g \in Infos /\ g.fn = fn /\ g.stat = c[z].stat
  BY <1>3 DEF Infos
<1> HIDE DEF g
<1>5. d \in Seq(Infos) /\ Len(d) = z /\ d[z] = g /\ \A i \in 1..z : i # z => d[i] = c[i]
  BY <1>1, <1>4 DEF z
<1> HIDE DEF d
<1>6. y \in State /\ y.ci = d /\ y.open = l[t].open /\ y.status = l[t].status /\ y.started = l[t].started
  BY <1>1, <1>5 DEF State
<1> HIDE DEF y
<1>7. l2 \in [Threads -> State] /\ l2[t] = y /\ \A u \in Threads : u # t => l2[u] = l[u]
  BY <1>2, <1>6, Updated
<1>8. QED
  BY <1>1, <1>4, <1>5, <1>6, <1>7 DEF c, z

\* The caller sees that its activation has failed.
Answers(x, x2, f) ==
    /\ x2.open = x.open /\ x2.status = x.status /\ x2.started = x.started
    /\ x.ci \in Seq(Infos) /\ x2.ci \in Seq(Infos) /\ Len(x.ci) \in 1..Len(x.ci) /\ Len(x2.ci) = Len(x.ci)
    /\ \A i \in 1..Len(x.ci) : i # Len(x.ci) => x2.ci[i] = x.ci[i]
    /\ x.ci[Len(x.ci)].fn = f[1] /\ x2.ci[Len(x.ci)].fn = f[2]
    /\ ~x.ci[Len(x.ci)].stat /\ ~x2.ci[Len(x.ci)].stat
\* What Fail does to the thread of the caller.
LEMMA FailFacts ==
    ASSUME NEW l, NEW s, Waiting(l, s), Fail(l, s), s # <<>>, NEW t, t = s[Len(s)].t,
           ctl' # "raisemain"
    PROVE  /\ cs' = s /\ t \in Threads /\ Runs(s, t) /\ l[t].status = "ok"
           /\ L' \in [Threads -> State] /\ \A u \in Threads : u # t => L'[u] = l[u]
           /\ \E f \in C!Failures : Answers(l[t], L'[t], f)
<1>1. /\ s \in Seq(Frames) /\ Len(s) \in 1..Len(s) /\ Len(s) # 0 /\ l \in [Threads -> State]
  BY DEF Waiting
<1>2. s[Len(s)] \in Frames
  BY <1>1
<1>3. Runs(s, t) /\ t \in Threads /\ Last(s) = s[Len(s)]
  BY <1>1, <1>2, FrameTypes DEF Runs, Last
<1> DEFINE c == l[t].ci
           z == Len(c)
<1>4. /\ c \in Seq(Infos) /\ z \in 1..z /\ z > 0 /\ l[t].status = "ok"
      /\ c[z].fn \in Callers /\ c[z] \in Infos /\ ~c[z].stat /\ Last(c) = c[z]
  <2>1. World(l, s, "run")
    BY WaitingRuns
  <2>2. /\ c \in Seq(Infos) /\ z \in Nat /\ l[t].status = "ok" /\ Mine(s, t) # {} /\ Stack(c, s, t, FALSE)
    BY <1>3, <2>1, RunFacts
  <2>3. Status(l[t], s, t, FALSE)
    BY <1>3 DEF Waiting, Good
  <2>4. z \in 1..z /\ z > 0 /\ c[z].fn \in Callers
    BY <2>2, <2>3 DEF Status
  <2>5. c[z].stat => c[z].fn \in Protected
    BY <2>2, <2>4 DEF Stack, InfosOk, Flagged
  <2>6. c[z] \in Infos
    <3> HIDE DEF c
    <3>1. QED
      BY <2>2, <2>4
  <2>7. QED
    BY <2>2, <2>4, <2>5, <2>6 DEF Protected, Callers, Last
<1>5. PICK f \in C!Failures : c[z].fn = f[1] /\ L' = Relabel(l, t, f[2])
  <2> DEFINE fn == c[z].fn
  <2>1. \/ fn \in {"wrap", "host"} /\ L' = Relabel(l, t, "raise")
        \/ fn \in {"resume", "host"} /\ L' = Relabel(l, t, IF fn = "resume" THEN "failed" ELSE fn)
    BY <1>3, <1>4 DEF Fail
  <2> HIDE DEF fn, c, z
  <2> DEFINE one == <<"wrap", "raise">>
             two == <<"host", "raise">>
             three == <<"resume", "failed">>
             four == <<"host", "host">>
  <2>2. /\ one \in C!Failures /\ one[1] = "wrap" /\ one[2] = "raise"
        /\ two \in C!Failures /\ two[1] = "host" /\ two[2] = "raise"
        /\ three \in C!Failures /\ three[1] = "resume" /\ three[2] = "failed"
        /\ four \in C!Failures /\ four[1] = "host" /\ four[2] = "host"
    BY DEF C!Failures
  <2> HIDE DEF one, two, three, four
  <2>3. \/ fn = "wrap" /\ L' = Relabel(l, t, "raise")
        \/ fn = "host" /\ L' = Relabel(l, t, "raise")
        \/ fn = "resume" /\ L' = Relabel(l, t, "failed")
        \/ fn = "host" /\ L' = Relabel(l, t, "host")
    BY <2>1
  <2>4. \E g \in C!Failures : fn = g[1] /\ L' = Relabel(l, t, g[2])
    BY <2>2, <2>3
  <2>5. QED
    BY <2>4 DEF fn
<1>6. f[2] \in CFunctions
  <2>1. f \in {<<"resume", "failed">>, <<"wrap", "raise">>, <<"host", "host">>, <<"host", "raise">>}
    BY DEF C!Failures
  <2>2. QED
    BY <2>1 DEF CFunctions
<1> DEFINE g == f[2]
<1> HIDE DEF g
<1>7. /\ L' \in [Threads -> State] /\ \A u \in Threads : u # t => L'[u] = l[u]
      /\ L'[t].ci \in Seq(Infos) /\ Len(L'[t].ci) = Len(l[t].ci)
      /\ \A i \in 1..Len(l[t].ci) : i # Len(l[t].ci) => L'[t].ci[i] = l[t].ci[i]
      /\ L'[t].ci[Len(l[t].ci)].fn = g
      /\ L'[t].ci[Len(l[t].ci)].stat = l[t].ci[Len(l[t].ci)].stat
      /\ L'[t].open = l[t].open /\ L'[t].status = l[t].status /\ L'[t].started = l[t].started
  <2>1. g \in CFunctions /\ L' = Relabel(l, t, g)
    BY <1>5, <1>6 DEF g
  <2>2. l \in [Threads -> State] /\ t \in Threads /\ Len(l[t].ci) > 0
    BY <1>1, <1>3, <1>4
  <2>3. QED
    BY <2>1, <2>2, RelabelFacts
<1>8. Answers(l[t], L'[t], f)
  BY <1>4, <1>5, <1>7 DEF Answers, g
<1>9. cs' = s
  BY DEF Fail
<1>10. QED
  BY <1>3, <1>4, <1>7, <1>8, <1>9

\* A coroutine that cannot be resumed: resume reports it, wrap raises an error.
LEMMA RefuseNext ==
    ASSUME CoInv, NEW c \in Threads, NEW g \in {"resume", "wrap"}, ResumeFails(c, g),
           ctl' # "raisemain"
    PROVE  C!Next
<1> DEFINE l == Push(R, Info(g))
           m == IF Bare(c) THEN l ELSE [l EXCEPT ![c].nCcalls = L[R].nCcalls]
<1>1. InLua /\ g \in CFunctions \ {"raise"} /\ Fail(m, cs) /\ ok' = TRUE
  BY DEF ResumeFails, CFunctions
<1>2. /\ L[R].nCcalls \in Counts /\ cs # <<>> /\ R \in Threads /\ L[R].ci \in Seq(Infos)
      /\ cs \in Seq(Frames) /\ Len(cs) # 0 /\ L[c] \in State /\ L \in [Threads -> State]
  BY <1>1, LuaRuns, Here DEF State
<1>3. /\ l \in [Threads -> State] /\ World(l, cs, "run")
      /\ l[R].ci = Append(L[R].ci, Info(g)) /\ l[R].ci[Len(l[R].ci)] = Info(g)
      /\ l[R].open = L[R].open /\ l[R].status = L[R].status /\ l[R].started = L[R].started
      /\ \A t \in Threads : t # R => l[t] = L[t]
      /\ \A i \in Mine(cs, R) : cs[i].base < Len(l[R].ci)
      /\ Len(l[R].ci) = Len(L[R].ci) + 1 /\ Len(L[R].ci) \in Nat
  BY <1>1, LibraryCall
<1>4. Info(g) \in Infos /\ Info(g).fn = g
  BY <1>1, InfoTypes
<1> HIDE DEF l
<1>5. Waiting(m, cs)
  <2>1. Waits(l, cs)
    <3>1. \A q \in Threads : Runs(cs, q) => q = R
      BY DEF Runs, R
    <3>2. Info(g).fn \in Callers
      BY <1>4 DEF Callers
    <3>3. QED
      BY <1>3, <3>1, <3>2 DEF Waits
  <2>2. Waiting(l, cs)
    BY <1>3, <2>1, WaitersWait
  <2>3. QED
    BY <1>2, <2>2, CountedWaits
<1>6. /\ m \in [Threads -> State]
      /\ \A u \in Threads : Alike(l[u], m[u])
  <2>1. CASE Bare(c)
    BY <1>3, <2>1 DEF Alike
  <2>2. CASE ~Bare(c)
    <3> DEFINE y == [l[c] EXCEPT !.nCcalls = L[R].nCcalls]
    <3>1. l[c] \in State
      BY <1>3
    <3>2. y \in State /\ Alike(l[c], y)
      BY <1>2, <3>1 DEF State, Alike
    <3>3. m = [l EXCEPT ![c] = y]
      BY <2>2
    <3> HIDE DEF y, m
    <3>4. m \in [Threads -> State] /\ m[c] = y /\ \A u \in Threads : u # c => m[u] = l[u]
      BY <1>3, <3>2, <3>3, Updated
    <3>5. QED
      BY <3>2, <3>4 DEF Alike
  <2>3. QED
    BY <2>1, <2>2
<1> HIDE DEF m
<1>7. /\ cs' = cs /\ L' \in [Threads -> State] /\ \A u \in Threads : u # R => L'[u] = m[u]
      /\ \E f \in C!Failures : Answers(m[R], L'[R], f)
  BY <1>1, <1>2, <1>5, FailFacts DEF R
<1>8. PICK f \in C!Failures : Answers(m[R], L'[R], f)
  BY <1>7
<1>9. f[2] \in {"raise", "failed"}
  <2>1. f[1] = g
    BY <1>2, <1>3, <1>4, <1>6, <1>8 DEF Answers, Alike
  <2>2. f \in {<<"resume", "failed">>, <<"wrap", "raise">>, <<"host", "host">>, <<"host", "raise">>}
    BY DEF C!Failures
  <2>3. QED
    BY <2>1, <2>2
<1> DEFINE a == L[R].ci
           d == L'[R].ci
           fns == <<f[2]>>
<1>10. Adding(a, d, fns)
  <2>1. /\ d \in Seq(Infos) /\ Len(d) = Len(a) + 1 /\ Len(a) \in Nat
        /\ d[Len(a) + 1].fn = f[2] /\ ~d[Len(a) + 1].stat
        /\ \A i \in 1..Len(a) + 1 : i # Len(a) + 1 => d[i] = l[R].ci[i]
    BY <1>2, <1>3, <1>6, <1>8 DEF Answers, Alike
  <2>2. \A i \in 1..Len(a) : l[R].ci[i] = a[i] /\ i \in 1..Len(a) + 1 /\ i # Len(a) + 1
    BY <1>2, <1>3, <1>4, <2>1
  <2>3. Len(fns) = 1 /\ fns[1] = f[2] /\ \A i \in 1..1 : i = 1
    OBVIOUS
  <2> HIDE DEF a, d, fns
  <2>4. QED
    BY <1>2, <2>1, <2>2, <2>3 DEF Adding, a
<1>11. fns \in Callable \cup {<<>>}
  BY <1>9 DEF Callable
<1>12. Inside(L') /\ L'[R].open = L[R].open
  <2>1. \A u \in Threads : u # R => Alike(L[u], L'[u])
    BY <1>3, <1>6, <1>7 DEF Alike
  <2>2. L'[R].status = L[R].status /\ L'[R].started = L[R].started /\ L'[R].open = L[R].open
    BY <1>2, <1>3, <1>6, <1>8 DEF Alike, Answers
  <2>3. QED
    BY <1>7, <2>1, <2>2 DEF Inside
<1>13. World(L', cs', ctl') /\ ctl' # "yield"
  BY RefuseStep
<1>14. GoesOn(cs, cs')
  BY <1>2, <1>7, StaysOn
<1> HIDE DEF fns
<1>15. QED
  BY <1>1, <1>10, <1>11, <1>12, <1>13, <1>14, AddsCalls

-----------------------------------------------------------------------------
(* Where no yield is under way; coroutines are created and yield           *)

\* The mapping where no yield is under way.
LEMMA PlainNow ==
    ASSUME CoInv, ctl # "yield"
    PROVE  /\ calls = [u \in Threads |-> View(L[u], FALSE)] /\ Activations = Acts(cs)
           /\ ready = {u \in Threads : Ready(L[u], FALSE)}
<1>1. World(L, cs, ctl)
  BY DEF CoInv
<1>2. \A u : Yields(cs, ctl, u) = FALSE
  BY DEF Yields
<1>3. /\ calls = [u \in Threads |-> View(L[u], Yields(cs, ctl, u))] /\ Activations = Acts(cs)
      /\ ready = {u \in Threads : Ready(L[u], Yields(cs, ctl, u))}
  BY <1>1, MappedNow
<1>4. \A u : View(L[u], Yields(cs, ctl, u)) = View(L[u], FALSE)
  BY <1>2, Zenon
<1>5. \A u : Ready(L[u], Yields(cs, ctl, u)) <=> Ready(L[u], FALSE)
  BY <1>2 DEF Ready
<1>6. [u \in Threads |-> View(L[u], Yields(cs, ctl, u))] = [u \in Threads |-> View(L[u], FALSE)]
  BY <1>4
<1>7. {u \in Threads : Ready(L[u], Yields(cs, ctl, u))} = {u \in Threads : Ready(L[u], FALSE)}
  BY <1>5
<1>8. QED
  BY <1>3, <1>6, <1>7, Zenon

\* The mapping after a step where no yield is under way.
LEMMA PlainThen ==
    ASSUME World(L', cs', ctl'), ctl' # "yield"
    PROVE  /\ calls' = [u \in Threads |-> View(L'[u], FALSE)] /\ Activations' = Acts(cs')
           /\ ready' = {u \in Threads : Ready(L'[u], FALSE)}
<1>2. \A u : Yields(cs', ctl', u) = FALSE
  BY DEF Yields
<1>3. /\ calls' = [u \in Threads |-> View(L'[u], Yields(cs', ctl', u))] /\ Activations' = Acts(cs')
      /\ ready' = {u \in Threads : Ready(L'[u], Yields(cs', ctl', u))}
  BY MappedThen
<1>4. \A u : View(L'[u], Yields(cs', ctl', u)) = View(L'[u], FALSE)
  BY <1>2, Zenon
<1>5. \A u : Ready(L'[u], Yields(cs', ctl', u)) <=> Ready(L'[u], FALSE)
  BY <1>2 DEF Ready
<1>6. [u \in Threads |-> View(L'[u], Yields(cs', ctl', u))] = [u \in Threads |-> View(L'[u], FALSE)]
  BY <1>4
<1>7. {u \in Threads : Ready(L'[u], Yields(cs', ctl', u))} = {u \in Threads : Ready(L'[u], FALSE)}
  BY <1>5
<1>8. QED
  BY <1>3, <1>6, <1>7, Zenon

\* What the last call shares, it may share again.
LEMMA ShareSame ==
    ASSUME NEW v \in Seq(Shows), Len(v) # 0
    PROVE  v[Len(v)].shared \in BOOLEAN /\ [v EXCEPT ![Len(v)].shared = v[Len(v)].shared] = v
<1> DEFINE n == Len(v)
           b == v[n].shared
           e == [v[n] EXCEPT !.shared = b]
           w == [v EXCEPT ![n] = e]
<1>1. n \in 1..n /\ n \in Nat
  OBVIOUS
<1>2. v[n] \in Shows
  BY <1>1
<1> HIDE DEF n
<1>3. b \in BOOLEAN /\ e = v[n]
  BY <1>2 DEF Shows
<1> HIDE DEF e
<1>4. w \in Seq(Shows) /\ Len(w) = Len(v) /\ \A i \in 1..Len(v) : w[i] = v[i]
  BY <1>1, <1>2, <1>3 DEF n
<1> HIDE DEF w
<1>5. w = v
  BY <1>4
<1>6. QED
  BY <1>3, <1>5 DEF w, e, n

\* A coroutine has yielded: it waits until the errors of the C stack are gone.
LEMMA YieldsNext ==
    ASSUME CoInv, Yield
    PROVE  C!Next
<1>1. InLua /\ cs' = cs /\ ok' = TRUE
  BY DEF Yield
<1>2. /\ C!InLua /\ C!T = R /\ R \in Threads /\ ctl = "run" /\ cs # <<>>
      /\ L[R] \in State /\ L[R].status = "ok" /\ L[R].started
      /\ calls[R] = View(L[R], FALSE) /\ calls[R] \in Seq(Shows)
      /\ Len(calls[R]) = Len(L[R].ci) /\ Len(L[R].ci) \in Nat /\ Len(L[R].ci) > 0
  BY <1>1, LuaHere
<1>3. L \in [Threads -> State] /\ L[R].ci \in Seq(Infos) /\ cs \in Seq(Frames)
  BY <1>2, Here
<1>4. World(L', cs', ctl')
  BY YieldStep
<1>5. CASE L[R].nny > 0
  <2>1. L' = Push(R, Info("raise")) /\ ctl' # "yield"
    BY <1>5 DEF Yield
  <2>2. Info("raise") \in Infos /\ Info("raise").fn = "raise" /\ ~Info("raise").stat
    BY InfoTypes DEF CFunctions
  <2>3. QED
    BY <1>1, <1>4, <2>1, <2>2, PushStep
<1>6. CASE ~(L[R].nny > 0)
  <2> DEFINE f == Info("yield")
             c == L[R].ci
             d == Append(c, f)
             y == [L[R] EXCEPT !.ci = d, !.status = "yield"]
  <2>1. f \in Infos
    BY InfoTypes DEF CFunctions
  <2>2. L' = [L EXCEPT ![R] = y] /\ ctl' = "yield"
    BY <1>6, Zenon DEF Yield, Push
  <2> HIDE DEF f
  <2>3. d \in Seq(Infos) /\ Len(d) = Len(c) + 1 /\ \A i \in 1..Len(c) : d[i] = c[i]
    BY <1>3, <2>1
  <2> HIDE DEF d
  <2>4. y \in State /\ y.ci = d /\ y.status = "yield" /\ y.started = L[R].started /\ y.open = L[R].open
    BY <1>2, <2>3 DEF State
  <2> HIDE DEF y
  <2>5. L' \in [Threads -> State] /\ L'[R] = y /\ \A u \in Threads : u # R => L'[u] = L[u]
    BY <1>2, <1>3, <2>2, <2>4, Updated
  <2> DEFINE yes == TRUE
             no == FALSE
  <2>6. View(y, yes) = calls[R]
    <3>1. Deep(y, yes) = Len(c) /\ Deep(L[R], no) = Len(c) /\ Len(y.ci) # 0
      BY <1>2, <2>3, <2>4 DEF Deep
    <3>a. Sees(L[R], no)
      BY <1>2 DEF Sees
    <3>b. Sees(y, yes)
      BY <2>4, <3>1 DEF Sees
    <3> HIDE DEF yes, no
    <3>c. Len(c) \in 0..Deep(L[R], no)
      BY <1>2, <3>1
    <3>d. \A i \in 1..Len(c) : Label(y.ci[i]) = Label(c[i]) /\ (i \in y.open <=> i \in L[R].open)
      BY <2>3, <2>4
    <3>2. Less(L[R], no, y, yes, Len(c))
      BY <3>1, <3>a, <3>b, <3>c, <3>d DEF Less
    <3>3. View(y, yes) = SubSeq(View(L[R], no), 1, Len(c))
      BY <3>2, ViewLess
    <3>4. View(y, yes) = SubSeq(calls[R], 1, Len(calls[R]))
      BY <1>2, <3>3 DEF no
    <3> DEFINE v == calls[R]
    <3>e. v \in Seq(Shows)
      BY <1>2
    <3> HIDE DEF v
    <3>5. SubSeq(v, 1, Len(v)) = v
      BY <3>e
    <3>6. QED
      BY <3>4, <3>5 DEF v
  <2>7. \A u \in Threads : Yields(cs', ctl', u) <=> u = R
    BY <1>1, <1>4, <2>2, RunnerIs DEF R
  <2>8. /\ calls' = [u \in Threads |-> View(L'[u], Yields(cs', ctl', u))] /\ Activations' = Acts(cs')
        /\ ready' = {u \in Threads : Ready(L'[u], Yields(cs', ctl', u))}
    BY <1>4, MappedThen
  <2>9. /\ calls = [u \in Threads |-> View(L[u], FALSE)] /\ Activations = Acts(cs)
        /\ ready = {u \in Threads : Ready(L[u], FALSE)}
    BY <1>2, PlainNow
  <2>10. ASSUME NEW u \in Threads
         PROVE  /\ View(L'[u], Yields(cs', ctl', u)) = View(L[u], FALSE)
                /\ Ready(L'[u], Yields(cs', ctl', u)) <=> Ready(L[u], FALSE)
    <3>0. Yields(cs', ctl', u) \in BOOLEAN
      BY DEF Yields
    <3>1. CASE u = R
      <4>1. Yields(cs', ctl', u) = TRUE
        BY <2>7, <3>0, <3>1
      <4>2. QED
        BY <1>2, <2>4, <2>5, <2>6, <3>1, <4>1 DEF Ready
    <3>2. CASE u # R
      <4>1. Yields(cs', ctl', u) = FALSE
        BY <2>7, <3>0, <3>2
      <4>2. QED
        BY <2>5, <3>2, <4>1
    <3>3. QED
      BY <3>1, <3>2
  <2>11. calls' = calls /\ ready' = ready /\ Activations' = Activations
    BY <1>1, <2>8, <2>9, <2>10
  <2> DEFINE b == calls[R][Len(calls[R])].shared
  <2>12. b \in BOOLEAN /\ [calls[R] EXCEPT ![Len(calls[R])].shared = b] = calls[R]
    <3> DEFINE v == calls[R]
    <3>a. Len(calls[R]) # 0
      <4> DEFINE p == Len(L[R].ci)
      <4>1. Len(calls[R]) = p /\ p \in Nat /\ p > 0
        BY <1>2
      <4> HIDE DEF p
      <4>2. QED
        BY <4>1
    <3>b. v \in Seq(Shows)
      BY <1>2
    <3>1. v \in Seq(Shows) /\ Len(v) # 0
      BY <3>a, <3>b
    <3> HIDE DEF v
    <3>2. v[Len(v)].shared \in BOOLEAN /\ [v EXCEPT ![Len(v)].shared = v[Len(v)].shared] = v
      BY <3>1, ShareSame
    <3>3. QED
      BY <3>2, Zenon DEF v
  <2> HIDE DEF b
  <2>13. calls = [calls EXCEPT ![R] = [calls[R] EXCEPT ![Len(calls[R])].shared = b]]
    BY <1>2, <2>9, <2>12
  <2>14. calls' = [calls EXCEPT ![C!T][Len(calls[C!T])].shared = b]
    BY <1>2, <2>11, <2>13, Zenon
  <2>15. QED
    BY <1>1, <1>2, <2>11, <2>12, <2>14, ShareNext
<1>7. QED
  BY <1>5, <1>6

\* An activation begins.
LEMMA ActsBegin ==
    ASSUME NEW s, NEW f, NEW w, Extended(s, w, f), f.k \in Starts
    PROVE  Acts(w) = Append(Acts(s), Record(f))
<1>1. /\ w \in Seq(Frames) /\ Len(w) = Len(s) + 1 /\ w[Len(w)] = f
      /\ \A i \in 1..Len(s) : w[i] = s[i]
      /\ 1..Len(w) = 1..Len(s) \cup {Len(w)} /\ Len(w) \notin 1..Len(s)
  BY AppendGrows
<1>2. s \in Seq(Frames) /\ Len(s) \in Nat
  BY DEF Extended
<1>3. Begun(w) = Begun(s) \cup {Len(w)}
  BY <1>1 DEF Begun
<1>4. \A i \in Begun(s) : w[i] = s[i] /\ i < Len(w)
  BY <1>1, <1>2 DEF Begun
<1>5. QED
  BY <1>1, <1>2, <1>3, <1>4, ActsMore

\* A thread without calls.
LEMMA EmptyView ==
    ASSUME NEW x \in State, x.ci = <<>>
    PROVE  View(x, FALSE) = <<>>
<1>1. CASE x.status = "error"
  BY <1>1 DEF View
<1>2. CASE x.status # "error"
  <2>1. Len(x.ci) = 0 /\ Deep(x, FALSE) = 0
    BY DEF Deep
  <2>2. View(x, FALSE) \in Seq(Shows) /\ Len(View(x, FALSE)) = Deep(x, FALSE)
    BY <1>2, <2>1, ViewFacts
  <2> DEFINE v == View(x, FALSE)
  <2>a. v \in Seq(Shows) /\ Len(v) = 0
    BY <2>1, <2>2
  <2> HIDE DEF v
  <2>3. v = <<>>
    BY <2>a
  <2>4. QED
    BY <2>3 DEF v
<1>3. QED
  BY <1>1, <1>2

\* coroutine.create and coroutine.wrap: the coroutine can be resumed.
LEMMA CreatesNext ==
    ASSUME CoInv, NEW c \in Threads, CoCreate(c)
    PROVE  C!Next
<1>1. /\ InLua /\ c # Main /\ cs' = cs /\ ok' = TRUE
      /\ L[c].status = "error" \/ Empty(c)
      /\ \A i \in 1..Len(cs) : cs[i].t # c
      /\ L' = [L EXCEPT ![c] = [NewState EXCEPT !.started = FALSE]]
  BY DEF CoCreate
<1>2. C!InLua /\ ctl = "run" /\ cs # <<>>
  BY <1>1, LuaHere
<1>3. L \in [Threads -> State] /\ cs \in Seq(Frames)
  BY <1>2, Here
<1>4. World(L', cs', ctl') /\ ctl' = "run"
  BY CreateStep
<1> DEFINE y == [NewState EXCEPT !.started = FALSE]
<1>5. y \in State /\ y.ci = <<>> /\ y.status = "ok" /\ ~y.started
  BY NewThread DEF State
<1> HIDE DEF y
<1>6. L'[c] = y /\ \A u \in Threads : u # c => L'[u] = L[u]
  BY <1>1, <1>3, <1>5, Updated DEF y
<1>7. /\ calls = [u \in Threads |-> View(L[u], FALSE)] /\ Activations = Acts(cs)
      /\ ready = {u \in Threads : Ready(L[u], FALSE)}
  BY <1>2, PlainNow
<1>8. /\ calls' = [u \in Threads |-> View(L'[u], FALSE)] /\ Activations' = Acts(cs')
      /\ ready' = {u \in Threads : Ready(L'[u], FALSE)}
  BY <1>4, PlainThen
<1>9. View(y, FALSE) = <<>>
  BY <1>5, EmptyView
<1>10. calls' = [calls EXCEPT ![c] = <<>>]
  BY <1>6, <1>7, <1>8, <1>9
<1>11. ~Ready(L[c], FALSE) /\ Ready(y, FALSE)
  BY <1>1, <1>5 DEF Ready, Empty
<1>12. c \notin ready /\ ready' = ready \cup {c}
  BY <1>6, <1>7, <1>8, <1>11
<1>13. \A i \in 1..Len(Activations) : Activations[i].t # c
  <2>1. \A n \in 1..Len(Acts(cs)) : /\ NthBegun(cs, n) \in Begun(cs)
                                    /\ Acts(cs)[n] = Record(cs[NthBegun(cs, n)])
    BY <1>3, ActsFacts
  <2>2. \A n \in Begun(cs) : Record(cs[n]).t # c
    BY <1>1 DEF Begun, Record
  <2>3. QED
    BY <1>7, <2>1, <2>2
<1>14. QED
  BY <1>1, <1>2, <1>7, <1>8, <1>10, <1>12, <1>13, CreateNext

-----------------------------------------------------------------------------
(* Activations begin                                                       *)

\* Without frames there are no activations.
LEMMA ActsOfNone ==
    ASSUME NEW s, Len(s) = 0
    PROVE  Acts(s) = <<>>
<1>1. 1..0 = {}
  OBVIOUS
<1>2. Begun(s) = {}
  BY <1>1 DEF Begun
<1>3. Cardinality(Begun(s)) = 0
  BY <1>2, FS_EmptySet
<1> DEFINE e(n) == [t |-> s[NthBegun(s, n)].t, base |-> s[NthBegun(s, n)].base]
<1>4. Acts(s) = [n \in 1..0 |-> e(n)]
  BY <1>3 DEF Acts
<1> HIDE DEF e
<1>5. QED
  BY <1>4

\* A luaD_call or luaD_pcall begins no activation.
LEMMA GoesOnOne ==
    ASSUME NEW s, NEW w, NEW f, Extended(s, w, f), f.k \notin Starts
    PROVE  GoesOn(s, w)
<1>1. /\ w \in Seq(Frames) /\ Len(w) = Len(s) + 1 /\ w[Len(w)] = f
      /\ \A i \in 1..Len(s) : w[i] = s[i]
  BY AppendGrows
<1>2. s \in Seq(Frames) /\ Len(s) \in Nat
  BY DEF Extended
<1>3. \A i \in Len(s) + 1..Len(w) : i = Len(w)
  BY <1>1, <1>2
<1>4. Len(s) <= Len(w)
  BY <1>1, <1>2
<1>5. QED
  BY <1>1, <1>2, <1>3, <1>4 DEF GoesOn

\* The host is called, by the server or by a function of the library.
HostOn(l) == IF cs = <<>> THEN l = L ELSE InLua /\ l = Push(R, Info("host"))
\* Then every thread waits, but for the host.
LEMMA HostWaits ==
    ASSUME CoInv, NEW l, HostOn(l)
    PROVE  /\ World(l, cs, "run") /\ l \in [Threads -> State] /\ cs \in Seq(Frames)
           /\ Activations = Acts(cs) /\ ctl = "run" /\ (Activations = <<>> \/ C!InLua)
           /\ ready = {u \in Threads : Ready(l[u], FALSE)}
           /\ \A u \in Threads : View(l[u], FALSE) = Under(u)
<1>1. CASE cs = <<>>
  <2>1. World(L, cs, ctl) /\ Len(cs) = 0 /\ ctl = "run" /\ l = L
    BY <1>1 DEF CoInv, World, HostOn
  <2>2. /\ calls = [u \in Threads |-> View(L[u], FALSE)] /\ Activations = Acts(cs)
        /\ ready = {u \in Threads : Ready(L[u], FALSE)}
    BY <2>1, PlainNow
  <2>3. Acts(cs) = <<>>
    BY <2>1, ActsOfNone
  <2>4. \A u \in Threads : View(l[u], FALSE) = Under(u)
    BY <2>1, <2>2, <2>3 DEF Under
  <2>5. l \in [Threads -> State] /\ cs \in Seq(Frames)
    BY <2>1 DEF World
  <2>6. QED
    BY <2>1, <2>2, <2>3, <2>4, <2>5
<1>2. CASE cs # <<>>
  <2>1. InLua /\ "host" \in CFunctions \ {"raise"} /\ l = Push(R, Info("host"))
    BY <1>2 DEF HostOn, CFunctions
  <2>2. /\ C!InLua /\ C!T = R /\ R \in Threads /\ ctl = "run"
        /\ L[R] \in State /\ L[R].status = "ok" /\ L[R].started
        /\ calls[R] = View(L[R], FALSE) /\ OpenOk(L[R].ci, L[R].open)
    BY <2>1, LuaHere
  <2>3. L[R].ci \in Seq(Infos) /\ cs \in Seq(Frames) /\ Activations = Acts(cs) /\ Activations # <<>>
    BY <1>2, Here, Where
  <2>4. /\ World(l, cs, "run") /\ l \in [Threads -> State]
        /\ l[R].ci = Append(L[R].ci, Info("host"))
        /\ l[R].open = L[R].open /\ l[R].status = L[R].status /\ l[R].started = L[R].started
        /\ \A t \in Threads : t # R => l[t] = L[t]
    BY <2>1, LibraryCall
  <2> DEFINE f == Info("host")
  <2>5. f \in Infos /\ f.fn = "host" /\ ~f.stat
    BY InfoTypes DEF CFunctions
  <2> HIDE DEF f
  <2> DEFINE fns == <<f.fn>>
  <2>6. fns = <<"host">>
    BY <2>5
  <2>7. fns \in Seq(Names)
    <3>1. "host" \in Names
      BY DEF Names, CFunctions
    <3>2. <<"host">> \in Seq(Names)
      BY <3>1
    <3>3. QED
      BY <2>6, <3>2
  <2>8. Adding(L[R].ci, l[R].ci, fns)
    BY <2>3, <2>4, <2>5, AddingOne DEF f
  <2> HIDE DEF fns
  <2>9. View(l[R], FALSE) = View(L[R], FALSE) \o Shown(fns)
    <3>1. l[R] \in State
      BY <2>2, <2>4
    <3>2. L[R].status # "error" /\ l[R].status = L[R].status /\ l[R].open = L[R].open
      BY <2>2, <2>4
    <3>3. QED
      BY <2>2, <2>7, <2>8, <3>1, <3>2, AddingShows
  <2>10. /\ calls = [u \in Threads |-> View(L[u], FALSE)]
         /\ ready = {u \in Threads : Ready(L[u], FALSE)}
    BY <2>2, PlainNow
  <2>11. \A u \in Threads : View(l[u], FALSE) = Under(u)
    <3>1. View(l[R], FALSE) = Under(R)
      BY Zenon, <2>2, <2>3, <2>6, <2>9 DEF Under
    <3>2. \A u \in Threads : u # R => View(l[u], FALSE) = Under(u)
      BY <2>2, <2>4, <2>10 DEF Under
    <3>3. QED
      BY <3>1, <3>2
  <2>12. \A u \in Threads : Ready(l[u], FALSE) <=> Ready(L[u], FALSE)
    BY <2>2, <2>4 DEF Ready
  <2>13. ready = {u \in Threads : Ready(l[u], FALSE)}
    BY <2>10, <2>12
  <2>14. QED
    BY <2>2, <2>3, <2>4, <2>11, <2>13
<1>3. QED
  BY <1>1, <1>2

\* The main thread does not end.
LEMMA MainLives ==
    ASSUME NEW l, NEW s, World(l, s, "run")
    PROVE  /\ Main \in Threads /\ l[Main] \in State /\ l[Main].ci \in Seq(Infos) /\ Len(l[Main].ci) \in Nat
           /\ l[Main].status = "ok" /\ OpenOk(l[Main].ci, l[Main].open)
<1>1. Main \in Threads
  BY MainAssumption
<1>2. l[Main] \in State /\ Good(l[Main], s, Main, Runs(s, Main), FALSE)
  BY <1>1 DEF World
<1>3. l[Main].ci \in Seq(Infos) /\ l[Main].status \in {"ok", "yield", "error"}
  BY <1>2 DEF State
<1>4. l[Main].status = "ok"
  BY <1>2, <1>3 DEF Good, Status
<1>5. OpenOk(l[Main].ci, l[Main].open)
  BY <1>2, <1>4 DEF Good
<1>6. QED
  BY <1>1, <1>2, <1>3, <1>4, <1>5

\* The host calls into Lua: an activation of the main thread begins.
LEMMA HostCallNext ==
    ASSUME CoInv, HostCall
    PROVE  C!Next
<1> DEFINE l == IF cs = <<>> THEN L ELSE Push(R, Info("host"))
           m == [l EXCEPT ![Main].errfunc = 0]
           y == [l[Main] EXCEPT !.errfunc = 0]
           f == Try("host", Main, Len(l[Main].ci), L[Main].nCcalls)
           s == Append(cs, f)
<1>1. LuaDCall(Main, m, s, FALSE, "lua") /\ ok' = TRUE
  BY DEF HostCall
<1>2. HostOn(l)
  BY DEF HostCall, HostOn
<1>3. m = [l EXCEPT ![Main] = y]
  BY Zenon
<1>4. /\ World(l, cs, "run") /\ l \in [Threads -> State] /\ cs \in Seq(Frames)
      /\ Activations = Acts(cs) /\ ctl = "run" /\ (Activations = <<>> \/ C!InLua)
      /\ ready = {u \in Threads : Ready(l[u], FALSE)}
      /\ \A u \in Threads : View(l[u], FALSE) = Under(u)
  <2> HIDE DEF l
  <2>1. QED
    BY <1>2, HostWaits
<1> HIDE DEF l, m
<1>5. /\ Main \in Threads /\ l[Main] \in State /\ l[Main].ci \in Seq(Infos) /\ Len(l[Main].ci) \in Nat
      /\ l[Main].status = "ok" /\ OpenOk(l[Main].ci, l[Main].open)
  BY <1>4, MainLives
<1>6. /\ y \in State /\ y.ci = l[Main].ci /\ y.open = l[Main].open
      /\ y.status = l[Main].status /\ y.started = l[Main].started
  BY <1>5 DEF State
<1> HIDE DEF y
<1>7. m \in [Threads -> State] /\ m[Main] = y /\ \A u \in Threads : u # Main => m[u] = l[u]
  BY <1>3, <1>4, <1>5, <1>6, Updated
<1>8. f \in Frames /\ f.t = Main /\ f.k = "host" /\ f.base = Len(l[Main].ci)
  <2>0. L \in [Threads -> State]
    BY DEF CoInv, World
  <2>a. L[Main] \in State
    BY <1>5, <2>0
  <2>1. L[Main].nny \in Int /\ L[Main].errfunc \in Nat /\ L[Main].nCcalls \in Counts
    BY <2>a DEF State
  <2>2. QED
    BY <1>5, <2>1 DEF Try, Frames, Tries
<1>9. Extended(cs, s, f)
  BY <1>4, <1>8 DEF Extended
<1> HIDE DEF f
<1>10. Acts(s) = Append(Acts(cs), Record(f)) /\ s \in Seq(Frames)
  BY <1>8, <1>9, ActsBegin, AppendGrows DEF Starts
<1> HIDE DEF s
<1> DEFINE no == FALSE
           fn == "lua"
<1>11. LuaDCall(Main, m, s, no, fn) /\ no \in BOOLEAN /\ fn \in Functions
  BY <1>1 DEF Functions
<1> HIDE DEF no, fn
<1>12. Called(m, s, Main, no, fn, L', cs', ctl')
  BY <1>5, <1>7, <1>10, <1>11, CallTypes
<1>13. /\ L' \in [Threads -> State] /\ \A u \in Threads : u # Main => L'[u] = m[u]
       /\ L'[Main].status = m[Main].status /\ L'[Main].started = m[Main].started
       /\ L'[Main].open = m[Main].open
  BY <1>12 DEF Called
<1>14. PICK g \in Frames :
         /\ cs' = Append(s, g) /\ g.k = "call"
         /\ \/ L'[Main].ci = Append(m[Main].ci, Info(fn))
            \/ L'[Main].ci = m[Main].ci
  BY <1>12 DEF Called
<1>15. World(L', cs', ctl') /\ ctl' # "yield"
  BY HostCallStep
<1>16. Acts(cs') = Acts(s)
  <2>1. Extended(s, cs', g) /\ g.k \notin Starts
    BY <1>10, <1>14 DEF Extended, Starts
  <2>2. QED
    BY <2>1, GoesOnOne, ActsGoOn
<1>17. PICK fns \in {<<>>, <<"lua">>} : fns \in Seq(Names) /\ Adding(y.ci, L'[Main].ci, fns)
  <2>1. "lua" \in Names
    BY DEF Names, Functions
  <2>2. <<>> \in Seq(Names) /\ <<"lua">> \in Seq(Names)
    BY <2>1
  <2>3. CASE L'[Main].ci = m[Main].ci
    <3>1. Adding(y.ci, L'[Main].ci, <<>>)
      BY <1>5, <1>6, <1>7, <2>3, AddingNone
    <3>2. QED
      BY <2>2, <3>1
  <2>4. CASE L'[Main].ci = Append(m[Main].ci, Info(fn))
    <3> DEFINE h == Info(fn)
    <3>1. h \in Infos /\ h.fn = "lua" /\ ~h.stat
      BY InfoTypes DEF Functions, fn
    <3> HIDE DEF h
    <3>2. y.ci \in Seq(Infos) /\ L'[Main].ci = Append(y.ci, h)
      BY <1>5, <1>6, <1>7, <2>4 DEF h
    <3>3. Adding(y.ci, L'[Main].ci, <<h.fn>>)
      BY <3>1, <3>2, AddingOne
    <3>4. <<h.fn>> = <<"lua">>
      BY <3>1
    <3>5. Adding(y.ci, L'[Main].ci, <<"lua">>)
      BY Zenon, <3>3, <3>4
    <3>6. QED
      BY <2>2, <3>5
  <2>5. QED
    BY <1>14, <2>3, <2>4
<1>18. View(L'[Main], FALSE) = Under(Main) \o Shown(fns)
  <2>1. L'[Main] \in State /\ y.status # "error" /\ L'[Main].status = y.status /\ L'[Main].open = y.open
    BY <1>5, <1>6, <1>7, <1>13
  <2>2. OpenOk(y.ci, y.open)
    BY <1>5, <1>6
  <2>3. View(L'[Main], FALSE) = View(y, FALSE) \o Shown(fns)
    BY <1>6, <1>17, <2>1, <2>2, AddingShows
  <2> DEFINE no2 == FALSE
  <2>4. Alike(l[Main], y)
    BY <1>6 DEF Alike
  <2>5. View(y, FALSE) = View(l[Main], FALSE)
    BY <2>4, AlikeSame
  <2>6. QED
    BY <1>4, <1>5, <2>3, <2>5
<1>19. /\ calls' = [u \in Threads |-> View(L'[u], FALSE)] /\ Activations' = Acts(cs')
       /\ ready' = {u \in Threads : Ready(L'[u], FALSE)}
  BY <1>15, PlainThen
<1>20. \A u \in Threads : u # Main => View(L'[u], FALSE) = Under(u)
  BY <1>4, <1>7, <1>13
<1>21. calls' = [u \in Threads |-> IF u = Main THEN Under(u) \o Shown(fns) ELSE Under(u)]
  BY <1>18, <1>19, <1>20
<1>22. \A u \in Threads : Ready(L'[u], FALSE) <=> Ready(l[u], FALSE)
  BY <1>6, <1>7, <1>13 DEF Ready
<1>23. ready' = ready
  BY <1>4, <1>19, <1>22
<1>24. Len(Under(Main)) = Len(l[Main].ci)
  <2> DEFINE b == FALSE
  <2>1. b \in BOOLEAN /\ ~b
    OBVIOUS
  <2> HIDE DEF b
  <2>2. l[Main].status # "error"
    BY <1>5
  <2>3. Len(View(l[Main], b)) = Deep(l[Main], b)
    BY <1>5, <2>1, <2>2, ViewFacts
  <2>4. Deep(l[Main], b) = Len(l[Main].ci)
    BY <2>1 DEF Deep
  <2>5. QED
    BY <1>4, <1>5, <2>3, <2>4 DEF b
<1>25. Record(f) = [t |-> Main, base |-> Len(Under(Main))]
  BY <1>8, <1>24 DEF Record
<1>26. Activations' = Append(Activations, [t |-> Main, base |-> Len(Under(Main))])
  BY <1>4, <1>10, <1>16, <1>19, <1>25
<1>27. QED
  BY <1>1, <1>4, <1>21, <1>23, <1>26, HostNext

\* A coroutine that waits to be resumed: it starts, or its yield returns.
LEMMA ResumedShows ==
    ASSUME NEW x \in State, NEW y \in State, x.status \in {"ok", "yield"}, y.status = "ok", y.open = x.open,
           OpenOk(x.ci, x.open),
           \/ x.status = "ok" /\ x.ci = <<>> /\ y.ci = <<Info("lua")>>
           \/ x.status = "yield" /\ Len(x.ci) > 0 /\ y.ci = Front(x.ci)
    PROVE  View(y, FALSE) = IF View(x, FALSE) = <<>> THEN Shown(<<"lua">>)
                            ELSE SubSeq(View(x, FALSE), 1, Len(View(x, FALSE)) - 1)
<1>1. x.ci \in Seq(Infos) /\ Len(x.ci) \in Nat /\ y.ci \in Seq(Infos)
  BY DEF State
<1>2. CASE x.status = "ok" /\ x.ci = <<>> /\ y.ci = <<Info("lua")>>
  <2> DEFINE g == Info("lua")
             e == <<>>
             d == <<g>>
  <2>1. g \in Infos /\ g.fn = "lua" /\ ~g.stat
    BY InfoTypes DEF Functions
  <2> HIDE DEF g
  <2>2. d = Append(e, g) /\ e \in Seq(Infos)
    BY <2>1
  <2>3. Adding(e, d, <<g.fn>>)
    BY <2>1, <2>2, AddingOne
  <2> DEFINE fns == <<"lua">>
  <2>4. <<g.fn>> = fns
    BY <2>1
  <2>5. fns \in Seq(Names)
    <3>1. "lua" \in Names
      BY DEF Names, Functions
    <3>2. QED
      BY <3>1
  <2>6. x.ci = e /\ y.ci = d
    BY <1>2 DEF g
  <2> HIDE DEF fns, e, d
  <2>7. Adding(x.ci, y.ci, fns)
    BY <2>3, <2>4, <2>6
  <2>8. View(y, FALSE) = View(x, FALSE) \o Shown(fns)
    BY <1>2, <2>5, <2>7, AddingShows
  <2>9. View(x, FALSE) = <<>>
    BY <1>2, EmptyView
  <2>10. <<>> \o Shown(fns) = Shown(fns)
    <3> DEFINE S == [fn : {fns[i] : i \in 1..Len(fns)}, shared : BOOLEAN]
    <3>1. Len(fns) \in Nat
      BY <2>5
    <3> DEFINE e2(i) == [fn |-> fns[i], shared |-> FALSE]
    <3>2. \A i \in 1..Len(fns) : e2(i) \in S
      OBVIOUS
    <3> HIDE DEF S
    <3>3. Shown(fns) = [i \in 1..Len(fns) |-> e2(i)]
      BY DEF Shown
    <3> HIDE DEF e2
    <3> DEFINE v == Shown(fns)
    <3>4. v \in Seq(S)
      BY <3>1, <3>2, <3>3
    <3> HIDE DEF v
    <3>5. <<>> \o v = v
      BY <3>4
    <3>6. QED
      BY <3>5 DEF v
  <2>11. QED
    BY <2>8, <2>9, <2>10 DEF fns
<1>3. CASE x.status = "yield" /\ Len(x.ci) > 0 /\ y.ci = Front(x.ci)
  <2> DEFINE c == x.ci
             d == y.ci
             n == Len(c) - 1
             no == FALSE
  <2>1. Pushed(d, c) /\ Len(d) = n
    BY Zenon, <1>1, <1>3, FrontInfos
  <2>2. n \in Nat /\ n \in 0..Len(c) /\ n + 1 = Len(c)
    BY <1>1, <1>3
  <2>3. Sees(x, no) /\ Sees(y, no)
    BY <1>3 DEF Sees
  <2>4. Deep(x, no) = Len(c) /\ Deep(y, no) = n
    BY <2>1 DEF Deep
  <2>5. \A i \in 1..n : d[i] = c[i]
    BY <2>1 DEF Pushed
  <2> HIDE DEF c, d, n, no
  <2>6. Less(x, no, y, no, n)
    BY <2>2, <2>3, <2>4, <2>5 DEF Less, c, d
  <2>7. View(y, no) = SubSeq(View(x, no), 1, n)
    BY <2>6, ViewLess
  <2>8. Len(View(x, no)) = Len(c)
    BY <2>3, <2>4, ViewFacts DEF Sees
  <2>9. View(x, no) # <<>> /\ n = Len(View(x, no)) - 1
    BY <2>2, <2>8
  <2>10. QED
    BY <2>7, <2>9 DEF no
<1>4. QED
  BY <1>2, <1>3

\* lua_resume: an activation of the coroutine begins.
LEMMA ResumesNext ==
    ASSUME CoInv, NEW c \in Threads, NEW g \in {"resume", "wrap"}, Resume(c, g)
    PROVE  C!Next
<1> DEFINE l == Push(R, Info(g))
           x == L[c]
           n == Count(L[R].nCcalls + 1)
           f == Try("resume", c, 0, n)
           d == IF x.status = "ok" THEN <<Info("lua")>> ELSE Front(x.ci)
           y == [x EXCEPT !.nCcalls = n, !.nny = 0, !.status = "ok", !.started = TRUE, !.ci = d]
<1>1. /\ InLua /\ ~Empty(c) /\ ~Refused(c) /\ g \in CFunctions \ {"raise"} /\ ok' = TRUE
  BY DEF Resume, CFunctions
<1>2. /\ C!InLua /\ C!T = R /\ R \in Threads /\ ctl = "run" /\ cs # <<>>
      /\ L[R] \in State /\ L[R].status = "ok" /\ L[R].started
      /\ calls[R] = View(L[R], FALSE) /\ OpenOk(L[R].ci, L[R].open)
  BY <1>1, LuaHere
<1>3. cs \in Seq(Frames) /\ L[R].ci \in Seq(Infos) /\ L \in [Threads -> State]
  BY <1>2, Here
<1>4. /\ c # R /\ c # Main /\ x \in State
      /\ \/ x.status = "ok" /\ x.ci = <<>>
         \/ x.status = "yield" /\ Len(x.ci) > 0
  BY <1>1, Resumable
<1>5. /\ l \in [Threads -> State]
      /\ l[R].ci = Append(L[R].ci, Info(g))
      /\ l[R].open = L[R].open /\ l[R].status = L[R].status /\ l[R].started = L[R].started
      /\ \A t \in Threads : t # R => l[t] = L[t]
  BY <1>1, LibraryCall
<1>6. cs' = Append(cs, f) /\ L' = [l EXCEPT ![c] = y] /\ ctl' = "run"
  <2>1. /\ cs' = Append(cs, f) /\ ctl' = ctl
        /\ L' = [l EXCEPT ![c] = [@ EXCEPT !.nCcalls = n, !.nny = 0, !.status = "ok", !.started = TRUE,
                                           !.ci = IF L[c].status = "ok" THEN <<Info("lua")>> ELSE Front(L[c].ci)]]
    BY DEF Resume
  <2>2. l[c] = x
    BY <1>4, <1>5
  <2> HIDE DEF l, n
  <2>3. QED
    BY <1>2, <1>4, <1>5, <2>1, <2>2
<1>7. d \in Seq(Infos)
  <2>1. x.ci \in Seq(Infos)
    BY <1>4 DEF State
  <2>2. <<Info("lua")>> \in Seq(Infos)
    BY InfoTypes DEF Functions
  <2>3. Len(x.ci) > 0 => Front(x.ci) \in Seq(Infos)
    BY <2>1, FrontInfos
  <2>4. QED
    BY <1>4, <2>2, <2>3
<1>8. n \in Counts
  <2>1. L[R].nCcalls \in Counts
    BY <1>2 DEF State
  <2>a. \A i \in Counts : i + 1 \in Int
    BY CountTypes
  <2>2. L[R].nCcalls + 1 \in Int
    BY <2>1, <2>a
  <2>3. QED
    BY <2>2, CountTypes
<1>9. f \in Frames /\ f.t = c /\ f.k = "resume" /\ f.base = 0
  BY <1>4, <1>8 DEF Try, Frames, Tries, State
<1>10. /\ \/ x.status = "ok" /\ x.ci = <<>> /\ d = <<Info("lua")>>
          \/ x.status = "yield" /\ Len(x.ci) > 0 /\ d = Front(x.ci)
  BY <1>4
<1> HIDE DEF l, n, f, d
<1>11. /\ y \in State /\ y.ci = d /\ y.open = x.open /\ y.status = "ok" /\ y.started
  <2>1. x \in State
    BY <1>4
  <2> HIDE DEF x
  <2>2. /\ y \in State /\ y.ci = d /\ y.errfunc = x.errfunc /\ y.open = x.open
        /\ y.status = "ok" /\ y.started
    BY <1>7, <1>8, <2>1, ResumedState
  <2>3. QED
    BY <2>2
<1> HIDE DEF y
<1>12. L' \in [Threads -> State] /\ L'[c] = y /\ \A u \in Threads : u # c => L'[u] = l[u]
  BY <1>5, <1>6, <1>11, Updated
<1>13. World(L', cs', ctl') /\ ctl' # "yield"
  BY <1>6, ResumeStep
<1>14. /\ calls' = [u \in Threads |-> View(L'[u], FALSE)] /\ Activations' = Acts(cs')
       /\ ready' = {u \in Threads : Ready(L'[u], FALSE)}
  BY <1>13, PlainThen
<1>15. /\ calls = [u \in Threads |-> View(L[u], FALSE)] /\ Activations = Acts(cs)
       /\ ready = {u \in Threads : Ready(L[u], FALSE)}
  BY <1>2, PlainNow
<1>16. Activations' = Append(Activations, [t |-> c, base |-> 0])
  <2>1. Extended(cs, cs', f)
    BY <1>3, <1>6, <1>9 DEF Extended
  <2>2. Acts(cs') = Append(Acts(cs), Record(f))
    BY <1>9, <2>1, ActsBegin DEF Starts
  <2>3. Record(f) = [t |-> c, base |-> 0]
    BY <1>9 DEF Record
  <2>4. QED
    BY <1>14, <1>15, <2>2, <2>3
<1>17. Ready(x, FALSE) /\ ~Ready(y, FALSE)
  BY <1>1, <1>4, <1>11 DEF Ready, Empty
<1>18. \A u \in Threads : u # c => (Ready(L'[u], FALSE) <=> Ready(L[u], FALSE))
  BY <1>2, <1>5, <1>12 DEF Ready
<1>19. c \in ready /\ ready' = ready \ {c}
  BY <1>12, <1>14, <1>15, <1>17, <1>18
<1>20. View(L'[R], FALSE) = calls[R] \o Shown(<<g>>)
  <2> DEFINE h == Info(g)
             fns == <<h.fn>>
  <2>1. h \in Infos /\ h.fn = g /\ ~h.stat
    BY <1>1, InfoTypes
  <2> HIDE DEF h
  <2>2. fns = <<g>>
    BY <2>1
  <2>3. fns \in Seq(Names)
    <3>1. h.fn \in Names
      BY <1>1, <2>1 DEF Names
    <3>2. QED
      BY <3>1
  <2>4. Adding(L[R].ci, l[R].ci, fns)
    BY <1>3, <1>5, <2>1, AddingOne DEF h
  <2> HIDE DEF fns
  <2>5. l[R] \in State /\ l[R] = L'[R] /\ L[R].status # "error"
    BY <1>2, <1>4, <1>5, <1>12
  <2>6. View(l[R], FALSE) = View(L[R], FALSE) \o Shown(fns)
    BY <1>2, <1>5, <2>3, <2>4, <2>5, AddingShows
  <2>7. QED
    BY Zenon, <1>2, <2>2, <2>5, <2>6
<1>21. View(y, FALSE) = IF View(x, FALSE) = <<>> THEN Shown(<<"lua">>)
                        ELSE SubSeq(View(x, FALSE), 1, Len(View(x, FALSE)) - 1)
  <2>1. OpenOk(x.ci, x.open)
    <3>1. World(L, cs, "run") /\ ~Runs(cs, c) /\ L[c].status # "error"
      BY <1>1, <1>4, LuaRuns DEF Runs, R
    <3>2. QED
      BY <3>1, WaitFacts
  <2> HIDE DEF x
  <2>2. QED
    BY <1>4, <1>10, <1>11, <2>1, ResumedShows
<1>22. \A u \in Threads : u # c /\ u # R => View(L'[u], FALSE) = View(L[u], FALSE)
  BY <1>5, <1>12
<1> DEFINE p == calls[R] \o Shown(<<g>>)
           q == IF calls[c] = <<>> THEN Shown(<<"lua">>) ELSE SubSeq(calls[c], 1, Len(calls[c]) - 1)
<1>23. View(L'[R], FALSE) = p
  BY <1>20
<1>24. View(L'[c], FALSE) = q
  BY <1>12, <1>15, <1>21
<1> HIDE DEF p, q, x
<1>25. calls' = [calls EXCEPT ![R] = p, ![c] = q]
  BY <1>4, <1>14, <1>15, <1>22, <1>23, <1>24
<1>26. calls' = [calls EXCEPT ![C!T] = calls[C!T] \o Shown(<<g>>),
                              ![c] = IF @ = <<>> THEN Shown(<<"lua">>) ELSE SubSeq(@, 1, Len(@) - 1)]
  BY <1>2, <1>4, <1>25 DEF p, q
<1>27. QED
  BY <1>1, <1>2, <1>16, <1>19, <1>26, ResumeNext

-----------------------------------------------------------------------------
(* Calls return                                                            *)

\* Control is with a call of the last activation.
LEMMA RunningHere ==
    ASSUME CoInv, ctl = "run", cs # <<>>, ~Done
    PROVE  /\ C!Running /\ C!T = R /\ R \in Threads /\ World(L, cs, "run") /\ Runs(cs, R)
           /\ L \in [Threads -> State] /\ L[R] \in State /\ L[R].status = "ok" /\ cs \in Seq(Frames)
           /\ L[R].ci \in Seq(Infos) /\ Len(L[R].ci) \in Nat /\ Len(L[R].ci) > 0
           /\ Len(L[R].ci) \in 1..Len(L[R].ci)
           /\ \A i \in Mine(cs, R) : cs[i].base < Len(L[R].ci)
           /\ calls[R] = View(L[R], FALSE) /\ calls[R] \in Seq(Shows) /\ Len(calls[R]) = Len(L[R].ci)
           /\ C!Top = Label(Top) /\ Top = L[R].ci[Len(L[R].ci)] /\ Top \in Infos
           /\ Stack(L[R].ci, cs, R, FALSE)
<1> DEFINE c == L[R].ci
           z == Len(c)
<1>1. World(L, cs, "run")
  BY DEF CoInv
<1>2. R \in Threads /\ Runs(cs, R) /\ L[R] \in State /\ cs \in Seq(Frames) /\ L \in [Threads -> State]
  BY Here
<1>3. Stack(c, cs, R, FALSE) /\ L[R].status = "ok" /\ c \in Seq(Infos) /\ z \in Nat
  BY <1>1, <1>2, RunFacts
<1>4. z > 0 /\ \A i \in Mine(cs, R) : cs[i].base < z
  <2>1. ~(cs[Len(cs)].k \in Tries /\ cs[Len(cs)].base = z)
    BY DEF Done, Size
  <2>2. QED
    BY <1>1, <1>2, <2>1, BelowTop
<1>5. z \in 1..z
  BY <1>3, <1>4
<1>6. /\ Activations # <<>> /\ C!T = R /\ calls[R] = View(L[R], FALSE)
      /\ \A q : EntryAt(cs, q) => C!Now.base = cs[q].base /\ cs[q].base \in Nat
      /\ \E q : EntryAt(cs, q)
  <2>1. (ctl = "yield") = FALSE
    OBVIOUS
  <2>2. QED
    BY <2>1, Where
<1>7. /\ View(L[R], FALSE) \in Seq(Shows) /\ Len(View(L[R], FALSE)) = z
      /\ \A i \in 1..z : View(L[R], FALSE)[i].fn = Label(c[i])
  BY <1>2, <1>3, ViewFacts DEF Deep
<1>8. C!Running
  <2>1. PICK q : EntryAt(cs, q)
    BY <1>6
  <2>2. q \in Mine(cs, R)
    BY <2>1 DEF EntryAt, Mine, R
  <2>3. C!Now.base < z
    BY <1>4, <1>6, <2>1, <2>2
  <2>4. Len(calls[R]) > C!Now.base
    BY <1>3, <1>6, <1>7, <2>1, <2>3
  <2>5. QED
    BY <1>6, <2>4 DEF C!Running, calls
<1>9. C!Top = Label(c[z])
  <2>1. C!Top = calls[R][Len(calls[R])].fn
    BY <1>6 DEF C!Top, calls
  <2>2. QED
    BY <1>5, <1>6, <1>7, <2>1
<1>10. Top = c[z] /\ c[z] \in Infos
  <2>1. Top = c[z]
    BY DEF Top, Size
  <2> HIDE DEF c
  <2>2. c[z] \in Infos
    BY <1>3, <1>5
  <2>3. QED
    BY <2>1, <2>2
<1>11. QED
  BY <1>1, <1>2, <1>3, <1>4, <1>5, <1>6, <1>7, <1>8, <1>9, <1>10

\* No thread looks different.
LEMMA NothingChanges ==
    ASSUME CoInv, ctl # "yield", World(L', cs', ctl'), ctl' # "yield", \A u \in Threads : Alike(L[u], L'[u])
    PROVE  calls' = calls /\ ready' = ready /\ Activations = Acts(cs) /\ Activations' = Acts(cs')
<1>1. /\ calls' = [u \in Threads |-> View(L'[u], FALSE)] /\ Activations' = Acts(cs')
      /\ ready' = {u \in Threads : Ready(L'[u], FALSE)}
  BY PlainThen
<1>2. /\ calls = [u \in Threads |-> View(L[u], FALSE)] /\ Activations = Acts(cs)
      /\ ready = {u \in Threads : Ready(L[u], FALSE)}
  BY PlainNow
<1>3. \A u \in Threads : View(L'[u], FALSE) = View(L[u], FALSE) /\ (Ready(L'[u], FALSE) <=> Ready(L[u], FALSE))
  BY AlikeSame
<1>4. QED
  BY <1>1, <1>2, <1>3

\* The last frame, which began no activation, has gone.
LEMMA ActsFront ==
    ASSUME NEW s \in Seq(Frames), Len(s) # 0, s[Len(s)].k \notin Starts
    PROVE  Acts(Front(s)) = Acts(s)
<1> DEFINE w == Front(s)
<1>1. w \in Seq(Frames) /\ Len(w) = Len(s) - 1 /\ \A i \in 1..Len(w) : s[i] = w[i]
  <2>1. Len(s) \in Nat /\ Len(s) \in 1..Len(s) + 1
    OBVIOUS
  <2>2. FirstOf(s, w, Len(s))
    BY <2>1 DEF FirstOf, Front
  <2> HIDE DEF w
  <2>3. w \in Seq(Frames) /\ Len(w) = Len(s) - 1 /\ \A i \in 1..Len(s) - 1 : w[i] = s[i]
    BY <2>2, FirstFrames
  <2>4. QED
    BY <2>3
<1>2. Len(s) \in Nat
  OBVIOUS
<1> HIDE DEF w
<1>3. \A i \in Len(w) + 1..Len(s) : i = Len(s)
  BY <1>1, <1>2
<1>4. Len(w) <= Len(s)
  BY <1>1, <1>2
<1>5. GoesOn(w, s)
  BY <1>1, <1>3, <1>4 DEF GoesOn
<1>6. QED
  BY <1>5, ActsGoOn DEF w

\* The last call has returned.
Pops(x, x2) == /\ x \in State /\ x2 \in State /\ Len(x.ci) > 0 /\ x2.ci = Front(x.ci)
               /\ x.status # "error" /\ x2.status = x.status
               /\ \A i \in Nat : i # Len(x.ci) => (i \in x2.open <=> i \in x.open)
\* The view loses its last call.
LEMMA PopShows ==
    ASSUME NEW x, NEW x2, Pops(x, x2)
    PROVE  View(x2, FALSE) = SubSeq(View(x, FALSE), 1, Len(View(x, FALSE)) - 1)
<1> DEFINE c == x.ci
           d == x2.ci
           n == Len(c) - 1
           no == FALSE
<1>1. c \in Seq(Infos) /\ Len(c) \in Nat /\ Len(c) > 0
  BY DEF Pops, State
<1>2. Pushed(d, c) /\ Len(d) = n
  BY Zenon, <1>1, FrontInfos DEF Pops
<1>3. n \in Nat /\ n \in 0..Len(c) /\ n + 1 = Len(c)
  BY <1>1
<1>4. Sees(x, no) /\ Sees(x2, no)
  BY DEF Sees, Pops
<1>5. Deep(x, no) = Len(c) /\ Deep(x2, no) = n
  BY <1>2 DEF Deep
<1>6. \A i \in 1..n : d[i] = c[i]
  BY <1>2 DEF Pushed
<1>7. \A i \in 1..n : i \in x2.open <=> i \in x.open
  <2>1. \A i \in 1..n : i \in Nat /\ i # Len(c)
    BY <1>1, <1>3
  <2>2. QED
    BY <2>1 DEF Pops
<1> HIDE DEF c, d, n, no
<1>8. Less(x, no, x2, no, n)
  BY <1>3, <1>4, <1>5, <1>6, <1>7 DEF Less, c, d
<1>9. View(x2, no) = SubSeq(View(x, no), 1, n)
  BY <1>8, ViewLess
<1>10. Len(View(x, no)) = Len(c)
  BY <1>4, <1>5, ViewFacts DEF Sees
<1>11. n = Len(View(x, no)) - 1
  BY <1>3, <1>10
<1>12. QED
  BY <1>9, <1>11 DEF no

\* Returns, of a Lua function or of one of the library.
LEMMA PopNext ==
    ASSUME CoInv, ctl = "run", cs # <<>>, ~Done, World(L', cs', ctl'), ctl' # "yield",
           L' \in [Threads -> State], \A u \in Threads : u # R => L'[u] = L[u],
           Pops(L[R], L'[R]), L'[R].started = L[R].started,
           cs' = cs \/ (cs[Len(cs)].k \notin Starts /\ cs' = Front(cs)),
           ok' = (Label(Top) \notin {"caught", "failed"})
    PROVE  C!Next
<1>1. /\ C!Running /\ C!T = R /\ R \in Threads /\ World(L, cs, "run") /\ cs \in Seq(Frames)
      /\ calls[R] = View(L[R], FALSE) /\ C!Top = Label(Top) /\ Top = L[R].ci[Len(L[R].ci)]
      /\ Stack(L[R].ci, cs, R, FALSE) /\ Len(L[R].ci) \in 1..Len(L[R].ci) /\ Top \in Infos
  BY RunningHere
<1>2. C!Top # "raise"
  <2>1. Top.fn # "raise"
    BY <1>1 DEF Stack, InfosOk, RaiseOnTop
  <2>2. QED
    BY <1>1, <2>1 DEF Label
<1>3. calls' = [calls EXCEPT ![R] = View(L'[R], FALSE)] /\ ready' = ready
  <2>1. \A u \in Threads : u # R => Alike(L[u], L'[u])
    BY DEF Alike
  <2>2. L'[R].status = L[R].status
    BY DEF Pops
  <2>3. QED
    BY <1>1, <2>1, <2>2, OneChanges
<1>4. View(L'[R], FALSE) = SubSeq(calls[R], 1, Len(calls[R]) - 1)
  BY <1>1, PopShows
<1>5. Activations' = Activations
  <2>1. Len(cs) # 0
    BY <1>1
  <2>2. Acts(cs') = Acts(cs)
    BY <1>1, <2>1, ActsFront
  <2>3. QED
    BY <2>2, PlainNow, PlainThen
<1>6. calls' = [calls EXCEPT ![C!T] = SubSeq(calls[C!T], 1, Len(calls[C!T]) - 1)]
  BY <1>1, <1>3, <1>4
<1>7. ok' = (C!Top \notin {"caught", "failed"})
  BY <1>1
<1>8. QED
  BY <1>1, <1>2, <1>3, <1>5, <1>6, <1>7, ReturnNext

\* A Lua function returns.
LEMMA LuaReturnsNext ==
    ASSUME CoInv, LuaReturns
    PROVE  C!Next
<1>1. InLua /\ ok' = TRUE /\ ctl = "run" /\ cs # <<>> /\ ~Done /\ Top.fn \in Functions
  BY DEF LuaReturns, InLua
<1>2. /\ R \in Threads /\ L \in [Threads -> State] /\ L[R] \in State /\ L[R].status = "ok"
      /\ cs \in Seq(Frames)
      /\ L[R].ci \in Seq(Infos) /\ Len(L[R].ci) \in Nat /\ Len(L[R].ci) > 0
      /\ Len(L[R].ci) \in 1..Len(L[R].ci)
      /\ Top = L[R].ci[Len(L[R].ci)] /\ Top \in Infos /\ Stack(L[R].ci, cs, R, FALSE)
  BY <1>1, RunningHere
<1> DEFINE x == L[R]
           a == [x EXCEPT !.ci = Front(x.ci), !.open = x.open \ {Size(R)}]
           popped == [L EXCEPT ![R].ci = Front(@), ![R].open = @ \ {Size(R)}]
           call == Last(cs)
           b == [a EXCEPT !.nCcalls = Count(a.nCcalls - 1), !.nny = IF call.allow THEN a.nny ELSE a.nny - 1]
<1>3. popped = [L EXCEPT ![R] = a]
  BY <1>2
<1>4. a \in State /\ a.ci = Front(x.ci) /\ a.open = x.open \ {Len(x.ci)} /\ a.status = x.status
      /\ a.started = x.started
  <2>1. Front(x.ci) \in Seq(Infos)
    BY <1>2, FrontInfos
  <2>2. QED
    BY <1>2, <2>1 DEF State, Size
<1>5. call = cs[Len(cs)] /\ Len(cs) # 0
  BY <1>1, <1>2 DEF Last
<1>6. World(L', cs', ctl')
  BY LuaReturnsStep
<1>7. PICK y \in State : /\ L' = [L EXCEPT ![R] = y] /\ y.ci = a.ci /\ y.open = a.open
                         /\ y.status = a.status /\ y.started = a.started
  <2>1. CASE Top.reentry \/ call.k # "call"
    <3>1. L' = popped
      BY <2>1 DEF LuaReturns
    <3>2. QED
      BY <1>3, <1>4, <3>1
  <2>2. CASE ~(Top.reentry \/ call.k # "call")
    <3>1. L' = [popped EXCEPT ![R].nCcalls = Count(@ - 1), ![R].nny = IF call.allow THEN @ ELSE @ - 1]
      BY <2>2 DEF LuaReturns
    <3> HIDE DEF a, popped, call
    <3>2. popped \in [Threads -> State] /\ popped[R] = a
      BY <1>2, <1>3, <1>4, Updated
    <3>3. L' = [popped EXCEPT ![R] = b]
      BY <1>2, <3>1, <3>2
    <3>4. Count(a.nCcalls - 1) \in Counts
      <4>1. a.nCcalls \in Counts
        BY <1>4 DEF State
      <4>a. \A i \in Counts : i - 1 \in Int
        BY CountTypes
      <4>2. a.nCcalls - 1 \in Int
        BY <4>1, <4>a
      <4>3. QED
        BY <4>2, CountTypes
    <3>5. b \in State /\ b.ci = a.ci /\ b.open = a.open /\ b.status = a.status /\ b.started = a.started
      <4> DEFINE p == Count(a.nCcalls - 1)
                 q == IF call.allow THEN a.nny ELSE a.nny - 1
                 g == [a EXCEPT !.nCcalls = p]
      <4>1. q \in Int
        BY <1>4 DEF State
      <4>2. b = [g EXCEPT !.nny = q]
        OBVIOUS
      <4> HIDE DEF p, q
      <4>3. g \in State /\ g.ci = a.ci /\ g.open = a.open /\ g.status = a.status /\ g.started = a.started
        BY <1>4, <3>4 DEF State, p
      <4> HIDE DEF g, b
      <4>4. QED
        BY <4>1, <4>2, <4>3 DEF State
    <3> HIDE DEF b
    <3>6. L' = [L EXCEPT ![R] = b]
      BY <1>2, <1>3, <3>3
    <3>7. QED
      BY <3>5, <3>6
  <2>3. QED
    BY <2>1, <2>2
<1> HIDE DEF a, popped, b
<1>8. L' \in [Threads -> State] /\ L'[R] = y /\ \A u \in Threads : u # R => L'[u] = L[u]
  BY <1>2, <1>7, Updated
<1>9. ctl' # "yield" /\ (cs' = cs \/ (cs[Len(cs)].k \notin Starts /\ cs' = Front(cs)))
  <2>1. CASE Top.reentry \/ call.k # "call"
    BY <1>1, <2>1 DEF LuaReturns
  <2>2. CASE ~(Top.reentry \/ call.k # "call")
    BY <1>5, <2>2 DEF LuaReturns, Starts
  <2>3. QED
    BY <2>1, <2>2
<1>10. Pops(L[R], L'[R])
  BY <1>2, <1>4, <1>7, <1>8 DEF Pops
<1>11. ok' = (Label(Top) \notin {"caught", "failed"})
  <2>1. Top.stat => Top.fn \in Protected
    BY <1>2 DEF Stack, InfosOk, Flagged
  <2>2. Label(Top) = Top.fn
    BY <1>1, <2>1 DEF Label, Functions, Protected
  <2>3. QED
    BY <1>1, <2>2 DEF Functions
<1>12. QED
  BY <1>1, <1>4, <1>6, <1>7, <1>8, <1>9, <1>10, <1>11, PopNext

\* A library function returns; whether it reports a success is seen.
LEMMA CReturnsNext ==
    ASSUME CoInv, CReturns
    PROVE  C!Next
<1>1. InC /\ ctl = "run" /\ cs # <<>> /\ ~Done /\ cs' = cs /\ ctl' = ctl
  BY DEF CReturns, InC
<1>2. /\ R \in Threads /\ L \in [Threads -> State] /\ L[R] \in State /\ L[R].status = "ok"
      /\ L[R].ci \in Seq(Infos) /\ Len(L[R].ci) \in Nat /\ Len(L[R].ci) > 0
      /\ Len(L[R].ci) \in 1..Len(L[R].ci)
      /\ Top = L[R].ci[Len(L[R].ci)] /\ Top \in Infos
  BY <1>1, RunningHere
<1> DEFINE x == L[R]
           e == IF Top.ypcall THEN Top.h ELSE x.errfunc
           a == [x EXCEPT !.ci = Front(x.ci), !.errfunc = e]
<1>3. L' = [L EXCEPT ![R] = a]
  BY <1>2 DEF CReturns
<1>4. a \in State /\ a.ci = Front(x.ci) /\ a.open = x.open /\ a.status = x.status /\ a.started = x.started
  <2>1. Front(x.ci) \in Seq(Infos)
    BY <1>2, FrontInfos
  <2>2. e \in Nat
    BY <1>2 DEF State, Infos
  <2> HIDE DEF e
  <2>3. QED
    BY <1>2, <2>1, <2>2 DEF State
<1> HIDE DEF a
<1>5. L' \in [Threads -> State] /\ L'[R] = a /\ \A u \in Threads : u # R => L'[u] = L[u]
  BY <1>2, <1>3, <1>4, Updated
<1>6. World(L', cs', ctl')
  BY CReturnsStep
<1>7. Pops(L[R], L'[R])
  BY <1>2, <1>4, <1>5 DEF Pops
<1>8. ok' = (Label(Top) \notin {"caught", "failed"})
  <2>1. Top.fn \in Functions \cup CFunctions /\ Top.stat \in BOOLEAN
    BY <1>2 DEF Infos
  <2>2. ok' = (~Top.stat /\ Top.fn # "failed")
    BY DEF CReturns
  <2>3. QED
    BY <2>1, <2>2 DEF Label, Functions, CFunctions
<1>9. QED
  BY <1>1, <1>4, <1>5, <1>6, <1>7, <1>8, PopNext

-----------------------------------------------------------------------------
(* Activations end, and errors look for a protected call                   *)

\* What the last call has reported was not a success only when control has just
\* come back from it to a Lua function.
OkInv == ~ok => ctl = "run" /\ cs # <<>> /\ Size(R) > 0 /\ Top.fn \in Functions

\* That is so after every step.
LEMMA OkAfter ==
    ASSUME CoInv, OkInv, [Next]_vars, ctl' # "raisemain"
    PROVE  OkInv'
<1>1. CASE UNCHANGED vars
  BY <1>1 DEF OkInv, vars, Size, R, Top
<1>2. CASE CReturns
  <2>1. /\ InC /\ ctl = "run" /\ cs # <<>> /\ ~Done /\ cs' = cs /\ ctl' = ctl
        /\ ok' = (~Top.stat /\ Top.fn # "failed")
        /\ L' = [L EXCEPT ![R].ci = Front(@), ![R].errfunc = IF Top.ypcall THEN Top.h ELSE @]
    BY <1>2 DEF CReturns, InC
  <2>2. /\ R \in Threads /\ L \in [Threads -> State] /\ L[R] \in State
        /\ L[R].ci \in Seq(Infos) /\ Len(L[R].ci) \in Nat /\ Len(L[R].ci) \in 1..Len(L[R].ci)
        /\ Len(L[R].ci) > 0
        /\ Top = L[R].ci[Len(L[R].ci)] /\ Stack(L[R].ci, cs, R, FALSE)
    BY <2>1, RunningHere
  <2>3. Top.fn \notin Functions
    BY <2>1 DEF InC
  <2>4. Len(L[R].ci) > 1 /\ L[R].ci[Len(L[R].ci) - 1].fn \in Functions
    BY <2>2, <2>3 DEF Stack, InfosOk, OnLua
  <2>5. L'[R].ci = Front(L[R].ci)
    BY <2>1, <2>2 DEF State
  <2> DEFINE c == L[R].ci
             d == L'[R].ci
  <2>6. Pushed(d, c) /\ Len(d) = Len(c) - 1
    BY Zenon, <2>2, <2>5, FrontInfos
  <2>7. Len(c) - 1 \in 1..Len(d) /\ Len(d) > 0
    BY <2>2, <2>4, <2>6
  <2>8. d[Len(d)].fn \in Functions
    BY <2>4, <2>6, <2>7 DEF Pushed
  <2>9. R' = R
    BY <2>1 DEF R
  <2>10. QED
    BY <2>1, <2>7, <2>8, <2>9 DEF OkInv, Size, Top
<1>3. CASE ok' = TRUE
  BY <1>3 DEF OkInv
<1>4. ASSUME Next, ~CReturns
      PROVE  ok' = TRUE
  <2>1. CASE CallLua \/ CallTM \/ FindUpval \/ TailCall \/ LuaReturns \/ Raise \/ HostCall \/ Yield
    BY <2>1 DEF CallLua, CallTM, FindUpval, TailCall, LuaReturns, Raise, HostCall, Yield
  <2>2. CASE \E fn \in {"dofile", "sort"} : CallK(fn)
    BY <2>2 DEF CallK
  <2>3. CASE \E fn \in {"pcall", "xpcall"} : PCallK(fn)
    BY <2>3 DEF PCallK
  <2>4. CASE \E c \in Threads : CoCreate(c) \/ \E f \in {"resume", "wrap"} : Resume(c, f) \/ ResumeFails(c, f)
    BY <2>4 DEF CoCreate, Resume, ResumeFails
  <2>5. CASE TryReturns \/ ErrorMsg \/ CatchPCall \/ CatchYield \/ Recover \/ Dies
    BY <2>5 DEF TryReturns, ErrorMsg, CatchPCall, CatchYield, Recover, Dies
  <2>6. QED
    BY <1>4, <2>1, <2>2, <2>3, <2>4, <2>5, NoneForeign DEF Next, Step, HostRaises
<1>5. QED
  BY <1>1, <1>2, <1>3, <1>4

\* A luaD_rawrunprotected returns: an activation ends, or lua_pcallk goes on, which
\* the abstract specification does not see.
LEMMA TryReturnsNext ==
    ASSUME CoInv, OkInv, TryReturns
    PROVE  [C!Next]_(C!vars)
<1> DEFINE try == Last(cs)
           x == L[R]
<1>1. /\ ctl = "run" /\ ctl' = ctl /\ cs # <<>> /\ Done /\ cs' = Front(cs) /\ ok' = TRUE
      /\ L' = [L EXCEPT ![R] =
                IF try.k = "resume"
                THEN [@ EXCEPT !.nny = try.nny, !.nCcalls = Count(try.ncc - 1)]
                ELSE [@ EXCEPT !.errfunc = try.errfunc, !.nCcalls = try.ncc]]
  BY DEF TryReturns
<1>2. /\ R \in Threads /\ Runs(cs, R) /\ L \in [Threads -> State] /\ x \in State
      /\ x.ci \in Seq(Infos) /\ cs \in Seq(Frames) /\ Len(cs) \in Nat /\ Len(cs) > 0
  BY <1>1, Here
<1>3. try = cs[Len(cs)] /\ Len(cs) \in 1..Len(cs) /\ try.t = R /\ try.k \in Tries /\ try.base = Len(x.ci)
  BY <1>1, <1>2 DEF Last, Done, R, Size
<1>4. World(L', cs', ctl') /\ ctl' # "yield"
  BY TryReturnsStep
<1>5. \A u \in Threads : Alike(L[u], L'[u])
  <2> DEFINE y == IF try.k = "resume" THEN [x EXCEPT !.nny = try.nny, !.nCcalls = Count(try.ncc - 1)]
                  ELSE [x EXCEPT !.errfunc = try.errfunc, !.nCcalls = try.ncc]
  <2>1. Alike(x, y)
    BY <1>2 DEF Alike, State
  <2> HIDE DEF try, x
  <2>2. L' = [L EXCEPT ![R] = y]
    BY <1>1, <1>2 DEF x
  <2> HIDE DEF y
  <2>3. L'[R] = y /\ \A u \in Threads : u # R => L'[u] = L[u]
    BY <1>2, <2>2
  <2>4. QED
    BY <2>1, <2>3 DEF Alike, x
<1>6. calls' = calls /\ ready' = ready /\ Activations = Acts(cs) /\ Activations' = Acts(cs')
  BY <1>1, <1>4, <1>5, NothingChanges
<1>7. CASE try.k \in Starts
  <2>1. EntryAt(cs, Len(cs))
    <3>1. Len(cs) + 1..Len(cs) = {}
      BY <1>2
    <3>2. QED
      BY <1>3, <1>7, <3>1 DEF EntryAt
  <2>2. /\ Activations # <<>> /\ C!T = R /\ calls[R] = View(L[R], FALSE)
        /\ C!Now.base = try.base
    <3>1. (ctl = "yield") = FALSE
      BY <1>1
    <3>2. QED
      BY <1>1, <1>3, <2>1, <3>1, Where
  <2>3. Len(calls[R]) = try.base /\ Len(calls[R]) \in Nat
    <3>1. x.status = "ok"
      <4>1. World(L, cs, "run")
        BY <1>1 DEF CoInv
      <4>2. QED
        BY <1>2, <4>1, RunFacts
    <3>2. Len(View(x, FALSE)) = Len(x.ci)
      BY <1>2, <3>1, ViewFacts DEF Deep
    <3>3. Len(x.ci) \in Nat
      BY <1>2
    <3>4. Len(calls[R]) = Len(x.ci)
      BY <2>2, <3>2
    <3> HIDE DEF try
    <3>5. QED
      BY <1>3, <3>3, <3>4
  <2>4. ~C!Running
    BY <2>2, <2>3 DEF C!Running, calls
  <2>5. SubSeq(Acts(cs), 1, Len(Acts(cs)) - 1) = Acts(cs')
    <3>1. SubSeq(Acts(cs), 1, Len(Acts(cs)) - 1) = Acts(SubSeq(cs, 1, Len(cs) - 1))
      BY <1>2, <2>1, LastActs
    <3>2. QED
      BY <1>1, <3>1 DEF Front
  <2>6. C!Next
    BY <1>1, <1>6, <2>2, <2>4, <2>5, FinishNext
  <2>7. QED
    BY <2>6
<1>8. CASE try.k \notin Starts
  <2>1. try.k = "pcall"
    BY <1>3, <1>8 DEF Tries, Starts
  <2>2. ok = TRUE
    <3>1. World(L, cs, "run")
      BY <1>1 DEF CoInv
    <3>2. Stack(x.ci, cs, R, FALSE)
      BY <1>2, <3>1, RunFacts
    <3>3. Len(cs) \in Mine(cs, R)
      BY <1>3 DEF Mine
    <3>4. x.ci[Len(x.ci)].fn \in Protected
      BY <1>3, <2>1, <3>2, <3>3 DEF Stack, FramesOk, PCallsOk
    <3>5. Top.fn \notin Functions
      BY <3>4 DEF Top, Size, Protected, Functions
    <3>6. ok
      BY <3>5 DEF OkInv
    <3>7. ok \in BOOLEAN
      BY DEF CoInv
    <3>8. QED
      BY <3>6, <3>7
  <2>3. Acts(cs') = Acts(cs)
    BY <1>1, <1>2, <1>3, <1>8, ActsFront
  <2>4. C!vars' = C!vars
    BY <1>1, <1>6, <2>2, <2>3 DEF C!vars, calls, ready
  <2>5. QED
    BY <2>4
<1>9. QED
  BY <1>7, <1>8

\* The e-th call is the innermost protected one that is to see an error.
Reached(e) == LET c == L[R].ci
              IN /\ e \in 1..Len(c) /\ Guard(c, cs, R, e)
                 /\ \A i \in 1..Len(c) : i > e => ~Guard(c, cs, R, i)
                 /\ \A q : EntryAt(cs, q) => cs[q].base < e
\* Where an error is on its way, the protected calls of the last activation are
\* those of the abstract specification.
LEMMA GuardsHere ==
    ASSUME CoInv, ctl \in {"raise", "error"}
    PROVE  /\ World(L, cs, ctl) /\ cs # <<>> /\ R \in Threads /\ C!T = R
           /\ Activations # <<>> /\ calls[R] = View(L[R], FALSE) /\ L[R] \in State /\ L[R].status = "ok"
           /\ L[R].ci \in Seq(Infos) /\ Len(L[R].ci) \in Nat
           /\ \A q : EntryAt(cs, q) => C!Now.base = cs[q].base /\ cs[q].base \in Nat
           /\ \E q : EntryAt(cs, q)
           /\ C!Guards = {i \in C!Now.base + 1..Len(L[R].ci) : Guard(L[R].ci, cs, R, i)}
           /\ \A i \in 1..Len(L[R].ci) : calls[R][i].fn = Label(L[R].ci[i])
           /\ Stack(L[R].ci, cs, R, TRUE)
<1>1. World(L, cs, ctl) /\ cs # <<>>
  BY DEF CoInv, World
<1>2. R \in Threads /\ Runs(cs, R) /\ L[R] \in State /\ L[R].ci \in Seq(Infos) /\ Len(L[R].ci) \in Nat
  BY <1>1, Here
<1> DEFINE c == L[R].ci
<1>3. L[R].status = "ok" /\ Stack(c, cs, R, TRUE)
  <2>1. (ctl # "run") = TRUE
    OBVIOUS
  <2>2. L[R].status = "ok" /\ Stack(c, cs, R, ctl # "run")
    BY <1>1, <1>2, RunnerFacts
  <2>3. QED
    BY <2>1, <2>2
<1>4. /\ C!T = R /\ Activations # <<>> /\ calls[R] = View(L[R], FALSE)
      /\ \A q : EntryAt(cs, q) => C!Now.base = cs[q].base /\ cs[q].base \in Nat
      /\ \E q : EntryAt(cs, q)
  <2>1. (ctl = "yield") = FALSE
    OBVIOUS
  <2>2. QED
    BY <1>1, <2>1, Where
<1>5. /\ Len(View(L[R], FALSE)) = Len(c)
      /\ \A i \in 1..Len(c) : View(L[R], FALSE)[i].fn = Label(c[i])
  BY <1>2, <1>3, ViewFacts DEF Deep
<1>6. C!Now.base \in Nat
  BY <1>4
<1>7. C!Guards = {i \in C!Now.base + 1..Len(c) : calls[R][i].fn \in Protected}
  BY <1>4, <1>5 DEF C!Guards, C!Protected, Protected, calls
<1>8. \A i \in 1..Len(c) : calls[R][i].fn \in Protected <=> Guard(c, cs, R, i)
  <2> SUFFICES ASSUME NEW i \in 1..Len(c)
               PROVE  Label(c[i]) \in Protected <=> Guard(c, cs, R, i)
    BY <1>4, <1>5
  <2>1. c[i].fn \in Protected => c[i].ypcall \/ HasTry(cs, R, i)
    BY <1>3 DEF Stack, Owned, Guarded
  <2>2. QED
    BY <2>1 DEF Label, Protected, Guard
<1>9. \A i \in C!Now.base + 1..Len(c) : i \in 1..Len(c)
  BY <1>2, <1>6
<1>10. C!Guards = {i \in C!Now.base + 1..Len(c) : Guard(c, cs, R, i)}
  BY <1>7, <1>8, <1>9
<1>11. QED
  BY <1>1, <1>2, <1>3, <1>4, <1>5, <1>10

\* It is that of the abstract specification.
LEMMA ReachedIs ==
    ASSUME CoInv, ctl \in {"raise", "error"}, NEW e, Reached(e)
    PROVE  C!Guards # {} /\ C!Max(C!Guards) = e /\ e \in C!Guards
<1> DEFINE c == L[R].ci
           G == C!Guards
<1>1. /\ Len(c) \in Nat /\ G = {i \in C!Now.base + 1..Len(c) : Guard(c, cs, R, i)}
      /\ \A q : EntryAt(cs, q) => C!Now.base = cs[q].base /\ cs[q].base \in Nat
      /\ \E q : EntryAt(cs, q)
  BY GuardsHere
<1>2. /\ e \in 1..Len(c) /\ Guard(c, cs, R, e) /\ \A i \in 1..Len(c) : i > e => ~Guard(c, cs, R, i)
      /\ \A q : EntryAt(cs, q) => cs[q].base < e
  BY DEF Reached
<1>3. C!Now.base < e /\ C!Now.base \in Nat
  BY <1>1, <1>2
<1>4. e \in G
  BY <1>1, <1>2, <1>3
<1>5. \A i \in G : i \in Nat /\ e >= i /\ e \in Nat
  BY <1>1, <1>2, <1>3
<1> HIDE DEF G
<1>6. C!Max(G) = e
  <2>1. \A x \in G : (\A y \in G : x >= y) <=> x = e
    BY <1>4, <1>5
  <2>2. (CHOOSE x \in G : \A y \in G : x >= y) = e
    BY <1>4, <2>1
  <2>3. QED
    BY <2>2 DEF C!Max
<1>7. QED
  BY <1>4, <1>6 DEF G

\* luaG_errormsg: the handler is called, or the abstract specification sees nothing.
LEMMA ErrorMsgNext ==
    ASSUME CoInv, OkInv, ErrorMsg
    PROVE  [C!Next]_(C!vars)
<1>1. ctl = "raise" /\ ok' = TRUE
  BY DEF ErrorMsg
<1>2. World(L', cs', ctl') /\ ctl' # "yield"
  BY MessageStep
<1>3. ok = TRUE
  <2>1. ok
    BY <1>1 DEF OkInv
  <2>2. ok \in BOOLEAN
    BY DEF CoInv
  <2>3. QED
    BY <2>1, <2>2
<1>4. /\ World(L, cs, ctl) /\ cs # <<>> /\ R \in Threads /\ C!T = R
      /\ Activations # <<>> /\ calls[R] = View(L[R], FALSE) /\ L[R] \in State /\ L[R].status = "ok"
      /\ L[R].ci \in Seq(Infos) /\ Len(L[R].ci) \in Nat
      /\ \A q : EntryAt(cs, q) => C!Now.base = cs[q].base /\ cs[q].base \in Nat
      /\ \A i \in 1..Len(L[R].ci) : calls[R][i].fn = Label(L[R].ci[i])
      /\ Stack(L[R].ci, cs, R, TRUE)
  BY <1>1, GuardsHere
<1>5. L \in [Threads -> State] /\ cs \in Seq(Frames) /\ Runs(cs, R)
  BY <1>4, Here
<1>6. ASSUME \A u \in Threads : Alike(L[u], L'[u]), Acts(cs') = Acts(cs)
      PROVE  C!vars' = C!vars
  <2>1. calls' = calls /\ ready' = ready /\ Activations = Acts(cs) /\ Activations' = Acts(cs')
    BY <1>1, <1>2, <1>6, NothingChanges
  <2>2. QED
    BY <1>1, <1>3, <1>6, <2>1 DEF C!vars, calls, ready
<1>7. CASE UNCHANGED <<L, cs>>
  <2>1. \A u \in Threads : Alike(L[u], L'[u])
    BY <1>7 DEF Alike
  <2>2. QED
    BY <1>6, <1>7, <2>1
<1>8. CASE L[R].errfunc # 0 /\ LuaDCall(R, L, cs, FALSE, "handler")
  <2> DEFINE no == FALSE
             fn == "handler"
             e == L[R].errfunc
             c == L[R].ci
  <2>1. LuaDCall(R, L, cs, no, fn) /\ no \in BOOLEAN /\ fn \in Functions
    BY <1>8 DEF Functions
  <2> HIDE DEF no, fn
  <2>2. Called(L, cs, R, no, fn, L', cs', ctl')
    BY <1>4, <1>5, <2>1, CallTypes
  <2>3. /\ L' \in [Threads -> State] /\ \A u \in Threads : u # R => L'[u] = L[u]
        /\ L'[R].status = L[R].status /\ L'[R].started = L[R].started
        /\ L'[R].open = L[R].open
    BY <2>2 DEF Called
  <2>4. PICK g \in Frames :
          /\ cs' = Append(cs, g) /\ g.k = "call"
          /\ \/ L'[R].ci = Append(L[R].ci, Info(fn))
             \/ L'[R].ci = L[R].ci
    BY <2>2 DEF Called
  <2>5. Acts(cs') = Acts(cs)
    <3>1. Extended(cs, cs', g) /\ g.k \notin Starts
      BY <1>5, <2>4 DEF Extended, Starts
    <3>2. QED
      BY <3>1, GoesOnOne, ActsGoOn
  <2>6. CASE L'[R].ci = L[R].ci
    <3>1. \A u \in Threads : Alike(L[u], L'[u])
      BY <2>3, <2>6 DEF Alike
    <3>2. QED
      BY <1>6, <2>5, <3>1
  <2>7. CASE L'[R].ci = Append(L[R].ci, Info(fn))
    <3> DEFINE h == Info(fn)
               fns == <<h.fn>>
    <3>1. h \in Infos /\ h.fn = "handler" /\ ~h.stat
      BY InfoTypes DEF Functions, fn
    <3> HIDE DEF h
    <3>2. fns = <<"handler">>
      BY <3>1
    <3>3. fns \in Seq(Names)
      <4>1. h.fn \in Names
        BY <3>1 DEF Names, Functions
      <4>2. QED
        BY <4>1
    <3>4. Adding(L[R].ci, L'[R].ci, fns)
      BY <1>4, <2>7, <3>1, AddingOne DEF h
    <3> HIDE DEF fns
    <3>5. View(L'[R], FALSE) = View(L[R], FALSE) \o Shown(fns)
      <4>1. L'[R] \in State /\ L[R].status # "error" /\ OpenOk(L[R].ci, L[R].open)
        BY <1>4, <1>5, <2>3, RunnerFacts
      <4>2. QED
        BY <1>4, <2>3, <3>3, <3>4, <4>1, AddingShows
    <3>6. calls' = [calls EXCEPT ![R] = View(L'[R], FALSE)] /\ ready' = ready
      <4>1. \A u \in Threads : u # R => Alike(L[u], L'[u])
        BY <2>3 DEF Alike
      <4>2. QED
        BY <1>1, <1>2, <1>4, <2>3, <4>1, OneChanges
    <3>7. calls' = [calls EXCEPT ![C!T] = calls[C!T] \o Shown(<<"handler">>)]
      BY <1>4, <3>2, <3>5, <3>6, Zenon
    <3>8. Activations' = Activations
      BY <1>1, <1>2, <2>5, PlainNow, PlainThen
    <3>9. Reached(e) /\ c[e].fn = "xpcall"
      <4>1. ErrOk(c, cs, R, e, Len(c), Mine(cs, R))
        BY <1>4, <1>5, RunnerFacts
      <4>2. /\ e \in 1..Len(c) /\ c[e].fn = "xpcall" /\ Guard(c, cs, R, e)
            /\ \A i \in 1..Len(c) : i > e => ~Guard(c, cs, R, i)
            /\ \A j \in Mine(cs, R) : cs[j].k = "host" => cs[j].base < e
        BY <1>8, <4>1 DEF ErrOk
      <4>3. ASSUME NEW q, EntryAt(cs, q)
            PROVE  cs[q].base < e
        <5>1. q \in Mine(cs, R) /\ cs[q].k \in Starts
          BY <4>3 DEF EntryAt, Mine, R
        <5>2. cs[q].k = "resume" => cs[q].base = 0
          BY <1>4, <5>1 DEF Stack, FramesOk, ResumesOk
        <5>3. QED
          BY <1>4, <4>2, <5>1, <5>2 DEF Starts
      <4>4. QED
        BY <4>2, <4>3 DEF Reached
    <3> HIDE DEF e
    <3>10. C!Guards # {} /\ C!Max(C!Guards) = e
      BY <1>1, <3>9, ReachedIs
    <3>11. calls[R][e].fn = "xpcall"
      <4>1. e \in 1..Len(c) /\ Guard(c, cs, R, e)
        BY <3>9 DEF Reached
      <4>2. Label(c[e]) = "xpcall"
        BY <3>9, <4>1 DEF Label, Guard
      <4>3. QED
        BY <1>4, <4>1, <4>2
    <3>12. C!Next
      BY <1>1, <1>4, <3>6, <3>7, <3>8, <3>10, <3>11, HandleNext
    <3>13. QED
      BY <3>12
  <2>8. QED
    BY <2>4, <2>6, <2>7
<1>9. QED
  BY <1>7, <1>8 DEF ErrorMsg

-----------------------------------------------------------------------------
(* Errors are caught                                                       *)

\* No activation starts among the frames that are gone.
LEMMA ActsCut ==
    ASSUME NEW s \in Seq(Frames), NEW n \in 0..Len(s), \A i \in n + 1..Len(s) : s[i].k \notin Starts
    PROVE  SubSeq(s, 1, n) \in Seq(Frames) /\ Acts(SubSeq(s, 1, n)) = Acts(s)
<1> DEFINE w == SubSeq(s, 1, n)
<1>1. w \in Seq(Frames) /\ Len(w) = n /\ \A i \in 1..n : s[i] = w[i]
  OBVIOUS
<1>2. Len(w) <= Len(s)
  BY <1>1
<1> HIDE DEF w
<1>3. GoesOn(w, s)
  BY <1>1, <1>2 DEF GoesOn
<1>4. QED
  BY <1>1, <1>3, ActsGoOn DEF w

\* The error is caught in the e-th call.
CatchesIn(e) ==
    /\ ctl \in {"raise", "error"} /\ Reached(e) /\ \A u \in Threads : u # R => L'[u] = L[u]
    /\ L'[R].status = L[R].status /\ L'[R].started = L[R].started /\ L'[R].open = Closed(L[R].open, e)
    /\ Len(L'[R].ci) = e /\ \A i \in 1..e : i # e => L'[R].ci[i] = L[R].ci[i]
    /\ L'[R].ci[e].stat /\ Acts(cs') = Acts(cs) /\ ok' = TRUE
\* Then the abstract specification catches it in that call.
LEMMA CaughtNext ==
    ASSUME CoInv, World(L', cs', ctl'), ctl' # "yield", NEW e, CatchesIn(e)
    PROVE  C!Next
<1>1. /\ ctl # "yield" /\ ctl \in {"raise", "error"} /\ Reached(e)
      /\ \A u \in Threads : u # R => L'[u] = L[u]
      /\ L'[R].status = L[R].status /\ L'[R].started = L[R].started /\ L'[R].open = Closed(L[R].open, e)
      /\ Len(L'[R].ci) = e /\ \A i \in 1..e : i # e => L'[R].ci[i] = L[R].ci[i]
      /\ L'[R].ci[e].stat /\ Acts(cs') = Acts(cs) /\ ok' = TRUE
  BY DEF CatchesIn
<1>2. /\ R \in Threads /\ C!T = R /\ Activations # <<>> /\ calls[R] = View(L[R], FALSE)
      /\ L[R] \in State /\ L[R].status = "ok" /\ Len(L[R].ci) \in Nat
  BY <1>1, GuardsHere
<1>3. L'[R] \in State
  BY <1>2 DEF World
<1>4. C!Guards # {} /\ C!Max(C!Guards) = e
  BY <1>1, ReachedIs
<1>5. e \in 1..Len(L[R].ci)
  BY <1>1 DEF Reached
<1> DEFINE no == FALSE
           fn == "caught"
<1>6. Marks(L[R], no, L'[R], no, e, fn)
  <2>1. Deep(L[R], no) = Len(L[R].ci) /\ Deep(L'[R], no) = e
    BY <1>1 DEF Deep
  <2>2. Sees(L[R], no) /\ Sees(L'[R], no)
    BY <1>1, <1>2, <1>3 DEF Sees
  <2>3. \A i \in 1..e : i # e => Label(L'[R].ci[i]) = Label(L[R].ci[i])
    BY <1>1
  <2>4. Label(L'[R].ci[e]) = fn
    BY <1>1 DEF Label
  <2>5. \A i \in 1..e : (i \in L'[R].open <=> i \in L[R].open)
    BY <1>1, <1>2, <1>5 DEF Closed
  <2> HIDE DEF no, fn
  <2>6. QED
    BY <1>5, <2>1, <2>2, <2>3, <2>4, <2>5 DEF Marks
<1> HIDE DEF no, fn
<1>7. View(L'[R], no) = C!Cut(View(L[R], no), e, fn)
  BY <1>6, ViewMarks
<1>8. calls' = [calls EXCEPT ![R] = View(L'[R], FALSE)] /\ ready' = ready
  <2>1. \A u \in Threads : u # R => Alike(L[u], L'[u])
    BY <1>1 DEF Alike
  <2>2. QED
    BY <1>1, <1>2, <2>1, OneChanges
<1>9. Activations' = Activations
  BY <1>1, PlainNow, PlainThen
<1>10. calls' = [calls EXCEPT ![C!T] = C!Cut(calls[C!T], C!Max(C!Guards), "caught")]
  BY Zenon, <1>2, <1>4, <1>7, <1>8 DEF no, fn
<1>11. QED
  BY <1>1, <1>2, <1>4, <1>8, <1>9, <1>10, CatchNext

\* The activation of the frame q has failed; l is L then, w what is left of the C
\* stack.
Failed(l, w, q) ==
    /\ ctl = "error" /\ cs # <<>> /\ EntryAt(cs, q) /\ w = SubSeq(cs, 1, q - 1) /\ C!Guards = {}
    /\ Waiting(l, w) /\ Fail(l, w) /\ ok' = TRUE /\ \A u \in Threads : u # R => l[u] = L[u]
    /\ ctl' # "raisemain"
    /\ View(l[R], FALSE) = SubSeq(View(L[R], FALSE), 1, cs[q].base)
    /\ ~Ready(l[R], FALSE)
\* Then the abstract activation fails too.
LEMMA FailedNext ==
    ASSUME CoInv, NEW l, NEW w, NEW q, Failed(l, w, q)
    PROVE  C!Next
<1>1. /\ ctl = "error" /\ cs # <<>> /\ EntryAt(cs, q) /\ w = SubSeq(cs, 1, q - 1) /\ C!Guards = {}
      /\ Waiting(l, w) /\ Fail(l, w) /\ ok' = TRUE /\ \A u \in Threads : u # R => l[u] = L[u]
      /\ ctl' # "raisemain"
      /\ View(l[R], FALSE) = SubSeq(View(L[R], FALSE), 1, cs[q].base) /\ ~Ready(l[R], FALSE)
  BY DEF Failed
<1>2. World(L', cs', ctl') /\ ctl' # "yield"
  BY <1>1, FailWorld
<1>3. /\ R \in Threads /\ C!T = R /\ Activations # <<>> /\ calls[R] = View(L[R], FALSE)
      /\ L[R].status = "ok" /\ C!Now.base = cs[q].base
  BY <1>1, GuardsHere
<1>4. /\ calls = [u \in Threads |-> View(L[u], FALSE)] /\ Activations = Acts(cs)
      /\ ready = {u \in Threads : Ready(L[u], FALSE)}
  BY <1>1, PlainNow
<1>5. /\ calls' = [u \in Threads |-> View(L'[u], FALSE)] /\ Activations' = Acts(cs')
      /\ ready' = {u \in Threads : Ready(L'[u], FALSE)}
  BY <1>2, PlainThen
<1>6. \A u \in Threads : Left(u) = View(l[u], FALSE)
  BY <1>1, <1>3, <1>4 DEF Left
<1>7. \A u \in Threads : Ready(l[u], FALSE) <=> Ready(L[u], FALSE)
  <2>1. L[R].started
    BY <1>1, <1>3, GuardsHere, Here, RunnerFacts
  <2>2. QED
    BY <1>1, <1>3, <2>1 DEF Ready
<1>8. Activations' = Rest /\ Rest = Acts(w)
  <2>1. cs \in Seq(Frames)
    BY <1>1, Here
  <2>2. cs' = w
    BY <1>1 DEF Fail
  <2>3. QED
    BY <1>1, <1>4, <1>5, <2>1, <2>2, LastActs DEF Rest
<1>9. CASE w = <<>>
  <2>1. L' = l
    BY <1>1, <1>9 DEF Fail
  <2>2. Rest = <<>>
    BY <1>8, <1>9, ActsOfNone
  <2>3. calls' = [u \in Threads |-> Left(u)] /\ ready' = ready
    BY <1>4, <1>5, <1>6, <1>7, <2>1
  <2>4. QED
    BY <1>1, <1>3, <1>8, <2>2, <2>3, EndNext
<1>10. CASE w # <<>>
  <2>0. PICK t : t = w[Len(w)].t
    OBVIOUS
  <2>1. /\ cs' = w /\ t \in Threads /\ Runs(w, t) /\ l[t].status = "ok"
        /\ L' \in [Threads -> State] /\ \A u \in Threads : u # t => L'[u] = l[u]
        /\ \E f \in C!Failures : Answers(l[t], L'[t], f)
    <3>1. Waiting(l, w) /\ w # <<>>
      BY <1>1, <1>10
    <3>2. Fail(l, w) /\ ctl' # "raisemain"
      BY <1>1
    <3>3. QED
      BY <2>0, <3>1, <3>2, FailFacts
  <2> DEFINE n == Len(l[t].ci)
  <2>2. PICK f \in C!Failures : Answers(l[t], L'[t], f)
    BY <2>1
  <2>3. w \in Seq(Frames) /\ ActGrouped(w) /\ Len(w) # 0 /\ l[t] \in State
    <3>1. w \in Seq(Frames) /\ ActGrouped(w) /\ l[t] \in State
      BY <1>1, <2>1 DEF Waiting
    <3>2. QED
      BY <1>10, <3>1
  <2>4. Rest # <<>> /\ Caller = t
    <3>1. PICK p : EntryAt(w, p)
      BY <2>3, EntryExists
    <3>2. Len(Rest) # 0 /\ Rest[Len(Rest)] = Record(w[p]) /\ w[p].t = t
      BY <1>8, <2>0, <2>3, <3>1, LastActs DEF EntryAt
    <3>3. Caller = t
      BY <3>2 DEF Caller, Record
    <3>4. QED
      BY <3>2, <3>3
  <2> DEFINE no == FALSE
             fn == f[2]
  <2>5. /\ L'[t].open = l[t].open /\ L'[t].status = l[t].status /\ L'[t].started = l[t].started
        /\ n \in 1..n /\ Len(L'[t].ci) = n
        /\ \A i \in 1..n : i # n => L'[t].ci[i] = l[t].ci[i]
        /\ l[t].ci[n].fn = f[1] /\ L'[t].ci[n].fn = f[2]
        /\ ~l[t].ci[n].stat /\ ~L'[t].ci[n].stat
    BY <2>2 DEF Answers
  <2>6. Deep(l[t], no) = n /\ Deep(L'[t], no) = n
    BY <2>5 DEF Deep
  <2>7. Sees(l[t], no) /\ Sees(L'[t], no)
    BY <2>1, <2>3, <2>5 DEF Sees
  <2>8. Marks(l[t], no, L'[t], no, n, fn)
    <3>1. \A i \in 1..n : i # n => Label(L'[t].ci[i]) = Label(l[t].ci[i])
      BY <2>5
    <3>2. Label(L'[t].ci[n]) = fn
      BY <2>5 DEF Label
    <3> HIDE DEF no, fn, n
    <3>3. QED
      BY <2>5, <2>6, <2>7, <3>1, <3>2 DEF Marks
  <2>9. Len(View(l[t], no)) = n /\ View(l[t], no)[n].fn = f[1]
    <3>1. /\ Len(View(l[t], no)) = Deep(l[t], no)
          /\ \A i \in 1..Deep(l[t], no) : View(l[t], no)[i].fn = Label(l[t].ci[i])
      BY <2>1, <2>3, ViewFacts
    <3>2. Label(l[t].ci[n]) = f[1]
      BY <2>5 DEF Label
    <3> HIDE DEF no, n
    <3>3. QED
      BY <2>5, <2>6, <3>1, <3>2
  <2> HIDE DEF no, fn, n
  <2>10. View(L'[t], no) = C!Cut(View(l[t], no), n, fn)
    BY <2>8, ViewMarks
  <2>11. /\ Left(Caller)[Len(Left(Caller))].fn = f[1]
         /\ View(L'[t], no) = C!Cut(Left(Caller), Len(Left(Caller)), f[2])
    <3>1. Left(Caller) = View(l[t], no)
      BY <1>6, <2>1, <2>4 DEF no
    <3>2. QED
      BY <2>9, <2>10, <3>1 DEF fn
  <2>12. \A u \in Threads : View(L'[u], no) = IF u = Caller THEN C!Cut(Left(Caller), Len(Left(Caller)), f[2])
                                              ELSE Left(u)
    <3>1. \A u \in Threads : u # t => L'[u] = l[u]
      BY <2>1
    <3>2. QED
      BY <1>6, <2>4, <2>11, <3>1 DEF no
  <2>13. Fails(f)
    <3>1. calls' = [u \in Threads |-> IF u = Caller THEN C!Cut(Left(Caller), Len(Left(Caller)), f[2])
                                      ELSE Left(u)]
      BY <1>5, <2>12 DEF no
    <3>2. QED
      BY <2>11, <3>1 DEF Fails
  <2>14. ready' = ready
    <3>1. \A u \in Threads : Ready(L'[u], FALSE) <=> Ready(l[u], FALSE)
      BY <2>1, <2>5 DEF Ready
    <3>2. QED
      BY <1>4, <1>5, <1>7, <3>1
  <2>15. QED
    BY <1>1, <1>3, <1>8, <2>2, <2>4, <2>13, <2>14, EndNext
<1>11. QED
  BY <1>9, <1>10

\* The frame that catches an error, and what is above it.
LEMMA CatcherHere ==
    ASSUME CoInv, ctl = "error"
    PROVE  /\ cs # <<>> /\ Catcher \in Mine(cs, R) /\ Catcher \in Nat /\ Catcher \in 1..Len(cs)
           /\ cs[Catcher].k \in Tries /\ cs[Catcher].base \in 0..Len(L[R].ci) /\ Len(L[R].ci) \in Nat
           /\ \A j \in Mine(cs, R) : j \in Nat /\ cs[j].base \in Nat
           /\ \A j \in Mine(cs, R) : j < Catcher \/ j = Catcher \/ cs[j].k = "call"
           /\ \A i \in Catcher + 1..Len(cs) : cs[i].k \notin Starts
           /\ cs[Catcher].k \in Starts => EntryAt(cs, Catcher)
           /\ \A j \in Mine(cs, R) : j < Catcher => cs[j].base < cs[Catcher].base
<1>1. World(L, cs, ctl) /\ cs # <<>>
  BY DEF CoInv, World
<1>2. /\ Catcher \in 1..Len(cs) /\ Catcher \in Nat /\ cs[Catcher] \in Frames
      /\ cs[Catcher].k \in Tries /\ cs[Catcher].t = R /\ Catcher \in Mine(cs, R)
      /\ \A i \in Catcher..Len(cs) : cs[i].t = R
      /\ \A i \in Catcher + 1..Len(cs) : cs[i].k = "call"
      /\ cs[Catcher].base \in 0..Len(L[R].ci)
  BY <1>1, CatcherFacts
<1> DEFINE q == Catcher
<1> HIDE DEF q
<1>3. /\ R \in Threads /\ Runs(cs, R) /\ Len(L[R].ci) \in Nat /\ cs \in Seq(Frames) /\ Len(cs) \in Nat
  BY <1>1, Here
<1>4. Stack(L[R].ci, cs, R, TRUE)
  BY GuardsHere
<1>5. \A j \in Mine(cs, R) : j \in Nat /\ cs[j].base \in Nat /\ j <= Len(cs)
  <2>1. \A j \in Mine(cs, R) : j \in Nat /\ j <= Len(cs)
    BY <1>3 DEF Mine
  <2>2. Based(cs, R)
    BY <1>1, <1>3, RunnerFacts
  <2>3. QED
    BY <2>1, <2>2 DEF Based
<1>6. q \in Nat /\ q \in Mine(cs, R) /\ q \in 1..Len(cs) /\ \A i \in q + 1..Len(cs) : cs[i].k = "call"
  BY <1>2 DEF q
<1>7. \A j \in Mine(cs, R) : j < q \/ j = q \/ cs[j].k = "call"
  <2> SUFFICES ASSUME NEW j \in Mine(cs, R), ~(j < q), j # q
               PROVE  cs[j].k = "call"
    OBVIOUS
  <2> DEFINE m == Len(cs)
  <2>0. j \in Nat /\ j <= m /\ m \in Nat /\ q \in Nat
    BY <1>3, <1>5, <1>6
  <2> HIDE DEF m
  <2>a. j \in q + 1..m
    BY <2>0
  <2>1. j \in q + 1..Len(cs)
    BY <2>a DEF m
  <2>2. QED
    BY <1>6, <2>1
<1>8. \A i \in q + 1..Len(cs) : cs[i].k \notin Starts
  BY <1>6 DEF Starts
<1>9. cs[q].k \in Starts => EntryAt(cs, q)
  <2>1. \A i \in q + 1..Len(cs) : i \in q..Len(cs)
    BY <1>6
  <2>2. R = cs[Len(cs)].t
    BY DEF R
  <2>3. QED
    BY <1>2, <1>6, <1>8, <2>1, <2>2 DEF EntryAt, q
<1>10. \A j \in Mine(cs, R) : j < q => cs[j].base < cs[q].base
  <2>1. cs[q].k # "call"
    BY <1>2 DEF q, Tries
  <2>2. QED
    BY <1>4, <1>6, <2>1 DEF Stack, Ascending
<1>11. QED
  BY <1>1, <1>2, <1>3, <1>5, <1>7, <1>8, <1>9, <1>10 DEF q

\* luaD_pcall catches the error in the innermost protected call of the activation.
LEMMA PCallReached ==
    ASSUME CoInv, ctl = "error", cs[Catcher].k = "pcall"
    PROVE  Reached(cs[Catcher].base)
<1> DEFINE q == Catcher
           c == L[R].ci
           b == cs[q].base
<1>1. /\ q \in Mine(cs, R) /\ Len(c) \in Nat /\ cs[q].k = "pcall"
      /\ \A j \in Mine(cs, R) : j \in Nat /\ cs[j].base \in Nat
      /\ \A j \in Mine(cs, R) : j < q \/ j = q \/ cs[j].k = "call"
      /\ \A j \in Mine(cs, R) : j < q => cs[j].base < cs[q].base
  BY CatcherHere
<1>2. Stack(c, cs, R, TRUE)
  BY GuardsHere
<1> HIDE DEF q, c
<1>3. b \in 1..Len(c) /\ c[b].fn \in Protected /\ ~c[b].stat
  BY <1>1, <1>2 DEF Stack, FramesOk, PCallsOk
<1>4. HasTry(cs, R, b)
  BY <1>1 DEF HasTry
<1>5. Guard(c, cs, R, b)
  BY <1>3, <1>4 DEF Guard
<1>6. ASSUME NEW i \in 1..Len(c), i > b
      PROVE  ~Guard(c, cs, R, i)
  <2>1. b \in 0..i - 1
    BY <1>3, <1>6
  <2>2. ~c[i].ypcall
    BY <1>2, <1>4, <2>1 DEF Stack, Owned, Yieldable
  <2>3. ~HasTry(cs, R, i)
    <3> SUFFICES ASSUME NEW j \in Mine(cs, R), cs[j].k = "pcall", cs[j].base = i
                 PROVE  FALSE
      BY DEF HasTry
    <3>1. j < q \/ j = q
      BY <1>1
    <3>2. i <= b
      BY <1>1, <1>3, <3>1
    <3>3. QED
      BY <1>3, <1>6, <3>2
  <2>4. QED
    BY <2>2, <2>3 DEF Guard
<1>7. ASSUME NEW r, EntryAt(cs, r)
      PROVE  cs[r].base < b
  <2>1. r \in Mine(cs, R) /\ cs[r].k \in Starts
    BY <1>7 DEF EntryAt, Mine, R
  <2>2. r < q
    BY <1>1, <2>1 DEF Starts
  <2>3. QED
    BY <1>1, <2>1, <2>2
<1>8. QED
  BY <1>3, <1>5, <1>6, <1>7 DEF Reached, q, c

\* No protected call of the activation is left where its own frame catches the error.
LEMMA NoneReached ==
    ASSUME CoInv, ctl = "error", cs[Catcher].k = "host" \/ (cs[Catcher].k = "resume" /\ Marked(R) = {})
    PROVE  EntryAt(cs, Catcher) /\ C!Guards = {}
<1> DEFINE q == Catcher
           c == L[R].ci
           b == cs[q].base
<1>1. /\ q \in Mine(cs, R) /\ Len(c) \in Nat
      /\ \A j \in Mine(cs, R) : j \in Nat /\ cs[j].base \in Nat
      /\ \A j \in Mine(cs, R) : j < q \/ j = q \/ cs[j].k = "call"
      /\ \A j \in Mine(cs, R) : j < q => cs[j].base < cs[q].base
  BY CatcherHere
<1>2. EntryAt(cs, q)
  BY CatcherHere DEF Starts
<1>3. /\ Stack(c, cs, R, TRUE) /\ C!Now.base = b /\ b \in Nat
      /\ C!Guards = {i \in C!Now.base + 1..Len(c) : Guard(c, cs, R, i)}
  BY <1>2, GuardsHere
<1>4. \A i \in 1..Len(c) : ~c[i].ypcall
  <2>1. CASE cs[q].k = "host"
    <3>1. R = Main
      BY <1>1, <1>3, <2>1 DEF Stack, FramesOk, HostsOk
    <3>2. QED
      BY <1>3, <3>1 DEF Stack, Owned, Yieldable
  <2>2. CASE Marked(R) = {}
    BY <2>2 DEF Marked, Size
  <2>3. QED
    BY <2>1, <2>2
<1> HIDE DEF q, c
<1>5. \A i \in b + 1..Len(c) : ~Guard(c, cs, R, i)
  <2> SUFFICES ASSUME NEW i \in b + 1..Len(c), c[i].ypcall \/ HasTry(cs, R, i)
               PROVE  FALSE
    BY DEF Guard
  <2>1. i \in 1..Len(c) /\ i > b /\ i \in Nat
    BY <1>1, <1>3
  <2>2. PICK j \in Mine(cs, R) : cs[j].k = "pcall" /\ cs[j].base = i
    BY <1>4, <2>1 DEF HasTry
  <2>3. j < q
    <3>1. cs[q].k # "pcall"
      BY DEF q
    <3>2. QED
      BY <1>1, <2>2, <3>1
  <2>4. QED
    BY <1>1, <1>3, <2>1, <2>2, <2>3
<1>6. QED
  BY <1>2, <1>3, <1>5 DEF q

\* lua_resume recovers in the innermost protected call of the coroutine.
LEMMA MarkedReached ==
    ASSUME CoInv, ctl = "error", cs[Catcher].k = "resume", Marked(R) # {}
    PROVE  Reached(Max(Marked(R)))
<1> DEFINE q == Catcher
           c == L[R].ci
           n == Len(c)
           S == Marked(R)
           p == Max(S)
<1>1. /\ q \in Mine(cs, R) /\ n \in Nat /\ cs[q].k = "resume"
      /\ \A j \in Mine(cs, R) : j \in Nat /\ cs[j].base \in Nat
      /\ \A j \in Mine(cs, R) : j < q \/ j = q \/ cs[j].k = "call"
  BY CatcherHere
<1>2. Stack(c, cs, R, TRUE)
  BY GuardsHere
<1>3. S \in SUBSET (1..n) /\ S # {} /\ \A i \in 1..n : i \in S <=> c[i].ypcall
  BY DEF Marked, Size
<1> HIDE DEF q, c, n, S
<1>4. p \in S /\ \A i \in S : i <= p
  BY <1>1, <1>3, Greatest
<1>5. p \in 1..n /\ c[p].ypcall /\ \A i \in 1..n : i > p => ~c[i].ypcall
  <2> HIDE DEF p
  <2>1. p \in 1..n /\ c[p].ypcall
    BY <1>3, <1>4
  <2>2. \A i \in 1..n : i > p => ~(i <= p)
    BY <1>1, <2>1
  <2>3. QED
    BY <1>3, <1>4, <2>1, <2>2
<1> HIDE DEF p
<1>6. R # Main /\ \A j \in Mine(cs, R) : j >= q
  BY <1>1, <1>2 DEF Stack, FramesOk, ResumesOk
<1>7. \A j \in Mine(cs, R) : j = q \/ cs[j].k = "call"
  BY <1>1, <1>6
<1>8. \A i : ~HasTry(cs, R, i)
  BY <1>1, <1>7 DEF HasTry
<1>9. Guard(c, cs, R, p) /\ \A i \in 1..n : i > p => ~Guard(c, cs, R, i)
  <2>1. c[p].fn \in Protected
    BY <1>2, <1>5 DEF Stack, InfosOk, Flagged, n
  <2>2. ~c[p].stat
    BY <1>2, <1>5 DEF Stack, InfosOk, StatOnTop, n
  <2>3. QED
    BY <1>5, <1>8, <2>1, <2>2 DEF Guard
<1>10. ASSUME NEW r, EntryAt(cs, r)
       PROVE  cs[r].base < p
  <2>1. r \in Mine(cs, R) /\ cs[r].k \in Starts
    BY <1>10 DEF EntryAt, Mine, R
  <2>2. cs[r].k = "resume"
    BY <1>1, <1>7, <2>1 DEF Starts
  <2>3. cs[r].base = 0
    BY <1>2, <2>1, <2>2 DEF Stack, FramesOk, ResumesOk
  <2>4. QED
    BY <1>5, <2>3
<1>11. QED
  BY <1>5, <1>9, <1>10 DEF Reached, p, n, S, c

\* luaD_pcall catches an error, or the activation of the host ends with it.
LEMMA CatchesNext ==
    ASSUME CoInv, CatchPCall, ctl' # "raisemain"
    PROVE  C!Next
<1> DEFINE c == L[R].ci
           q == Catcher
           f == cs[q]
           b == f.base
           d == SubSeq(c, 1, b)
           o == Closed(L[R].open, b)
           w == SubSeq(cs, 1, q - 1)
           y == [L[R] EXCEPT !.ci = d, !.nny = f.nny, !.errfunc = f.errfunc, !.nCcalls = f.ncc,
                             !.open = o]
           l == [L EXCEPT ![R] = y]
<1>1. /\ ctl \in {"error", "yield"} /\ f.k \in {"pcall", "host"} /\ ok' = TRUE
      /\ IF f.k = "host" THEN Fail(l, w)
         ELSE L' = [l EXCEPT ![R].ci[b].stat = TRUE] /\ cs' = w /\ ctl' = "run"
  BY DEF CatchPCall, PCallFails
<1>2. World(L, cs, ctl) /\ cs # <<>>
  BY <1>1 DEF CoInv, World
<1>3. R \in Threads /\ Runs(cs, R) /\ L \in [Threads -> State] /\ L[R] \in State /\ c \in Seq(Infos)
  BY <1>2, Here
<1>4. ctl = "error"
  BY <1>1, <1>2, YieldReaches
<1>5. /\ L[R].started /\ L[R].status = "ok" /\ Stack(c, cs, R, TRUE)
  <2>1. Stack(c, cs, R, TRUE) /\ L[R].status = "ok"
    BY <1>4, GuardsHere
  <2>2. QED
    BY <1>2, <1>3, <2>1, RunnerFacts
<1>6. /\ q \in 1..Len(cs) /\ f \in Frames /\ f.k \in Tries /\ q \in Mine(cs, R)
      /\ \A i \in q..Len(cs) : cs[i].t = R
      /\ b \in 0..Len(c)
  BY <1>2, CatcherFacts
<1>7. World(L', cs', ctl') /\ ctl' # "yield"
  BY CatchPCallStep
<1> HIDE DEF q
<1>8. f.nny \in Int /\ f.errfunc \in Nat /\ f.ncc \in Counts /\ b \in Nat
  BY <1>6, FrameTypes
<1>9. /\ d \in Seq(Infos) /\ Len(d) = b /\ (\A i \in 1..b : d[i] = c[i])
      /\ o \in SUBSET Nat /\ \A i \in o : i \in L[R].open /\ i <= b
  <2>1. L[R].open \in SUBSET Nat
    BY <1>3 DEF State
  <2>2. QED
    BY <1>3, <1>6, <2>1, FirstCalls
<1>10. o = Closed(L[R].open, b)
  OBVIOUS
<1> HIDE DEF d, o
<1>11. /\ y \in State /\ y.ci = d /\ y.errfunc = f.errfunc /\ y.open = o
       /\ y.status = "ok" /\ y.started
  BY <1>3, <1>5, <1>8, <1>9 DEF State
<1> HIDE DEF y, f, w
<1>12. l \in [Threads -> State] /\ l[R] = y /\ \A u \in Threads : u # R => l[u] = L[u]
  BY <1>3, <1>11, Updated
<1>13. CASE f.k = "host"
  <2>1. Fail(l, w)
    BY <1>1, <1>13
  <2> HIDE DEF l
  <2>2. Unwinds(L, cs, l, w, R, q, b) /\ (b > 0 => l[R].ci[b].stat = L[R].ci[b].stat)
    <3>1. l[R].ci = d /\ L[R].ci = c
      BY <1>11, <1>12
    <3>2. b > 0 => b \in 1..b
      BY <1>8
    <3>3. QED
      BY <1>6, <1>9, <1>11, <1>12, <3>1, <3>2 DEF Unwinds, f, w
  <2>3. Stays(L, l, R, "run")
    BY <1>5, <1>11, <1>12 DEF Stays, Modes
  <2> HIDE DEF b
  <2>4. Waiting(l, w)
    BY <1>2, <1>3, <1>13, <2>2, <2>3, HostEnds DEF f
  <2>5. EntryAt(cs, q) /\ C!Guards = {}
    BY <1>4, <1>13, NoneReached DEF f, q
  <2>6. View(l[R], FALSE) = SubSeq(View(L[R], FALSE), 1, cs[q].base)
    <3> DEFINE no == FALSE
    <3>1. Deep(l[R], no) = b /\ Deep(L[R], no) = Len(L[R].ci)
      BY <1>9, <1>11, <1>12 DEF Deep
    <3>2. Sees(l[R], no) /\ Sees(L[R], no)
      BY <1>3, <1>5, <1>11, <1>12 DEF Sees
    <3> HIDE DEF no
    <3>3. b \in 0..Deep(L[R], no)
      BY <1>6, <3>1 DEF b
    <3>4. ASSUME NEW i \in 1..b
          PROVE  Label(l[R].ci[i]) = Label(L[R].ci[i]) /\ (i \in l[R].open <=> i \in L[R].open)
      <4>1. l[R].ci[i] = L[R].ci[i]
        BY <1>9, <1>11, <1>12 DEF b
      <4>2. i <= b
        BY <1>8 DEF b
      <4>3. i \in l[R].open <=> i \in L[R].open
        BY <1>10, <1>11, <1>12, <4>2 DEF Closed, b
      <4>4. QED
        BY <4>1, <4>3
    <3>5. Less(L[R], no, l[R], no, b)
      BY <3>1, <3>2, <3>3, <3>4 DEF Less
    <3>6. View(l[R], no) = SubSeq(View(L[R], no), 1, b)
      BY <3>5, ViewLess
    <3>7. QED
      BY <3>6 DEF no, b, f
  <2>7. ~Ready(l[R], FALSE)
    BY <1>11, <1>12 DEF Ready
  <2>8. Failed(l, w, q)
    BY <1>1, <1>2, <1>4, <1>12, <2>1, <2>4, <2>5, <2>6, <2>7 DEF Failed, w
  <2>9. QED
    BY <2>8, FailedNext
<1>14. CASE f.k # "host"
  <2> DEFINE g == [d EXCEPT ![b].stat = TRUE]
             z == [y EXCEPT !.ci = g]
  <2>1. f.k = "pcall" /\ L' = [l EXCEPT ![R].ci[b].stat = TRUE] /\ cs' = w
    BY <1>1, <1>14
  <2>2. Reached(b)
    BY <1>4, <2>1, PCallReached DEF f, q
  <2>3. b > 0 /\ b \in 1..b
    BY <1>8, <2>2 DEF Reached
  <2> HIDE DEF l, b
  <2>4. L' = [l EXCEPT ![R] = z]
    BY <1>11, <1>12, <2>1
  <2>5. /\ g \in Seq(Infos) /\ Len(g) = b /\ g[b].stat
        /\ \A i \in 1..b : /\ g[i] = d[i] \/ i = b
                           /\ g[i].fn = d[i].fn /\ g[i].reentry = d[i].reentry
                           /\ g[i].ypcall = d[i].ypcall /\ g[i].h = d[i].h
    BY <1>9, <2>3, MarkedInfo
  <2> HIDE DEF g
  <2>6. /\ z \in State /\ z.ci = g /\ z.open = o /\ z.status = "ok" /\ z.started
    BY <1>11, <2>5 DEF State
  <2> HIDE DEF z
  <2>7. L'[R] = z /\ \A u \in Threads : u # R => L'[u] = L[u]
    <3>1. L' \in [Threads -> State] /\ L'[R] = z /\ \A u \in Threads : u # R => L'[u] = l[u]
      BY <1>3, <1>12, <2>4, <2>6, Updated
    <3>2. QED
      BY <1>12, <3>1
  <2>8. Acts(cs') = Acts(cs)
    <3>1. /\ cs \in Seq(Frames) /\ q \in Nat /\ cs[q].k \notin Starts
          /\ \A i \in q + 1..Len(cs) : cs[i].k \notin Starts
      <4>1. cs[q].k \notin Starts
        BY <2>1 DEF f, Starts
      <4>2. QED
        BY <1>2, <1>4, <4>1, Here, CatcherHere DEF q
    <3> DEFINE n == q - 1
    <3>2. n \in 0..Len(cs) /\ \A i \in n + 1..Len(cs) : i = q \/ i \in q + 1..Len(cs)
      BY <1>6, <3>1
    <3> HIDE DEF n
    <3>3. Acts(SubSeq(cs, 1, n)) = Acts(cs)
      BY <3>1, <3>2, ActsCut
    <3>4. QED
      BY <2>1, <3>3 DEF w, n
  <2>9. CatchesIn(b)
    <3>1. \A i \in 1..b : i # b => L'[R].ci[i] = L[R].ci[i]
      BY <1>9, <2>5, <2>6, <2>7 DEF b
    <3>2. L'[R].open = Closed(L[R].open, b)
      BY <1>10, <2>6, <2>7 DEF b
    <3>3. QED
      BY <1>1, <1>4, <1>5, <2>2, <2>5, <2>6, <2>7, <2>8, <3>1, <3>2 DEF CatchesIn
  <2>10. QED
    BY <1>7, <2>9, CaughtNext
<1>15. QED
  BY <1>13, <1>14

\* A coroutine recovers in its marked call.
LEMMA RecoversNext ==
    ASSUME CoInv, Recover
    PROVE  C!Next
<1> DEFINE q == Catcher
           f == cs[q]
           w == SubSeq(cs, 1, q)
           c == L[R].ci
           p == Max(Marked(R))
           g == SubSeq(c, 1, p)
           d == [g EXCEPT ![p].stat = TRUE]
           o == Closed(L[R].open, p)
           y == [L[R] EXCEPT !.ci = d, !.nny = 0, !.errfunc = c[p].h, !.nCcalls = f.ncc, !.open = o]
<1>1. /\ ctl = "error" /\ f.k = "resume" /\ cs' = w /\ Marked(R) # {} /\ ok' = TRUE
      /\ L' = [L EXCEPT ![R] = Recovered(L[R], p, f.ncc)]
  BY DEF Recover
<1>2. World(L, cs, ctl) /\ cs # <<>>
  BY <1>1 DEF CoInv, World
<1>3. /\ R \in Threads /\ Runs(cs, R) /\ L \in [Threads -> State] /\ L[R] \in State
      /\ c \in Seq(Infos) /\ cs \in Seq(Frames) /\ Len(c) \in Nat
  BY <1>2, Here
<1>4. L[R].status = "ok" /\ L[R].started
  BY <1>1, <1>2, <1>3, RunnerFacts
<1>5. World(L', cs', ctl') /\ ctl' # "yield"
  BY RecoverStep
<1>6. /\ q \in 1..Len(cs) /\ f \in Frames /\ f.k \in Tries
  BY <1>2, CatcherFacts
<1>7. Reached(p)
  BY <1>1, MarkedReached
<1>8. Recovered(L[R], p, f.ncc) = y
  BY DEF Recovered
<1>9. Acts(w) = Acts(cs)
  <2>1. \A i \in q + 1..Len(cs) : cs[i].k \notin Starts
    BY <1>1, CatcherHere
  <2>2. q \in 0..Len(cs)
    BY <1>6
  <2> HIDE DEF q
  <2>3. QED
    BY <1>3, <2>1, <2>2, ActsCut
<1> HIDE DEF q, p
<1>10. p \in 1..Len(c) /\ p > 0 /\ p \in 1..p
  <2>1. p \in 1..Len(c)
    BY <1>7 DEF Reached
  <2>2. QED
    BY <1>3, <2>1
<1>11. /\ g \in Seq(Infos) /\ Len(g) = p /\ (\A i \in 1..p : g[i] = c[i])
       /\ o \in SUBSET Nat /\ (\A i \in o : i \in L[R].open /\ i <= p)
  <2>1. L[R].open \in SUBSET Nat /\ p \in 0..Len(c)
    BY <1>3, <1>10 DEF State
  <2>2. QED
    BY <1>3, <2>1, FirstCalls
<1>12. o = Closed(L[R].open, p)
  OBVIOUS
<1> HIDE DEF g, o
<1>13. /\ d \in Seq(Infos) /\ Len(d) = p /\ d[p].stat
       /\ \A i \in 1..p : /\ d[i] = g[i] \/ i = p
                          /\ d[i].fn = g[i].fn /\ d[i].reentry = g[i].reentry
                          /\ d[i].ypcall = g[i].ypcall /\ d[i].h = g[i].h
  BY <1>10, <1>11, MarkedInfo
<1>14. f.ncc \in Counts /\ c[p].h \in Nat
  <2>1. c[p] \in Infos
    BY <1>3, <1>10
  <2>2. c[p].h \in Nat
    BY <2>1 DEF Infos
  <2> HIDE DEF f, c
  <2>3. f.ncc \in Counts
    BY <1>6, FrameTypes
  <2>4. QED
    BY <2>2, <2>3
<1> HIDE DEF d, f, w
<1>15. /\ y \in State /\ y.ci = d /\ y.open = o /\ y.status = "ok" /\ y.started
  <2> DEFINE e == c[p].h
             n == f.ncc
             x == L[R]
  <2>1. Recovery(x, y, d, e, n, o)
    BY <1>3, <1>11, <1>13, <1>14 DEF f, Recovery
  <2> HIDE DEF x, e, n, y
  <2>2. /\ y \in State /\ y.ci = d /\ y.errfunc = e /\ y.open = o
        /\ y.status = x.status /\ y.started = x.started
    BY <2>1, RecoveredState
  <2>3. QED
    BY <1>4, <2>2 DEF x
<1> HIDE DEF y
<1>16. L'[R] = y /\ \A u \in Threads : u # R => L'[u] = L[u]
  BY <1>1, <1>3, <1>8, <1>15, Updated
<1>17. CatchesIn(p)
  <2>1. \A i \in 1..p : i # p => L'[R].ci[i] = L[R].ci[i]
    BY <1>11, <1>13, <1>15, <1>16
  <2>2. L'[R].open = Closed(L[R].open, p) /\ Len(L'[R].ci) = p /\ L'[R].ci[p].stat
    BY <1>12, <1>13, <1>15, <1>16
  <2>3. L'[R].status = L[R].status /\ L'[R].started = L[R].started
    <3>1. L[R].started \in BOOLEAN /\ y.started \in BOOLEAN
      BY <1>3, <1>15 DEF State
    <3>2. QED
      BY <1>4, <1>15, <1>16, <3>1
  <2>4. Acts(cs') = Acts(cs)
    BY <1>1, <1>9
  <2>5. QED
    BY <1>1, <1>7, <1>16, <2>1, <2>2, <2>3, <2>4 DEF CatchesIn
<1>18. QED
  BY <1>5, <1>17, CaughtNext

-----------------------------------------------------------------------------
(* Coroutines die and have yielded                                         *)

\* A coroutine that nothing in it protects ends with the error.
LEMMA DiesNext ==
    ASSUME CoInv, Dies, ctl' # "raisemain"
    PROVE  C!Next
<1> DEFINE q == Catcher
           f == cs[q]
           n == Count(f.ncc - 1)
           w == SubSeq(cs, 1, q - 1)
           y == [L[R] EXCEPT !.status = "error", !.nny = f.nny, !.nCcalls = n]
           l == [L EXCEPT ![R] = y]
<1>1. /\ ctl = "error" /\ f.k = "resume" /\ ok' = TRUE /\ Marked(R) = {}
      /\ Fail([L EXCEPT ![R].status = "error", ![R].nny = f.nny, ![R].nCcalls = n], w)
  BY DEF Dies
<1>2. World(L, cs, ctl) /\ cs # <<>>
  BY <1>1 DEF CoInv, World
<1>3. R \in Threads /\ Runs(cs, R) /\ L \in [Threads -> State] /\ L[R] \in State
  BY <1>2, Here
<1>4. L[R].started
  BY <1>2, <1>3, RunnerFacts
<1>5. /\ q \in 1..Len(cs) /\ f \in Frames /\ f.k \in Tries /\ f.t = R
      /\ \A i \in q..Len(cs) : cs[i].t = R
  BY <1>2, CatcherFacts
<1>6. EntryAt(cs, q) /\ C!Guards = {} /\ f.base = 0 /\ Stack(L[R].ci, cs, R, TRUE)
  <2>1. EntryAt(cs, q) /\ C!Guards = {}
    BY <1>1, NoneReached
  <2>2. Stack(L[R].ci, cs, R, TRUE)
    BY <1>1, GuardsHere
  <2>3. q \in Mine(cs, R)
    BY <1>5 DEF Mine
  <2>4. f.base = 0
    BY <1>1, <2>2, <2>3 DEF Stack, FramesOk, ResumesOk
  <2>5. QED
    BY <2>1, <2>2, <2>4
<1> HIDE DEF q
<1>7. f.nny \in Int /\ n \in Counts
  <2>1. f.nny \in Int /\ f.ncc \in Counts
    BY <1>5, FrameTypes
  <2> HIDE DEF f
  <2>2. f.ncc \in Nat
    BY <2>1, CountTypes
  <2>3. f.ncc - 1 \in Int
    BY <2>2
  <2>4. QED
    BY <2>1, <2>3, CountTypes
<1> HIDE DEF n, f
<1>8. y \in State /\ y.status = "error" /\ y.started
  BY <1>3, <1>4, <1>7 DEF State
<1>9. [L EXCEPT ![R].status = "error", ![R].nny = f.nny, ![R].nCcalls = n] = l
  BY <1>3
<1>10. Fail(l, w)
  BY <1>1, <1>9
<1> HIDE DEF w, y
<1>11. l \in [Threads -> State] /\ l[R] = y /\ \A u \in Threads : u # R => l[u] = L[u]
  BY <1>3, <1>8, Updated
<1> HIDE DEF l
<1>12. R # Main /\ Mine(w, R) = {}
  BY <1>1, <1>2, <1>3, <1>5, ResumeEnds DEF f, w
<1>13. Good(y, w, R, FALSE, FALSE)
  BY <1>8, <1>12 DEF Good, Status
<1>14. Ends(L, cs, l, w, R, q)
  BY <1>5, <1>11, <1>13 DEF Ends, w
<1>15. Waiting(l, w)
  BY <1>2, <1>3, <1>14, EndWaits
<1>16. View(l[R], FALSE) = SubSeq(View(L[R], FALSE), 1, cs[q].base)
  <2> DEFINE v == View(L[R], FALSE)
  <2>1. v \in Seq(Shows)
    BY <1>3, ViewFacts
  <2> HIDE DEF v
  <2>2. SubSeq(v, 1, 0) = <<>>
    BY <2>1
  <2>3. View(l[R], FALSE) = <<>>
    BY <1>8, <1>11 DEF View
  <2>4. QED
    BY <1>6, <2>2, <2>3 DEF v, f
<1>17. ~Ready(l[R], FALSE)
  BY <1>8, <1>11 DEF Ready
<1>18. Failed(l, w, q)
  BY <1>1, <1>2, <1>6, <1>10, <1>11, <1>15, <1>16, <1>17 DEF Failed, w
<1>19. QED
  BY <1>18, FailedNext

\* A yield has reached the resume of its coroutine.
LEMMA YieldedNext ==
    ASSUME CoInv, CatchYield
    PROVE  C!Next
<1> DEFINE q == Catcher
           f == cs[q]
           n == Count(f.ncc - 1)
           w == SubSeq(cs, 1, q - 1)
           c == L[R].ci
           m == Len(c)
           y == [L[R] EXCEPT !.nny = f.nny, !.nCcalls = n]
           yes == TRUE
           no == FALSE
<1>1. /\ ctl = "yield" /\ f.k = "resume" /\ cs' = w /\ ctl' = "run" /\ ok' = TRUE
      /\ L' = [L EXCEPT ![R].nny = f.nny, ![R].nCcalls = n]
  BY DEF CatchYield
<1>2. World(L, cs, ctl) /\ cs # <<>>
  BY <1>1 DEF CoInv, World
<1>3. /\ R \in Threads /\ Runs(cs, R) /\ L \in [Threads -> State] /\ L[R] \in State /\ c \in Seq(Infos)
      /\ cs \in Seq(Frames) /\ Len(cs) \in Nat
  BY <1>2, Here
<1>4. L[R].status = "yield" /\ Stack(c, cs, R, TRUE) /\ OpenOk(c, L[R].open)
  <2>1. (ctl # "run") = TRUE
    BY <1>1
  <2>2. /\ L[R].status = "yield" /\ Stack(c, cs, R, ctl # "run") /\ OpenOk(c, L[R].open)
    BY <1>1, <1>2, <1>3, RunnerFacts
  <2>3. QED
    BY <2>1, <2>2
<1>5. /\ q \in 1..Len(cs) /\ q \in Nat /\ f \in Frames /\ f.k \in Tries /\ f.t = R /\ q \in Mine(cs, R)
      /\ \A i \in q..Len(cs) : cs[i].t = R
      /\ \A i \in q + 1..Len(cs) : cs[i].k = "call"
  BY <1>2, CatcherFacts
<1>6. /\ \A p : ~HasPin(cs, R, p) /\ ~HasTry(cs, R, p)
      /\ m > 0 /\ c[m].fn = "yield" /\ m \in Nat /\ m \in 1..m
  <2>1. /\ \A p : ~HasPin(cs, R, p) /\ ~HasTry(cs, R, p)
        /\ m > 0 /\ c[m].fn = "yield"
    BY <1>1, <1>2, YieldReaches
  <2>2. m \in Nat
    BY <1>3
  <2> HIDE DEF m
  <2>3. m \in 1..m
    BY <2>1, <2>2
  <2>4. QED
    BY <2>1, <2>2, <2>3
<1>7. World(L', cs', ctl') /\ ctl' # "yield"
  BY <1>1, CatchYieldStep
<1> HIDE DEF q
<1>8. f.nny \in Int /\ n \in Counts
  <2>1. f.nny \in Int /\ f.ncc \in Counts
    BY <1>5, FrameTypes
  <2> HIDE DEF f
  <2>2. f.ncc \in Nat
    BY <2>1, CountTypes
  <2>3. f.ncc - 1 \in Int
    BY <2>2
  <2>4. QED
    BY <2>1, <2>3, CountTypes
<1>9. R # Main /\ f.base = 0
  BY <1>1, <1>4, <1>5 DEF Stack, FramesOk, ResumesOk
<1>10. EntryAt(cs, q)
  <2>1. q..Len(cs) = {q} \cup q + 1..Len(cs)
    BY <1>5
  <2>2. R = cs[Len(cs)].t
    BY DEF R
  <2>3. QED
    BY <1>1, <1>5, <2>1, <2>2 DEF EntryAt, Starts
<1> HIDE DEF n, f, w
<1>11. /\ y \in State /\ y.ci = c /\ y.open = L[R].open /\ y.status = "yield"
  BY <1>3, <1>4, <1>8 DEF State
<1>12. L' = [L EXCEPT ![R] = y]
  BY <1>1, <1>3
<1> HIDE DEF y
<1>13. L' \in [Threads -> State] /\ L'[R] = y /\ \A u \in Threads : u # R => L'[u] = L[u]
  BY <1>3, <1>11, <1>12, Updated
<1>14. /\ Activations = Acts(cs) /\ Activations # <<>> /\ C!T = R /\ C!Now.base = 0
       /\ calls[R] = View(L[R], yes)
  <2>1. (ctl = "yield") = yes
    BY <1>1
  <2> HIDE DEF yes
  <2>2. /\ Activations = Acts(cs) /\ Activations # <<>> /\ C!T = R
        /\ calls[R] = View(L[R], ctl = "yield")
        /\ \A r : EntryAt(cs, r) => C!Now.base = cs[r].base
    BY <1>2, Where
  <2>3. QED
    BY <1>9, <1>10, <2>1, <2>2 DEF f
<1> HIDE DEF c
<1> DEFINE k == m - 1
<1>15. k \in Nat /\ k \in 1..m /\ k > 0 /\ c[k].fn \in Functions /\ \A i \in 1..k : i \in 1..m /\ i < m
  <2>1. c[m].fn \notin Functions
    BY <1>6 DEF Functions
  <2>2. m > 1 /\ c[m - 1].fn \in Functions
    BY <1>4, <1>6, <2>1 DEF Stack, InfosOk, OnLua
  <2> HIDE DEF m
  <2>3. k \in Nat /\ k \in 1..m /\ k > 0 /\ \A i \in 1..k : i \in 1..m /\ i < m
    BY <1>6, <2>2
  <2>4. QED
    BY <2>2, <2>3
<1>16. Deep(L[R], yes) = k /\ Deep(y, no) = m /\ m # 0 /\ k + 1 = m
  BY <1>6, <1>11 DEF Deep, c
<1>17. Len(L[R].ci) # 0 /\ Sees(L[R], yes) /\ Sees(y, no)
  BY <1>3, <1>4, <1>6, <1>11 DEF Sees, c
<1> HIDE DEF yes, no, m, k
<1>18. \A i \in 1..m : Label(c[i]) = c[i].fn \/ Label(c[i]) = "caught"
  BY DEF Label
<1>19. Label(c[m]) = "yield" /\ Label(c[k]) = c[k].fn
  <2>1. \A i \in 1..m : c[i].stat => c[i].fn \in Protected
    BY <1>4 DEF Stack, InfosOk, Flagged, m, c
  <2>2. QED
    BY <1>6, <1>15, <2>1 DEF Label, Protected, Functions
<1>20. /\ calls[R] \in Seq(Shows) /\ Len(calls[R]) = k /\ \A i \in 1..k : calls[R][i].fn = Label(c[i])
  <2>1. yes \in BOOLEAN /\ (yes => Len(L[R].ci) # 0) /\ L[R].status # "error"
    BY <1>17 DEF Sees
  <2>2. /\ View(L[R], yes) \in Seq(Shows) /\ Len(View(L[R], yes)) = Deep(L[R], yes)
        /\ \A i \in 1..Deep(L[R], yes) : View(L[R], yes)[i].fn = Label(L[R].ci[i])
    BY <1>3, <2>1, ViewFacts
  <2>3. QED
    BY <1>14, <1>16, <2>2 DEF c
<1>21. C!InLua
  <2>1. C!Running
    BY <1>14, <1>15, <1>20 DEF C!Running, calls
  <2>2. k \in 1..k
    BY <1>15
  <2>3. C!Top = c[k].fn
    BY <1>14, <1>19, <1>20, <2>2 DEF C!Top, calls
  <2>4. QED
    BY <1>15, <2>1, <2>3 DEF C!InLua, C!Functions, Functions
<1>22. \A i \in 1..Len(calls[C!T]) : calls[C!T][i].fn \notin C!Barriers
  <2> SUFFICES ASSUME NEW i \in 1..k, Label(c[i]) \in C!Barriers
               PROVE  FALSE
    BY <1>14, <1>20
  <2>1. i \in 1..m /\ i < m
    BY <1>15
  <2>2. c[i].fn \in {"sort", "host", "handler"}
    BY <1>18, <2>1 DEF C!Barriers
  <2>3. c[i].fn # "host"
    BY <1>4, <1>9, <2>1 DEF Stack, InfosOk, HostOnTop, m, c
  <2>4. c[i].fn # "handler"
    BY <1>4, <1>6, <2>1 DEF Stack, Owned, PinsOwned, m, c
  <2>5. c[i].fn # "sort"
    BY <1>4, <1>6, <2>1 DEF Stack, Owned, PinsOwned, m, c
  <2>6. QED
    BY <2>2, <2>3, <2>4, <2>5
<1> DEFINE fns == <<"yield">>
<1>23. fns \in Seq(Names) /\ Len(fns) = 1 /\ fns[1] = "yield" /\ \A i \in 1..Len(fns) : i = 1
  <2>1. "yield" \in Names
    BY DEF Names, CFunctions
  <2>2. QED
    BY <2>1
<1> HIDE DEF fns
<1>24. More(L[R], yes, y, no, fns)
  <2>1. \A i \in 1..k : /\ Label(y.ci[i]) = Label(L[R].ci[i]) /\ (i \in y.open <=> i \in L[R].open)
    BY <1>11 DEF c
  <2>2. m \notin y.open
    <3>1. c[m].fn \notin Functions
      BY <1>6 DEF Functions
    <3>2. QED
      BY <1>4, <1>11, <3>1 DEF OpenOk
  <2>3. \A i \in 1..Len(fns) : Label(y.ci[k + i]) = fns[i] /\ k + i \notin y.open
    BY <1>11, <1>16, <1>19, <1>23, <2>2
  <2>4. Deep(y, no) = Deep(L[R], yes) + Len(fns)
    BY <1>16, <1>23
  <2>5. QED
    BY <1>16, <1>17, <1>23, <2>1, <2>3, <2>4 DEF More
<1>25. View(y, no) = calls[R] \o Shown(fns)
  <2>1. View(y, no) = View(L[R], yes) \o Shown(fns)
    BY <1>24, ViewMore
  <2>2. QED
    BY <1>14, <2>1
<1>26. Yields(cs, ctl, R) = TRUE /\ \A u \in Threads : u # R => Yields(cs, ctl, u) = FALSE
  <2>1. \A u : Yields(cs, ctl, u) <=> ctl = "yield" /\ u = R
    BY <1>2, RunnerIs DEF R
  <2>2. \A u : Yields(cs, ctl, u) \in BOOLEAN
    BY DEF Yields
  <2>3. QED
    BY <1>1, <2>1, <2>2
<1>27. /\ calls = [u \in Threads |-> View(L[u], Yields(cs, ctl, u))]
       /\ ready = {u \in Threads : Ready(L[u], Yields(cs, ctl, u))}
  BY <1>2, MappedNow
<1>28. /\ calls' = [u \in Threads |-> View(L'[u], FALSE)] /\ Activations' = Acts(cs')
       /\ ready' = {u \in Threads : Ready(L'[u], FALSE)}
  BY <1>7, PlainThen
<1>29. calls' = [calls EXCEPT ![C!T] = calls[C!T] \o Shown(<<"yield">>)]
  <2>1. \A u \in Threads : View(L'[u], FALSE) = IF u = R THEN calls[R] \o Shown(fns) ELSE calls[u]
    <3>1. ASSUME NEW u \in Threads, u # R
          PROVE  View(L'[u], FALSE) = calls[u]
      <4>1. Yields(cs, ctl, u) = FALSE /\ L'[u] = L[u]
        BY <1>13, <1>26, <3>1
      <4>2. calls[u] = View(L[u], Yields(cs, ctl, u))
        BY <1>27
      <4>3. QED
        BY <4>1, <4>2
    <3>2. View(L'[R], FALSE) = calls[R] \o Shown(fns)
      BY <1>13, <1>25 DEF no
    <3>3. QED
      BY <3>1, <3>2
  <2>2. calls' = [u \in Threads |-> IF u = R THEN calls[R] \o Shown(fns) ELSE calls[u]]
    BY <1>28, <2>1
  <2>3. calls = [u \in Threads |-> calls[u]]
    BY DEF calls
  <2>4. calls' = [calls EXCEPT ![R] = calls[R] \o Shown(fns)]
    BY <2>2, <2>3
  <2>5. QED
    BY Zenon, <1>14, <2>4 DEF fns
<1>30. ready' = ready \cup {C!T}
  <2>1. \A u \in Threads : u # R => (Ready(L'[u], FALSE) <=> Ready(L[u], Yields(cs, ctl, u)))
    BY <1>13, <1>26
  <2>2. Ready(L'[R], FALSE)
    BY <1>11, <1>13 DEF Ready
  <2>3. QED
    BY <1>3, <1>14, <1>27, <1>28, <2>1, <2>2
<1>31. Activations' = SubSeq(Activations, 1, Len(Activations) - 1)
  BY <1>1, <1>3, <1>10, <1>14, <1>28, LastActs DEF w
<1>32. QED
  BY <1>1, <1>9, <1>14, <1>21, <1>22, <1>29, <1>30, <1>31, YieldNext

-----------------------------------------------------------------------------
(* The refinement                                                          *)

\* The initial states map to initial states.
LEMMA ImplementsInit ==
    ASSUME Init
    PROVE  C!Init /\ OkInv
<1>1. L = [t \in Threads |-> NewState] /\ cs = <<>> /\ ctl = "run" /\ ok = TRUE
  BY DEF Init
<1>2. CoInv
  BY CoInit
<1>3. /\ calls = [u \in Threads |-> View(L[u], FALSE)] /\ Activations = Acts(cs)
      /\ ready = {u \in Threads : Ready(L[u], FALSE)}
  BY <1>1, <1>2, PlainNow
<1>4. NewState \in State /\ NewState.ci = <<>> /\ ~Ready(NewState, FALSE)
  BY NewThread DEF Ready, NewState
<1>5. View(NewState, FALSE) = <<>>
  BY <1>4, EmptyView
<1>6. \A u \in Threads : View(L[u], FALSE) = <<>> /\ ~Ready(L[u], FALSE)
  BY <1>1, <1>4, <1>5
<1>7. calls = [u \in Threads |-> <<>>] /\ ready = {}
  BY <1>3, <1>6
<1>8. Activations = <<>>
  <2>1. Len(cs) = 0
    BY <1>1
  <2>2. QED
    BY <1>3, <2>1, ActsOfNone
<1>9. C!Init
  BY <1>1, <1>7, <1>8 DEF C!Init, calls, ready
<1>10. QED
  BY <1>1, <1>9 DEF OkInv

\* Every step maps to an abstract step or to none.
LEMMA ImplementsNext ==
    ASSUME CoInv, OkInv, [Next]_vars, ctl' # "raisemain"
    PROVE  [C!Next]_(C!vars)
<1>1. CASE UNCHANGED vars
  <2>1. L' = L /\ cs' = cs /\ ctl' = ctl /\ ok' = ok
    BY <1>1 DEF vars
  <2>2. R' = R
    BY <2>1 DEF R
  <2>3. \A t : Calls(t)' = Calls(t)
    BY <2>1, <2>2 DEF Calls, Size
  <2>4. Activations' = Activations
    BY <2>1 DEF Activations
  <2>5. calls' = calls /\ ready' = ready
    BY <2>1, <2>2, <2>3 DEF calls, ready
  <2>6. C!vars' = C!vars
    BY <2>1, <2>4, <2>5 DEF C!vars, calls, ready
  <2>7. QED
    BY <2>6
<1>2. CASE Next
  <2>1. CASE CallLua \/ CallTM \/ FindUpval \/ TailCall \/ LuaReturns \/ Raise \/ HostCall \/ Yield
    BY <2>1, CallLuaNext, CallTMNext, OpenNext, LuaReturnsNext, RaiseNext, HostCallNext, YieldsNext
  <2>2. CASE \E fn \in {"dofile", "sort"} : CallK(fn)
    BY <2>2, CallKNext
  <2>3. CASE \E fn \in {"pcall", "xpcall"} : PCallK(fn)
    BY <2>3, PCallKNext
  <2>4. CASE \E c \in Threads : CoCreate(c) \/ \E f \in {"resume", "wrap"} : Resume(c, f) \/ ResumeFails(c, f)
    <3>1. PICK c \in Threads : CoCreate(c) \/ \E f \in {"resume", "wrap"} : Resume(c, f) \/ ResumeFails(c, f)
      BY <2>4
    <3>2. CASE CoCreate(c)
      BY <3>2, CreatesNext
    <3>3. CASE \E f \in {"resume", "wrap"} : Resume(c, f) \/ ResumeFails(c, f)
      <4>1. PICK f \in {"resume", "wrap"} : Resume(c, f) \/ ResumeFails(c, f)
        BY <3>3
      <4>2. C!Next
        BY <4>1, ResumesNext, RefuseNext
      <4>3. QED
        BY <4>2
    <3>4. QED
      BY <3>1, <3>2, <3>3
  <2>5. CASE CReturns \/ TryReturns \/ ErrorMsg
    BY <2>5, CReturnsNext, TryReturnsNext, ErrorMsgNext
  <2>6. CASE CatchPCall \/ CatchYield \/ Recover \/ Dies
    BY <2>6, CatchesNext, YieldedNext, RecoversNext, DiesNext
  <2>7. QED
    BY <1>2, <2>1, <2>2, <2>3, <2>4, <2>5, <2>6, NoneForeign DEF Next, Step, HostRaises
<1>3. QED
  BY <1>1, <1>2

Until == ~foreign => CoInv /\ OkInv

\* An error that the host raises on the main thread while another one runs is noted.
LEMMA Noted ==
    ASSUME Until, [Next]_vars, ~foreign'
    PROVE  CoInv /\ OkInv /\ ctl' # "raisemain"
<1>1. ~foreign
  BY DEF Next, vars
<1>2. CoInv /\ OkInv
  BY <1>1 DEF Until
<1>3. CASE Next
  BY <1>2, <1>3 DEF Next
<1>4. CASE UNCHANGED vars
  BY <1>2, <1>4 DEF vars, CoInv, World, Modes
<1>5. QED
  BY <1>2, <1>3, <1>4

\* The C stack with its frames, its saved handlers and its marks implements the
\* abstract coroutines (ldo.cpp): every step before the first error that the host
\* raises on the main thread, in a coroutine, is a step of theirs or none.
THEOREM CallsImplementCoroutines == Spec => ImplementsCoroutines
<1>1. Init => C!Init /\ Until
  BY ImplementsInit, CoInit DEF Until
<1>2. Until /\ [Next]_vars => Until'
  <2> SUFFICES ASSUME Until, [Next]_vars, ~foreign'
               PROVE  CoInv' /\ OkInv'
    BY DEF Until
  <2>1. QED
    BY Noted, CoNext, OkAfter
<1>3. Until /\ [Next]_vars => [foreign' \/ C!Next]_(C!vars)
  <2> SUFFICES ASSUME Until, [Next]_vars, ~foreign'
               PROVE  [C!Next]_(C!vars)
    OBVIOUS
  <2>1. QED
    BY Noted, ImplementsNext
<1>4. QED
  BY <1>1, <1>2, <1>3, PTL DEF Spec, ImplementsCoroutines
=============================================================================

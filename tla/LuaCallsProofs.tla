--------------------------- MODULE LuaCallsProofs ---------------------------
(***************************************************************************)
(* Proofs about LuaCalls, for any set of threads and any limits.           *)
(*                                                                         *)
(* First, nny of every thread is the number of calls on the C stack that a *)
(* yield of it cannot cross.  Then, the state of every thread keeps its    *)
(* types.  That errfunc is a call its thread still has is no matter of one *)
(* step: luaD_pcall, lua_resume and finishCcall put back values that were  *)
(* saved many steps before.  The invariant, CoInv, says how the C frames   *)
(* of a thread and its CallInfos fit together, and for each place that     *)
(* saves a handler that it is still that of the innermost protected call   *)
(* there.  Each action is shown to preserve it, after lemmas about the few *)
(* things an action does: to push a call, to cut calls and frames, to      *)
(* switch to another thread and back.                                      *)
(***************************************************************************)
EXTENDS LuaCalls, FiniteSetTheorems, WellFoundedInduction, TLAPS

\* What a frame of the C stack is, as far as nny goes.
IsCall(f) == f.k = "call" /\ f.allow \in BOOLEAN /\ {"k", "t", "allow"} \subseteq DOMAIN f
IsTry(f)  == f.k \in Tries /\ {"k", "t", "nny"} \subseteq DOMAIN f

-----------------------------------------------------------------------------
(* The C stack as a sequence *)

\* The activations of a thread t on the C stack s, the calls above the last of
\* them that a yield cannot cross, and what nny of t has to be.
Started(s, t) == {i \in 1..Len(s) : s[i].k = "resume" /\ s[i].t = t}
Pins(s, t) == {i \in 1..Len(s) : /\ s[i].k = "call" /\ s[i].t = t /\ ~s[i].allow
                                 /\ \A j \in Started(s, t) : i > j}
Pinned(s, t) == (IF Started(s, t) = {} THEN 1 ELSE 0) + Cardinality(Pins(s, t))

LEMMA PinsFinite ==
    ASSUME NEW S, NEW s \in Seq(S), NEW t
    PROVE  IsFiniteSet(Pins(s, t)) /\ Cardinality(Pins(s, t)) \in Nat /\ Pinned(s, t) \in Nat
<1>1. IsFiniteSet(1..Len(s))
  BY FS_Interval
<1>2. Pins(s, t) \in SUBSET (1..Len(s))
  BY DEF Pins
<1>3. IsFiniteSet(Pins(s, t))
  BY <1>1, <1>2, FS_Subset
<1>4. Cardinality(Pins(s, t)) \in Nat
  BY <1>3, FS_CardinalityType
<1>5. QED
  BY <1>3, <1>4 DEF Pinned

LEMMA AppendFrame ==
    ASSUME NEW S, NEW s \in Seq(S), NEW f
    PROVE  /\ Append(s, f) \in Seq(S \cup {f})
           /\ Len(Append(s, f)) = Len(s) + 1 /\ Append(s, f)[Len(s) + 1] = f
           /\ \A i \in 1..Len(s) : Append(s, f)[i] = s[i]
           /\ 1..Len(Append(s, f)) = 1..Len(s) \cup {Len(s) + 1}
           /\ Len(s) + 1 \notin 1..Len(s)
OBVIOUS

LEMMA PinnedOfCall ==
    ASSUME NEW S, NEW s \in Seq(S), NEW f, IsCall(f), NEW t
    PROVE  Pinned(Append(s, f), t) = Pinned(s, t) + (IF f.t = t /\ ~f.allow THEN 1 ELSE 0)
<1> DEFINE u == Append(s, f)
           n == Len(s) + 1
<1>1. f.k = "call" /\ f.allow \in BOOLEAN
  BY DEF IsCall
<1>2. /\ 1..Len(u) = 1..Len(s) \cup {n} /\ u[n] = f /\ n \notin 1..Len(s)
      /\ \A i \in 1..Len(s) : u[i] = s[i]
  BY <1>1, AppendFrame
<1>3. n \in Nat /\ \A i \in 1..Len(s) : n > i
  OBVIOUS
<1> HIDE DEF u, n
<1>4. Started(u, t) = Started(s, t)
  BY <1>1, <1>2 DEF Started
<1>5. \A j \in Started(s, t) : n > j
  BY <1>3 DEF Started
<1>6. CASE f.t = t /\ ~f.allow
  <2>1. Pins(u, t) = Pins(s, t) \cup {n}
    BY <1>1, <1>2, <1>4, <1>5, <1>6 DEF Pins
  <2>2. n \notin Pins(s, t)
    BY <1>2 DEF Pins
  <2>3. Cardinality(Pins(u, t)) = Cardinality(Pins(s, t)) + 1
    BY <2>1, <2>2, PinsFinite, FS_AddElement
  <2>4. QED
    BY <1>4, <1>6, <2>3, PinsFinite DEF Pinned, u
<1>7. CASE ~(f.t = t /\ ~f.allow)
  <2>1. Pins(u, t) = Pins(s, t)
    BY <1>1, <1>2, <1>4, <1>7 DEF Pins
  <2>2. QED
    BY <1>4, <1>7, <2>1, PinsFinite DEF Pinned, u
<1>8. QED
  BY <1>6, <1>7

LEMMA PinnedOfTry ==
    ASSUME NEW S, NEW s \in Seq(S), NEW f, IsTry(f), NEW t
    PROVE  Pinned(Append(s, f), t) = IF f.k = "resume" /\ f.t = t THEN 0 ELSE Pinned(s, t)
<1> DEFINE u == Append(s, f)
           n == Len(s) + 1
<1>1. f.k \in Tries /\ f.k # "call"
  BY DEF IsTry, Tries
<1>2. /\ 1..Len(u) = 1..Len(s) \cup {n} /\ u[n] = f /\ n \notin 1..Len(s)
      /\ \A i \in 1..Len(s) : u[i] = s[i]
  BY <1>1, AppendFrame
<1>3. n \in Nat /\ \A i \in 1..Len(s) : ~(i > n)
  OBVIOUS
<1> HIDE DEF u, n
<1>4. CASE f.k = "resume" /\ f.t = t
  <2>1. n \in Started(u, t)
    BY <1>2, <1>4 DEF Started
  <2>2. Pins(u, t) = {}
    BY <1>1, <1>2, <1>3, <2>1 DEF Pins
  <2>3. QED
    BY <1>4, <2>1, <2>2, FS_EmptySet DEF Pinned, u
<1>5. CASE ~(f.k = "resume" /\ f.t = t)
  <2>1. Started(u, t) = Started(s, t)
    BY <1>2, <1>5 DEF Started
  <2>2. Pins(u, t) = Pins(s, t)
    BY <1>1, <1>2, <2>1 DEF Pins
  <2>3. QED
    BY <1>5, <2>1, <2>2 DEF Pinned, u
<1>6. QED
  BY <1>4, <1>5

LEMMA CutFacts ==
    ASSUME NEW S, NEW s \in Seq(S), NEW n \in 0..Len(s)
    PROVE  /\ SubSeq(s, 1, n) \in Seq(S) /\ Len(SubSeq(s, 1, n)) = n
           /\ \A i \in 1..n : SubSeq(s, 1, n)[i] = s[i]
           /\ \A i \in 0..n : SubSeq(SubSeq(s, 1, n), 1, i) = SubSeq(s, 1, i)
<1>1. /\ SubSeq(s, 1, n) \in Seq(S) /\ Len(SubSeq(s, 1, n)) = n
      /\ \A i \in 1..n : SubSeq(s, 1, n)[i] = s[i]
  OBVIOUS
<1>2. ASSUME NEW i \in 0..n
      PROVE  SubSeq(SubSeq(s, 1, n), 1, i) = SubSeq(s, 1, i)
  BY <1>1
<1>3. QED
  BY <1>1, <1>2

\* Cutting off the frames of other threads.
LEMMA PinnedOfCut ==
    ASSUME NEW S, NEW s \in Seq(S), NEW n \in 0..Len(s), NEW t,
           \A i \in n + 1..Len(s) : s[i].t # t
    PROVE  Pinned(SubSeq(s, 1, n), t) = Pinned(s, t)
<1> DEFINE u == SubSeq(s, 1, n)
<1>1. Len(u) = n /\ \A i \in 1..n : u[i] = s[i]
  BY CutFacts
<1>2. 1..n \subseteq 1..Len(s) /\ \A i \in 1..Len(s) : i \in 1..n \/ i \in n + 1..Len(s)
  OBVIOUS
<1> HIDE DEF u
<1>3. Started(u, t) = Started(s, t)
  BY <1>1, <1>2 DEF Started
<1>4. Pins(u, t) = Pins(s, t)
  BY <1>1, <1>2, <1>3 DEF Pins
<1>5. QED
  BY <1>3, <1>4 DEF Pinned, u

\* A protected activation has saved what nny has to be below it; and above the last
\* of them there are only calls of its thread, or of its thread and then of the main
\* thread, which handles an error of the other one.
SavedExact(s) == \A i \in 1..Len(s) :
    s[i].k \in Tries => s[i].nny = Pinned(SubSeq(s, 1, i - 1), s[i].t)
CatchesAt(s, n, m) == /\ s[m].k \in Tries /\ s[m].t = s[n].t
                      /\ \A j \in m + 1..n : s[j].k = "call" /\ s[j].t = s[n].t
Groups(s, n, m) == /\ s[m].k \in Tries /\ \A j \in m + 1..n : s[j].k = "call"
                   /\ s[n].t # Main => s[m].t = s[n].t /\ \A j \in m + 1..n : s[j].t = s[n].t
Grouped(s) == \A n \in 1..Len(s) : \E m \in 1..n : Groups(s, n, m)

LEMMA ShapeOfCut ==
    ASSUME NEW S, NEW s \in Seq(S), SavedExact(s), Grouped(s), NEW n \in 0..Len(s)
    PROVE  SavedExact(SubSeq(s, 1, n)) /\ Grouped(SubSeq(s, 1, n))
<1> DEFINE u == SubSeq(s, 1, n)
<1>1. /\ Len(u) = n /\ \A i \in 1..n : u[i] = s[i]
      /\ \A i \in 0..n : SubSeq(u, 1, i) = SubSeq(s, 1, i)
  BY CutFacts
<1>2. n \in Nat /\ \A i \in 1..n : i - 1 \in 0..n /\ i \in 1..Len(s)
  OBVIOUS
<1> HIDE DEF u
<1>3. SavedExact(u)
  BY <1>1, <1>2 DEF SavedExact
<1>4. Grouped(u)
  <2> SUFFICES ASSUME NEW i \in 1..n
               PROVE  \E m \in 1..i : Groups(u, i, m)
    BY <1>1 DEF Grouped
  <2>1. PICK m \in 1..i : Groups(s, i, m)
    BY <1>2 DEF Grouped
  <2>2. m \in 1..n /\ \A j \in m + 1..i : j \in 1..n
    BY <1>2
  <2>3. Groups(u, i, m)
    BY <1>1, <2>1, <2>2 DEF Groups
  <2>4. QED
    BY <2>3
<1>5. QED
  BY <1>3, <1>4 DEF u

LEMMA ShapeOfCall ==
    ASSUME NEW S, NEW s \in Seq(S), SavedExact(s), Grouped(s), s # <<>>,
           NEW f, IsCall(f), f.t \in {s[Len(s)].t, Main}
    PROVE  SavedExact(Append(s, f)) /\ Grouped(Append(s, f))
<1> DEFINE u == Append(s, f)
           n == Len(s) + 1
<1>1. f.k = "call" /\ f.k \notin Tries
  BY DEF IsCall, Tries
<1>2. /\ 1..Len(u) = 1..Len(s) \cup {n} /\ u[n] = f /\ Len(u) = n
      /\ \A i \in 1..Len(s) : u[i] = s[i]
  BY <1>1, AppendFrame
<1>3. \A i \in 0..Len(s) : SubSeq(u, 1, i) = SubSeq(s, 1, i)
  BY <1>1
<1>4. n \in Nat /\ \A i \in 1..Len(s) : i - 1 \in 0..Len(s)
  OBVIOUS
<1>5. Len(s) \in 1..Len(s) /\ n = Len(s) + 1
  OBVIOUS
<1> HIDE DEF u, n
<1>6. SavedExact(u)
  BY <1>1, <1>2, <1>3, <1>4 DEF SavedExact
<1>7. Grouped(u)
  <2> SUFFICES ASSUME NEW i \in 1..Len(u)
               PROVE  \E m \in 1..i : Groups(u, i, m)
    BY DEF Grouped
  <2>1. CASE i \in 1..Len(s)
    <3>1. PICK m \in 1..i : Groups(s, i, m)
      BY <2>1 DEF Grouped
    <3>2. m \in 1..Len(s) /\ \A j \in m + 1..i : j \in 1..Len(s)
      BY <2>1
    <3>3. Groups(u, i, m)
      BY <1>2, <2>1, <3>1, <3>2 DEF Groups
    <3>4. QED
      BY <3>3
  <2>2. CASE i = n
    <3>1. PICK m \in 1..Len(s) : Groups(s, Len(s), m)
      BY <1>5 DEF Grouped
    <3>2. m \in 1..i /\ \A j \in m + 1..i : (j \in m + 1..Len(s) /\ j \in 1..Len(s)) \/ j = n
      BY <1>5, <2>2
    <3>3. Groups(u, i, m)
      BY <1>1, <1>2, <1>5, <2>2, <3>1, <3>2 DEF Groups
    <3>4. QED
      BY <3>2, <3>3
  <2>3. QED
    BY <1>2, <2>1, <2>2
<1>8. QED
  BY <1>6, <1>7 DEF u

LEMMA ShapeOfTry ==
    ASSUME NEW S, NEW s \in Seq(S), SavedExact(s), Grouped(s),
           NEW f, IsTry(f), f.nny = Pinned(s, f.t)
    PROVE  SavedExact(Append(s, f)) /\ Grouped(Append(s, f))
<1> DEFINE u == Append(s, f)
           n == Len(s) + 1
<1>1. f.k \in Tries
  BY DEF IsTry
<1>2. /\ 1..Len(u) = 1..Len(s) \cup {n} /\ u[n] = f /\ Len(u) = n
      /\ \A i \in 1..Len(s) : u[i] = s[i]
  BY <1>1, AppendFrame
<1>3. \A i \in 0..Len(s) : SubSeq(u, 1, i) = SubSeq(s, 1, i)
  BY <1>1
<1>4. n \in Nat /\ n - 1 = Len(s) /\ \A i \in 1..Len(s) : i - 1 \in 0..Len(s)
  OBVIOUS
<1>5. SubSeq(u, 1, n - 1) = s
  BY <1>3, <1>4
<1> HIDE DEF u, n
<1>6. SavedExact(u)
  BY <1>2, <1>3, <1>4, <1>5 DEF SavedExact
<1>7. Grouped(u)
  <2> SUFFICES ASSUME NEW i \in 1..Len(u)
               PROVE  \E m \in 1..i : Groups(u, i, m)
    BY DEF Grouped
  <2>1. CASE i \in 1..Len(s)
    <3>1. PICK m \in 1..i : Groups(s, i, m)
      BY <2>1 DEF Grouped
    <3>2. m \in 1..Len(s) /\ \A j \in m + 1..i : j \in 1..Len(s)
      BY <2>1
    <3>3. Groups(u, i, m)
      BY <1>2, <2>1, <3>1, <3>2 DEF Groups
    <3>4. QED
      BY <3>3
  <2>2. CASE i = n
    <3>1. Groups(u, i, i) /\ i \in 1..i
      BY <1>1, <1>2, <1>4, <2>2 DEF Groups
    <3>2. QED
      BY <3>1
  <2>3. QED
    BY <1>2, <2>1, <2>2
<1>8. QED
  BY <1>6, <1>7 DEF u

-----------------------------------------------------------------------------
(* The invariant *)

IsStack(s) == /\ \E S : s \in Seq(S)
              /\ \A i \in 1..Len(s) : s[i].t \in Threads /\ (IsCall(s[i]) \/ IsTry(s[i]))
Shape(l) == DOMAIN l = Threads /\ \A t \in Threads : "nny" \in DOMAIN l[t]

\* nny is exact for the C stack s, now and wherever an error will put it back.
Exact(l, s) == /\ Shape(l) /\ IsStack(s) /\ SavedExact(s) /\ Grouped(s)
               /\ \A t \in Threads : l[t].nny = Pinned(s, t)

CountInv == Exact(L, cs) /\ (ctl # "run" => cs # <<>>)

LEMMA StackOfAppend ==
    ASSUME NEW s, IsStack(s), NEW f, f.t \in Threads, IsCall(f) \/ IsTry(f)
    PROVE  IsStack(Append(s, f))
<1>1. PICK S : s \in Seq(S)
  BY DEF IsStack
<1>2. /\ Append(s, f) \in Seq(S \cup {f})
      /\ 1..Len(Append(s, f)) = 1..Len(s) \cup {Len(s) + 1}
      /\ Append(s, f)[Len(s) + 1] = f /\ \A i \in 1..Len(s) : Append(s, f)[i] = s[i]
  BY <1>1, AppendFrame
<1>3. QED
  BY <1>2 DEF IsStack

LEMMA StackOfCut ==
    ASSUME NEW s, IsStack(s), NEW n \in 0..Len(s)
    PROVE  IsStack(SubSeq(s, 1, n))
<1>1. PICK S : s \in Seq(S)
  BY DEF IsStack
<1>2. /\ SubSeq(s, 1, n) \in Seq(S) /\ Len(SubSeq(s, 1, n)) = n
      /\ \A i \in 1..n : SubSeq(s, 1, n)[i] = s[i]
  BY <1>1, CutFacts
<1>3. 1..n \subseteq 1..Len(s)
  BY <1>1
<1>4. QED
  BY <1>2, <1>3 DEF IsStack

\* A call of the thread that runs, or of the main thread.
LEMMA ExactCall ==
    ASSUME NEW l, NEW s, Exact(l, s), s # <<>>,
           NEW f, IsCall(f), f.t \in {s[Len(s)].t, Main},
           NEW m, Shape(m),
           \A t \in Threads : m[t].nny = l[t].nny + (IF f.t = t /\ ~f.allow THEN 1 ELSE 0)
    PROVE  Exact(m, Append(s, f))
<1>1. PICK S : s \in Seq(S)
  BY DEF Exact, IsStack
<1>2. Len(s) \in 1..Len(s)
  BY <1>1
<1>3. f.t \in Threads
  BY <1>2, MainAssumption DEF Exact, IsStack
<1>4. IsStack(Append(s, f))
  BY <1>3, StackOfAppend DEF Exact
<1>5. SavedExact(Append(s, f)) /\ Grouped(Append(s, f))
  BY <1>1, ShapeOfCall DEF Exact
<1>6. ASSUME NEW t \in Threads
      PROVE  m[t].nny = Pinned(Append(s, f), t)
  <2>1. Pinned(Append(s, f), t) = Pinned(s, t) + (IF f.t = t /\ ~f.allow THEN 1 ELSE 0)
    BY <1>1, PinnedOfCall
  <2>2. l[t].nny = Pinned(s, t)
    BY DEF Exact
  <2>3. QED
    BY <2>1, <2>2
<1>7. QED
  BY <1>4, <1>5, <1>6 DEF Exact

\* A protected activation, of the thread that runs or another.
LEMMA ExactTry ==
    ASSUME NEW l, NEW s, Exact(l, s),
           NEW f, IsTry(f), f.t \in Threads, f.nny = l[f.t].nny,
           NEW m, Shape(m),
           \A t \in Threads : m[t].nny = IF f.k = "resume" /\ f.t = t THEN 0 ELSE l[t].nny
    PROVE  Exact(m, Append(s, f))
<1>1. PICK S : s \in Seq(S)
  BY DEF Exact, IsStack
<1>2. IsStack(Append(s, f))
  BY StackOfAppend DEF Exact
<1>3. f.nny = Pinned(s, f.t)
  BY DEF Exact
<1>4. SavedExact(Append(s, f)) /\ Grouped(Append(s, f))
  BY <1>1, <1>3, ShapeOfTry DEF Exact
<1>5. ASSUME NEW t \in Threads
      PROVE  m[t].nny = Pinned(Append(s, f), t)
  <2>1. Pinned(Append(s, f), t) = IF f.k = "resume" /\ f.t = t THEN 0 ELSE Pinned(s, t)
    BY <1>1, PinnedOfTry
  <2>2. l[t].nny = Pinned(s, t)
    BY DEF Exact
  <2>3. QED
    BY <2>1, <2>2
<1>6. QED
  BY <1>2, <1>4, <1>5 DEF Exact

\* The return of a call.
LEMMA ExactPop ==
    ASSUME NEW l, NEW s, Exact(l, s), s # <<>>, IsCall(s[Len(s)]),
           NEW m, Shape(m),
           \A t \in Threads : m[t].nny =
               l[t].nny - (IF s[Len(s)].t = t /\ ~s[Len(s)].allow THEN 1 ELSE 0)
    PROVE  Exact(m, Front(s))
<1> DEFINE n == Len(s) - 1
           f == s[Len(s)]
           u == SubSeq(s, 1, n)
<1>1. PICK S : s \in Seq(S)
  BY DEF Exact, IsStack
<1>2. n \in 0..Len(s) /\ n \in Nat
  BY <1>1
<1>3. u \in Seq(S) /\ Append(u, f) = s
  BY <1>1
<1>4. Front(s) = u
  BY DEF Front
<1>5. IsCall(f)
  OBVIOUS
<1> HIDE DEF n, f
<1>6. IsStack(u) /\ SavedExact(u) /\ Grouped(u)
  BY <1>1, <1>2, StackOfCut, ShapeOfCut DEF Exact
<1> HIDE DEF u
<1>7. ASSUME NEW t \in Threads
      PROVE  m[t].nny = Pinned(u, t)
  <2>1. Pinned(Append(u, f), t) = Pinned(u, t) + (IF f.t = t /\ ~f.allow THEN 1 ELSE 0)
    BY <1>3, <1>5, PinnedOfCall
  <2>2. l[t].nny = Pinned(s, t)
    BY DEF Exact
  <2>3. Pinned(u, t) \in Nat
    BY <1>3, PinsFinite
  <2>4. m[t].nny = l[t].nny - (IF f.t = t /\ ~f.allow THEN 1 ELSE 0)
    BY DEF f
  <2>5. QED
    BY <1>3, <2>1, <2>2, <2>3, <2>4
<1>8. QED
  BY <1>4, <1>6, <1>7 DEF Exact

\* Below a call there is the activation it belongs to.
LEMMA CallBelow ==
    ASSUME NEW l, NEW s, Exact(l, s), s # <<>>, IsCall(s[Len(s)])
    PROVE  Front(s) # <<>>
<1>1. PICK S : s \in Seq(S)
  BY DEF Exact, IsStack
<1>2. Len(s) \in 1..Len(s)
  BY <1>1
<1>3. PICK m \in 1..Len(s) : Groups(s, Len(s), m)
  BY <1>2 DEF Exact, Grouped
<1>4. m # Len(s)
  BY <1>3 DEF Groups, IsCall, Tries
<1>5. Len(s) - 1 \in 1..Len(s)
  BY <1>1, <1>2, <1>4
<1> DEFINE u == SubSeq(s, 1, Len(s) - 1)
<1>6. Len(u) = Len(s) - 1
  BY <1>1, <1>5, CutFacts
<1>7. Len(u) # 0
  BY <1>1, <1>5, <1>6
<1>8. Front(s) = u
  BY DEF Front
<1> HIDE DEF u
<1>9. u # <<>>
  BY <1>7
<1>10. QED
  BY <1>8, <1>9

\* A jump or a return to the innermost protected activation of the thread that runs.
LEMMA ExactCut ==
    ASSUME NEW l, NEW s, Exact(l, s), s # <<>>,
           NEW c \in 1..Len(s), CatchesAt(s, Len(s), c),
           NEW m, Shape(m),
           \A t \in Threads : m[t].nny = IF s[Len(s)].t = t THEN s[c].nny ELSE l[t].nny
    PROVE  Exact(m, SubSeq(s, 1, c - 1))
<1> DEFINE n == c - 1
           u == SubSeq(s, 1, n)
<1>1. PICK S : s \in Seq(S)
  BY DEF Exact, IsStack
<1>2. n \in 0..Len(s)
  BY <1>1
<1>3. \A i \in n + 1..Len(s) : s[i].t = s[Len(s)].t
  <2>1. \A i \in n + 1..Len(s) : i = c \/ i \in c + 1..Len(s)
    BY <1>1
  <2>2. QED
    BY <2>1 DEF CatchesAt
<1> HIDE DEF n
<1>4. IsStack(u) /\ SavedExact(u) /\ Grouped(u)
  BY <1>1, <1>2, StackOfCut, ShapeOfCut DEF Exact
<1>5. ASSUME NEW t \in Threads
      PROVE  m[t].nny = Pinned(u, t)
  <2>1. CASE s[Len(s)].t = t
    <3>1. s[c].nny = Pinned(u, s[c].t)
      BY DEF Exact, SavedExact, CatchesAt, n
    <3>2. s[c].t = t
      BY <2>1 DEF CatchesAt
    <3>3. QED
      BY <2>1, <3>1, <3>2
  <2>2. CASE s[Len(s)].t # t
    <3>1. Pinned(u, t) = Pinned(s, t)
      BY <1>1, <1>2, <1>3, <2>2, PinnedOfCut
    <3>2. QED
      BY <2>2, <3>1 DEF Exact
  <2>3. QED
    BY <2>1, <2>2
<1>6. QED
  BY <1>4, <1>5 DEF Exact, n

\* The same, and the activation goes on: a coroutine that recovers.
LEMMA ExactRecover ==
    ASSUME NEW l, NEW s, Exact(l, s), s # <<>>,
           NEW c \in 1..Len(s), CatchesAt(s, Len(s), c), s[c].k = "resume",
           NEW m, Shape(m),
           \A t \in Threads : m[t].nny = IF s[Len(s)].t = t THEN 0 ELSE l[t].nny
    PROVE  Exact(m, SubSeq(s, 1, c))
<1> DEFINE u == SubSeq(s, 1, c - 1)
           f == s[c]
           i == [t \in Threads |->
                   [nny |-> IF s[Len(s)].t = t THEN f.nny ELSE l[t].nny]]
<1>1. PICK S : s \in Seq(S)
  BY DEF Exact, IsStack
<1>2. Append(u, f) = SubSeq(s, 1, c)
  BY <1>1
<1>3. f.t = s[Len(s)].t /\ f.t \in Threads /\ IsTry(f)
  <2>1. f.t = s[Len(s)].t /\ f.k # "call"
    BY DEF CatchesAt
  <2>2. f.t \in Threads /\ (IsCall(f) \/ IsTry(f))
    BY DEF Exact, IsStack
  <2>3. QED
    BY <2>1, <2>2 DEF IsCall
<1>4. /\ Shape(i)
      /\ \A t \in Threads : i[t].nny = IF s[Len(s)].t = t THEN f.nny ELSE l[t].nny
  BY DEF Shape
<1> HIDE DEF i
<1>5. Exact(i, u)
  BY <1>4, ExactCut
<1> HIDE DEF u, f
<1>6. f.nny = i[f.t].nny
  BY <1>3, <1>4
<1>7. \A t \in Threads : m[t].nny = IF f.k = "resume" /\ f.t = t THEN 0 ELSE i[t].nny
  BY <1>3, <1>4 DEF f
<1>8. Exact(m, Append(u, f))
  BY <1>3, <1>5, <1>6, <1>7, ExactTry
<1>9. QED
  BY <1>2, <1>8

\* The status of a luaD_rawrunprotected is set.
LEMMA ExactMarked ==
    ASSUME NEW l, NEW s, Exact(l, s), NEW n
    PROVE  LET z == [s EXCEPT ![n].failed = TRUE]
           IN /\ Exact(l, z) /\ Len(z) = Len(s)
              /\ \A i \in 1..Len(s) : z[i].k = s[i].k /\ z[i].t = s[i].t
                                      /\ (s[i].k \in Tries => z[i].nny = s[i].nny)
<1> DEFINE z == [s EXCEPT ![n].failed = TRUE]
<1>1. PICK S : s \in Seq(S)
  BY DEF Exact, IsStack
<1>2. /\ Len(s) \in Nat /\ DOMAIN s = 1..Len(s)
      /\ \A i \in 1..Len(s) : s[i].t \in Threads /\ (IsCall(s[i]) \/ IsTry(s[i]))
  BY <1>1 DEF Exact, IsStack
<1> DEFINE y == [i \in 1..Len(s) |-> IF i = n THEN [s[n] EXCEPT !.failed = TRUE] ELSE s[i]]
<1>3. z = y
  BY <1>2
<1>4. \A i \in 1..Len(s) : y[i] = IF i = n THEN [s[n] EXCEPT !.failed = TRUE] ELSE s[i]
  OBVIOUS
<1>5. \E T : y \in Seq(T)
  <2> DEFINE T == {y[i] : i \in 1..Len(s)}
  <2>1. y \in [1..Len(s) -> T]
    OBVIOUS
  <2>2. y \in Seq(T)
    BY <1>2, <2>1
  <2>3. QED
    BY <2>2
<1>6. Len(y) = Len(s)
  BY <1>2
<1> HIDE DEF y, z
<1>7. ASSUME NEW i \in 1..Len(s)
      PROVE  /\ y[i].k = s[i].k /\ y[i].t = s[i].t
             /\ s[i].k \in Tries => y[i].nny = s[i].nny
             /\ s[i].k = "call" => y[i].allow = s[i].allow
             /\ IsCall(y[i]) \/ IsTry(y[i])
  <2>1. CASE i # n
    BY <1>2, <1>4, <2>1
  <2>2. CASE i = n
    <3> DEFINE f == s[i]
    <3>1. y[i] = [f EXCEPT !.failed = TRUE]
      BY <1>4, <2>2
    <3>2. IsCall(f) \/ IsTry(f)
      BY <1>2
    <3> HIDE DEF f
    <3>3. CASE IsCall(f)
      <4>1. /\ y[i].k = f.k /\ y[i].t = f.t /\ y[i].allow = f.allow
            /\ DOMAIN y[i] = DOMAIN f /\ f.k \notin Tries
        BY <3>1, <3>3 DEF IsCall, Tries
      <4>2. QED
        BY <3>3, <4>1 DEF f, IsCall
    <3>4. CASE IsTry(f)
      <4>1. /\ y[i].k = f.k /\ y[i].t = f.t /\ y[i].nny = f.nny
            /\ DOMAIN y[i] = DOMAIN f /\ f.k # "call"
        BY <3>1, <3>4 DEF IsTry, Tries
      <4>2. QED
        BY <3>4, <4>1 DEF f, IsTry
    <3>5. QED
      BY <3>2, <3>3, <3>4
  <2>3. QED
    BY <2>1, <2>2
<1>8. IsStack(y)
  BY <1>2, <1>5, <1>6, <1>7 DEF IsStack
<1>9. ASSUME NEW m \in 0..Len(s), NEW t
      PROVE  Pinned(SubSeq(y, 1, m), t) = Pinned(SubSeq(s, 1, m), t)
  <2> DEFINE u == SubSeq(s, 1, m)
             v == SubSeq(y, 1, m)
  <2>1. Len(u) = m /\ \A i \in 1..m : u[i] = s[i]
    BY <1>1, CutFacts
  <2>2. Len(v) = m /\ \A i \in 1..m : v[i] = y[i]
    BY <1>5, <1>6, CutFacts
  <2>3. 1..m \subseteq 1..Len(s)
    BY <1>2
  <2> HIDE DEF u, v
  <2>4. Started(v, t) = Started(u, t)
    BY <1>7, <2>1, <2>2, <2>3 DEF Started
  <2>5. Pins(v, t) = Pins(u, t)
    BY <1>7, <2>1, <2>2, <2>3, <2>4 DEF Pins
  <2>6. QED
    BY <2>4, <2>5 DEF Pinned, u, v
<1>10. SavedExact(y)
  <2> SUFFICES ASSUME NEW i \in 1..Len(s), y[i].k \in Tries
               PROVE  y[i].nny = Pinned(SubSeq(y, 1, i - 1), y[i].t)
    BY <1>6 DEF SavedExact
  <2>1. s[i].k \in Tries /\ y[i].nny = s[i].nny /\ y[i].t = s[i].t
    BY <1>7
  <2>2. s[i].nny = Pinned(SubSeq(s, 1, i - 1), s[i].t)
    BY <2>1 DEF Exact, SavedExact
  <2>3. i - 1 \in 0..Len(s)
    BY <1>2
  <2>4. QED
    BY <1>9, <2>1, <2>2, <2>3
<1>11. Grouped(y)
  <2> SUFFICES ASSUME NEW i \in 1..Len(s)
               PROVE  \E m \in 1..i : Groups(y, i, m)
    BY <1>6 DEF Grouped
  <2>1. PICK m \in 1..i : Groups(s, i, m)
    BY DEF Exact, Grouped
  <2>2. m \in 1..Len(s) /\ \A j \in m + 1..i : j \in 1..Len(s)
    BY <1>2
  <2>3. Groups(y, i, m)
    BY <1>7, <2>1, <2>2 DEF Groups
  <2>4. QED
    BY <2>3
<1>12. \A t \in Threads : Pinned(y, t) = Pinned(s, t)
  <2>1. SubSeq(y, 1, Len(s)) = y /\ SubSeq(s, 1, Len(s)) = s /\ Len(s) \in 0..Len(s)
    BY <1>1, <1>2, <1>5, <1>6
  <2>2. QED
    BY <1>9, <2>1
<1>13. Exact(l, y)
  BY <1>8, <1>10, <1>11, <1>12 DEF Exact
<1>14. QED
  BY <1>3, <1>6, <1>7, <1>13 DEF z

-----------------------------------------------------------------------------
(* What the steps do to nny *)

\* m is l with nny of every thread as it was.
Same(l, m) == Shape(m) /\ \A t \in Threads : m[t].nny = l[t].nny

LEMMA ExactSame ==
    ASSUME NEW l, NEW s, Exact(l, s), NEW m, Same(l, m)
    PROVE  Exact(m, s)
BY DEF Exact, Same

LEMMA SamePush ==
    ASSUME Shape(L), NEW t, NEW info
    PROVE  Same(L, Push(t, info))
BY DEF Same, Shape, Push

LEMMA SameRelabel ==
    ASSUME NEW l, Shape(l), NEW t, NEW fn
    PROVE  Same(l, Relabel(l, t, fn))
BY DEF Same, Shape, Relabel

LEMMA FailKeeps ==
    ASSUME NEW l, NEW rest, Shape(l), Fail(l, rest)
    PROVE  cs' = rest /\ Same(l, L') /\ (ctl' # "run" => rest # <<>>)
<1>1. CASE rest = <<>>
  BY <1>1 DEF Fail, Same
<1>2. CASE rest # <<>>
  <2> DEFINE t == Last(rest).t
             fn == Last(l[t].ci).fn
  <2>1. cs' = rest
    BY DEF Fail
  <2>2. L' = l \/ \E g : L' = Relabel(l, t, g)
    BY <1>2 DEF Fail
  <2>3. Same(l, L')
    BY <2>2, SameRelabel DEF Same
  <2>4. QED
    BY <1>2, <2>1, <2>3
<1>3. QED
  BY <1>1, <1>2

LEMMA CallExact ==
    ASSUME NEW l, NEW s, Exact(l, s), s # <<>>, NEW t \in Threads, t \in {s[Len(s)].t, Main},
           NEW allow \in BOOLEAN, NEW fn, LuaDCall(t, l, s, allow, fn)
    PROVE  CountInv'
<1> DEFINE n == Count(l[t].nCcalls + 1)
           fails == n = MaxCCalls \/ n >= MaxCCalls + Reserve
           f == [k |-> "call", t |-> t, base |-> Len(l[t].ci), allow |-> allow \/ fails]
<1>1. cs' = Append(s, f)
  BY DEF LuaDCall
<1>2. IsCall(f) /\ f.t \in {s[Len(s)].t, Main} /\ f.t = t /\ f.allow = (allow \/ fails)
  BY DEF IsCall
<1>3. L' = [l EXCEPT ![t].nCcalls = n,
                     ![t].nny = IF allow \/ fails THEN @ ELSE @ + 1,
                     ![t].ci = IF fails THEN @ ELSE Append(@, Info(fn))]
  BY DEF LuaDCall
<1>4. Shape(l)
  BY DEF Exact
<1> HIDE DEF n, fails
<1>5. /\ Shape(L')
      /\ L'[t].nny = (IF allow \/ fails THEN l[t].nny ELSE l[t].nny + 1)
      /\ \A u \in Threads \ {t} : L'[u].nny = l[u].nny
  BY <1>3, <1>4, Zenon DEF Shape
<1>6. \A u \in Threads : l[u].nny \in Nat
  <2>1. PICK S : s \in Seq(S)
    BY DEF Exact, IsStack
  <2>2. QED
    BY <2>1, PinsFinite DEF Exact
<1> HIDE DEF f
<1>7. ASSUME NEW u \in Threads
      PROVE  L'[u].nny = l[u].nny + (IF f.t = u /\ ~f.allow THEN 1 ELSE 0)
  <2>1. l[u].nny \in Nat
    BY <1>6
  <2>2. CASE u = t
    <3>1. (f.allow => L'[t].nny = l[t].nny) /\ (~f.allow => L'[t].nny = l[t].nny + 1)
      BY <1>2, <1>5, Zenon
    <3>2. CASE f.allow
      BY <1>2, <2>1, <2>2, <3>1, <3>2
    <3>3. CASE ~f.allow
      BY <1>2, <2>1, <2>2, <3>1, <3>3
    <3>4. QED
      BY <3>2, <3>3
  <2>3. CASE u # t
    <3>1. L'[u].nny = l[u].nny /\ f.t # u
      BY <1>2, <1>5, <2>3
    <3>2. QED
      BY <2>1, <3>1
  <2>4. QED
    BY <2>2, <2>3
<1>8. Exact(L', cs')
  BY <1>1, <1>2, <1>5, <1>7, ExactCall
<1>9. cs' # <<>>
  <2>1. PICK S : s \in Seq(S)
    BY DEF Exact, IsStack
  <2>2. QED
    BY <1>1, <2>1
<1>10. QED
  BY <1>8, <1>9 DEF CountInv, Exact, Shape

LEMMA Innermost ==
    ASSUME NEW s, IsStack(s), s # <<>>
    PROVE  Len(s) \in 1..Len(s) /\ s[Len(s)].t \in Threads /\ Last(s) = s[Len(s)]
<1>1. PICK S : s \in Seq(S)
  BY DEF IsStack
<1>2. Len(s) \in 1..Len(s)
  BY <1>1
<1>3. QED
  BY <1>2 DEF IsStack, Last

\* The innermost protected activation is of the thread that runs, unless that is the
\* main thread, called to handle an error of another one.
LEMMA CatcherCatches ==
    ASSUME CountInv, cs # <<>>
    PROVE  /\ Catcher \in 1..Len(cs) /\ cs[Catcher].k \in Tries
           /\ \A i \in Catcher + 1..Len(cs) : cs[i].k = "call"
           /\ R # Main \/ cs[Catcher].t = R => CatchesAt(cs, Len(cs), Catcher)
<1> DEFINE T == {i \in 1..Len(cs) : cs[i].k \in Tries /\ cs[i].t \in Threads}
<1>1. PICK S : cs \in Seq(S)
  BY DEF CountInv, Exact, IsStack
<1>2. Len(cs) \in 1..Len(cs)
  BY <1>1
<1>3. PICK m \in 1..Len(cs) : Groups(cs, Len(cs), m)
  BY <1>2 DEF CountInv, Exact, Grouped
<1>4. m \in T
  BY <1>3 DEF Groups, CountInv, Exact, IsStack
<1>5. \A i \in T : i \in 1..Len(cs) /\ i \notin m + 1..Len(cs)
  BY <1>3 DEF Groups, Tries
<1>6. \A i \in T : i \in Int /\ m >= i
  BY <1>3, <1>5
<1> HIDE DEF T
<1>7. \A x \in T : (\A y \in T : x >= y) => x = m
  BY <1>3, <1>4, <1>6
<1>8. Max(T) = m
  BY <1>4, <1>6, <1>7 DEF Max
<1>9. Catcher = m
  BY <1>8 DEF Catcher, InnermostTry, T
<1>10. R # Main => CatchesAt(cs, Len(cs), m)
  BY <1>3 DEF Groups, CatchesAt, R
<1>11. ASSUME R = Main, cs[m].t = R, NEW j \in m + 1..Len(cs)
       PROVE  cs[j].k = "call" /\ cs[j].t = R
  <2>1. cs[j].k = "call" /\ j \in 1..Len(cs)
    BY <1>3 DEF Groups
  <2>2. SUFFICES ASSUME cs[j].t # Main PROVE FALSE
    BY <1>11, <2>1
  <2>3. PICK n \in 1..j : Groups(cs, j, n)
    BY <2>1 DEF CountInv, Exact, Grouped
  <2>4. cs[n].k \in Tries /\ cs[n].t = cs[j].t /\ n \in 1..Len(cs)
    BY <2>1, <2>2, <2>3 DEF Groups
  <2>5. n \notin m + 1..Len(cs)
    BY <1>3, <2>4 DEF Groups, Tries
  <2>6. n < m
    BY <1>11, <2>2, <2>4, <2>5
  <2>7. m \in n + 1..j
    BY <2>4, <2>6
  <2>8. cs[m].k = "call"
    BY <2>3, <2>7 DEF Groups
  <2>9. QED
    BY <1>3, <2>8 DEF Groups, Tries
<1>12. cs[m].t = R => CatchesAt(cs, Len(cs), m)
  <2>1. SUFFICES ASSUME cs[m].t = R, R = Main PROVE CatchesAt(cs, Len(cs), m)
    BY <1>10
  <2>2. QED
    BY <1>3, <1>11, <2>1 DEF CatchesAt, Groups, R
<1>13. QED
  BY <1>3, <1>9, <1>10, <1>12 DEF Groups

\* An error or a yield that the innermost protected activation catches.
LEMMA CutExact ==
    ASSUME CountInv, cs # <<>>, R # Main \/ cs[Catcher].t = R, NEW m, Shape(m),
           \A t \in Threads : m[t].nny = IF R = t THEN cs[Catcher].nny ELSE L[t].nny
    PROVE  Exact(m, SubSeq(cs, 1, Catcher - 1))
BY CatcherCatches, ExactCut DEF CountInv, R

-----------------------------------------------------------------------------
(* Every step keeps the invariant *)

LEMMA CountInit == Init => CountInv
<1> SUFFICES ASSUME Init PROVE CountInv
  OBVIOUS
<1>1. L = [t \in Threads |-> NewState] /\ cs = <<>> /\ ctl = "run"
  BY DEF Init
<1>2. Shape(L) /\ \A t \in Threads : L[t].nny = 1
  BY <1>1 DEF Shape, NewState
<1>3. cs \in Seq({}) /\ Len(cs) = 0
  BY <1>1
<1>4. IsStack(cs) /\ SavedExact(cs) /\ Grouped(cs)
  BY <1>3 DEF IsStack, SavedExact, Grouped
<1>5. ASSUME NEW t \in Threads
      PROVE  Pinned(cs, t) = 1
  <2>1. Started(cs, t) = {} /\ Pins(cs, t) = {}
    BY <1>3 DEF Started, Pins
  <2>2. QED
    BY <2>1, FS_EmptySet DEF Pinned
<1>6. QED
  BY <1>1, <1>2, <1>4, <1>5 DEF CountInv, Exact

\* The steps that leave the C stack alone.
LEMMA SameStep ==
    ASSUME CountInv, cs # <<>>, cs' = cs, Same(L, L')
    PROVE  CountInv'
BY ExactSame DEF CountInv, Exact, Shape, Same

LEMMA RunsHere ==
    ASSUME CountInv, cs # <<>>
    PROVE  R \in Threads /\ R = cs[Len(cs)].t /\ Last(cs) = cs[Len(cs)] /\ Shape(L)
BY Innermost DEF CountInv, Exact, R

LEMMA ProgramSteps ==
    ASSUME CountInv, CallLua \/ FindUpval \/ TailCall \/ Raise \/ HostRaises \/ Yield \/ CReturns
    PROVE  CountInv'
<1>1. cs # <<>> /\ cs' = cs
  BY DEF CallLua, FindUpval, TailCall, Raise, HostRaises, Yield, CReturns, InLua, InC
<1>2. Shape(L)
  BY <1>1, RunsHere
<1>3. CASE CallLua
  BY <1>2, <1>3, SamePush, <1>1, SameStep DEF CallLua
<1>4. CASE FindUpval
  <2>1. L' = [L EXCEPT ![R].open = @ \cup {Size(R)}]
    BY <1>4 DEF FindUpval
  <2>2. Same(L, L')
    BY <1>2, <2>1 DEF Same, Shape
  <2>3. QED
    BY <1>1, <2>2, SameStep
<1>5. CASE TailCall
  <2>1. L' = [L EXCEPT ![R].open = @ \ {Size(R)}]
    BY <1>5 DEF TailCall
  <2>2. Same(L, L')
    BY <1>2, <2>1 DEF Same, Shape
  <2>3. QED
    BY <1>1, <2>2, SameStep
<1>6. CASE Raise
  BY <1>2, <1>6, SamePush, <1>1, SameStep DEF Raise
<1>10. CASE HostRaises
  BY <1>2, <1>10, SamePush, <1>1, SameStep DEF HostRaises
<1>7. CASE Yield
  <2>1. CASE L' = Push(R, Info("raise"))
    BY <1>2, <2>1, SamePush, <1>1, SameStep
  <2>2. CASE L' = [Push(R, Info("yield")) EXCEPT ![R].status = "yield"]
    <3>1. Same(L, Push(R, Info("yield")))
      BY <1>2, SamePush
    <3>2. Same(L, L')
      BY <2>2, <3>1 DEF Same, Shape
    <3>3. QED
      BY <1>1, <3>2, SameStep
  <2>3. QED
    BY <1>7, <2>1, <2>2 DEF Yield
<1>8. CASE CReturns
  <2>1. L' = [L EXCEPT ![R].ci = Front(@), ![R].errfunc = IF Top.ypcall THEN Top.h ELSE @]
    BY <1>8 DEF CReturns
  <2>2. Same(L, L')
    BY <1>2, <2>1 DEF Same, Shape
  <2>3. QED
    BY <1>1, <2>2, SameStep
<1>9. QED
  BY <1>3, <1>4, <1>5, <1>6, <1>7, <1>8, <1>10

LEMMA CallSteps ==
    ASSUME CountInv, CallTM \/ (\E fn \in {"dofile", "sort"} : CallK(fn))
    PROVE  CountInv'
<1>1. cs # <<>>
  BY DEF CallTM, CallK, InLua
<1>2. R \in Threads /\ R = cs[Len(cs)].t /\ Shape(L) /\ Exact(L, cs)
  BY <1>1, RunsHere DEF CountInv
<1>3. CASE CallTM
  <2>1. LuaDCall(R, L, cs, TRUE, "lua")
    BY <1>3 DEF CallTM
  <2>2. QED
    BY <1>1, <1>2, <2>1, CallExact
<1>4. ASSUME NEW fn \in {"dofile", "sort"}, CallK(fn)
      PROVE  CountInv'
  <2> DEFINE l == Push(R, Info(fn))
             allow == fn = "dofile" /\ L[R].nny = 0
  <2>1. LuaDCall(R, l, cs, allow, "lua")
    BY <1>4 DEF CallK
  <2>2. Exact(l, cs)
    BY <1>2, SamePush, ExactSame
  <2>3. allow \in BOOLEAN
    OBVIOUS
  <2> HIDE DEF l, allow
  <2>4. QED
    BY <1>1, <1>2, <2>1, <2>2, <2>3, CallExact
<1>5. QED
  BY <1>3, <1>4

LEMMA TryIsTry ==
    ASSUME NEW kind \in Tries, NEW t, NEW base, NEW n
    PROVE  LET f == Try(kind, t, base, n)
           IN IsTry(f) /\ f.t = t /\ f.k = kind /\ f.nny = L[t].nny
BY DEF IsTry, Try

LEMMA AppendLast ==
    ASSUME NEW s, IsStack(s), NEW f
    PROVE  Append(s, f) # <<>> /\ Append(s, f)[Len(Append(s, f))] = f
<1>1. PICK S : s \in Seq(S)
  BY DEF IsStack
<1>2. QED
  BY <1>1

LEMMA ProtectedSteps ==
    ASSUME CountInv, \E fn \in {"pcall", "xpcall"} : PCallK(fn)
    PROVE  CountInv'
<1>1. PICK fn \in {"pcall", "xpcall"} : PCallK(fn)
  OBVIOUS
<1>2. cs # <<>>
  BY <1>1 DEF PCallK, InLua
<1>3. R \in Threads /\ R = cs[Len(cs)].t /\ Shape(L) /\ Exact(L, cs) /\ IsStack(cs)
  BY <1>2, RunsHere DEF CountInv, Exact
<1> DEFINE frame == Size(R) + 1
           handled(info) == [Push(R, info) EXCEPT ![R].errfunc = IF fn = "xpcall" THEN frame ELSE 0]
<1>4. ASSUME NEW info
      PROVE  Same(L, handled(info))
  <2>1. Same(L, Push(R, info))
    BY <1>3, SamePush
  <2>2. QED
    BY <2>1 DEF Same, Shape
<1>5. CASE L[R].nny > 0
  <2> DEFINE f == Try("pcall", R, frame, L[R].nCcalls)
             l == handled(Info(fn))
             s == Append(cs, f)
  <2>1. LuaDCall(R, l, s, FALSE, "lua")
    BY <1>1, <1>5 DEF PCallK
  <2>2. Same(L, l)
    BY <1>4
  <2>3. IsTry(f) /\ f.t = R /\ f.k = "pcall" /\ f.nny = L[R].nny
    BY TryIsTry DEF Tries
  <2> HIDE DEF f, l
  <2>4. \A t \in Threads : l[t].nny = IF f.k = "resume" /\ f.t = t THEN 0 ELSE L[t].nny
    BY <2>2, <2>3 DEF Same
  <2>5. Exact(l, s)
    BY <1>3, <2>2, <2>3, <2>4, ExactTry DEF Same
  <2>6. s # <<>> /\ s[Len(s)] = f
    BY <1>3, AppendLast
  <2> HIDE DEF s
  <2>7. QED
    BY <1>3, <2>1, <2>3, <2>5, <2>6, CallExact
<1>6. CASE ~(L[R].nny > 0)
  <2> DEFINE l == handled([Info(fn) EXCEPT !.ypcall = TRUE, !.h = L[R].errfunc])
  <2>1. LuaDCall(R, l, cs, TRUE, "lua")
    BY <1>1, <1>6 DEF PCallK
  <2>2. Same(L, l)
    BY <1>4
  <2> HIDE DEF l
  <2>3. Exact(l, cs)
    BY <1>3, <2>2, ExactSame
  <2>4. QED
    BY <1>2, <1>3, <2>1, <2>3, CallExact
<1>7. QED
  BY <1>5, <1>6

LEMMA HostSteps ==
    ASSUME CountInv, HostCall
    PROVE  CountInv'
<1> DEFINE l == IF cs = <<>> THEN L ELSE Push(R, Info("host"))
           m == [l EXCEPT ![Main].errfunc = 0]
           f == Try("host", Main, Len(l[Main].ci), L[Main].nCcalls)
           s == Append(cs, f)
<1>1. LuaDCall(Main, m, s, FALSE, "lua")
  BY DEF HostCall
<1>2. Shape(L) /\ Exact(L, cs) /\ IsStack(cs)
  BY DEF CountInv, Exact
<1>3. Same(L, l)
  <2>1. Same(L, L) /\ Same(L, Push(R, Info("host")))
    BY <1>2, SamePush DEF Same
  <2>2. QED
    BY <2>1
<1> HIDE DEF l
<1>4. Same(L, m)
  BY <1>3 DEF Same, Shape
<1>5. IsTry(f) /\ f.t = Main /\ f.k = "host" /\ f.nny = L[Main].nny
  BY TryIsTry DEF Tries
<1> HIDE DEF f, m
<1>6. \A t \in Threads : m[t].nny = IF f.k = "resume" /\ f.t = t THEN 0 ELSE L[t].nny
  BY <1>4, <1>5 DEF Same
<1>7. Exact(m, s)
  BY <1>2, <1>4, <1>5, <1>6, MainAssumption, ExactTry DEF Same
<1>8. s # <<>> /\ s[Len(s)] = f
  BY <1>2, AppendLast
<1> HIDE DEF s
<1>9. QED
  BY <1>1, <1>5, <1>7, <1>8, MainAssumption, CallExact

LEMMA ReturnSteps ==
    ASSUME CountInv, LuaReturns
    PROVE  CountInv'
<1> DEFINE call == Last(cs)
           popped == [L EXCEPT ![R].ci = Front(@), ![R].open = @ \ {Size(R)}]
<1>1. cs # <<>> /\ ctl = "run"
  BY DEF LuaReturns, InLua
<1>2. /\ R \in Threads /\ R = cs[Len(cs)].t /\ Shape(L) /\ Exact(L, cs) /\ IsStack(cs)
      /\ call = cs[Len(cs)]
  BY <1>1, RunsHere DEF CountInv, Exact
<1>3. Same(L, popped)
  BY <1>2 DEF Same, Shape
<1>4. CASE L' = popped /\ UNCHANGED <<cs, ctl>>
  BY <1>1, <1>3, <1>4, SameStep
<1>5. CASE call.k = "call" /\ cs' = Front(cs) /\ (ctl' # "run" => Top.fn = "handler")
           /\ L' = [popped EXCEPT ![R].nCcalls = Count(@ - 1),
                                  ![R].nny = IF call.allow THEN @ ELSE @ - 1]
  <2>1. IsCall(call)
    BY <1>2, <1>5, <1>1, Innermost DEF IsStack, IsTry, Tries
  <2> HIDE DEF call, popped
  <2>2. /\ Shape(L')
        /\ L'[R].nny = IF call.allow THEN popped[R].nny ELSE popped[R].nny - 1
        /\ \A t \in Threads \ {R} : L'[t].nny = popped[t].nny
    BY <1>2, <1>3, <1>5, Zenon DEF Shape, Same
  <2>3. \A t \in Threads : L[t].nny \in Nat
    <3>1. PICK S : cs \in Seq(S)
      BY <1>2 DEF IsStack
    <3>2. QED
      BY <1>2, <3>1, PinsFinite DEF Exact
  <2>4. ASSUME NEW t \in Threads
        PROVE  L'[t].nny = L[t].nny - (IF call.t = t /\ ~call.allow THEN 1 ELSE 0)
    <3>1. L[t].nny \in Nat /\ popped[t].nny = L[t].nny
      BY <1>3, <2>3 DEF Same
    <3>2. CASE t = R
      <4>1. call.t = t
        BY <1>2, <3>2
      <4>2. CASE call.allow
        BY <2>1, <2>2, <3>1, <3>2, <4>1, <4>2 DEF IsCall
      <4>3. CASE ~call.allow
        BY <2>1, <2>2, <3>1, <3>2, <4>1, <4>3 DEF IsCall
      <4>4. QED
        BY <4>2, <4>3
    <3>3. CASE t # R
      <4>1. call.t # t /\ L'[t].nny = popped[t].nny
        BY <1>2, <2>2, <3>3
      <4>2. QED
        BY <3>1, <4>1
    <3>4. QED
      BY <3>2, <3>3
  <2>5. IsCall(cs[Len(cs)]) /\ cs' = Front(cs)
        /\ \A t \in Threads : L'[t].nny =
               L[t].nny - (IF cs[Len(cs)].t = t /\ ~cs[Len(cs)].allow THEN 1 ELSE 0)
    BY <1>2, <1>5, <2>1, <2>4
  <2>6. Exact(L', Front(cs))
    BY <1>1, <1>2, <2>2, <2>5, ExactPop
  <2>7. Front(cs) # <<>>
    BY <1>1, <1>2, <2>5, CallBelow
  <2>8. QED
    BY <2>5, <2>6, <2>7 DEF CountInv, Exact, Shape
<1>6. QED
  BY <1>4, <1>5 DEF LuaReturns

LEMMA TryReturnSteps ==
    ASSUME CountInv, TryReturns
    PROVE  CountInv'
<1> DEFINE try == Last(cs)
<1>1. cs # <<>> /\ ctl' = "run" /\ cs' = Front(cs) /\ Done
  BY DEF TryReturns
<1>2. /\ R \in Threads /\ R = cs[Len(cs)].t /\ Shape(L) /\ Exact(L, cs) /\ IsStack(cs)
      /\ try = cs[Len(cs)] /\ Len(cs) \in 1..Len(cs)
  BY <1>1, RunsHere, Innermost DEF CountInv, Exact
<1>3. try.k \in Tries
  BY <1>1, <1>2 DEF Done
<1>4. CatchesAt(cs, Len(cs), Len(cs))
  <2>1. \A j \in Len(cs) + 1..Len(cs) : FALSE
    BY <1>2
  <2>2. QED
    BY <1>2, <1>3, <2>1 DEF CatchesAt
<1>5. Front(cs) = SubSeq(cs, 1, Len(cs) - 1)
  BY DEF Front
<1>6. L' = [L EXCEPT ![R] = IF try.k = "resume"
                            THEN [@ EXCEPT !.nny = try.nny, !.nCcalls = Count(try.ncc - 1)]
                            ELSE [@ EXCEPT !.errfunc = try.errfunc, !.nCcalls = try.ncc]]
  BY DEF TryReturns
<1> HIDE DEF try
<1>7. /\ Shape(L') /\ \A t \in Threads \ {R} : L'[t].nny = L[t].nny
      /\ L'[R].nny = IF try.k = "resume" THEN try.nny ELSE L[R].nny
  <2>1. CASE try.k = "resume"
    BY <1>2, <1>6, <2>1 DEF Shape
  <2>2. CASE try.k # "resume"
    BY <1>2, <1>6, <2>2 DEF Shape
  <2>3. QED
    BY <2>1, <2>2
<1>8. try.k # "resume" => L[R].nny = try.nny
  <2> SUFFICES ASSUME try.k # "resume" PROVE L[R].nny = try.nny
    OBVIOUS
  <2> DEFINE u == SubSeq(cs, 1, Len(cs) - 1)
  <2>1. PICK S : cs \in Seq(S)
    BY <1>2 DEF IsStack
  <2>2. u \in Seq(S) /\ cs = Append(u, cs[Len(cs)])
    BY <1>2, <2>1
  <2>3. cs = Append(u, try)
    BY <1>2, <2>2
  <2> HIDE DEF u
  <2>4. Pinned(Append(u, try), R) = Pinned(u, R)
    <3>1. IsTry(try)
      BY <1>2, <1>3 DEF IsStack, IsCall, Tries
    <3>2. QED
      BY <2>2, <3>1, PinnedOfTry
  <2>5. try.nny = Pinned(u, R)
    BY <1>2, <1>3 DEF Exact, SavedExact, u
  <2>6. QED
    BY <1>2, <2>3, <2>4, <2>5 DEF Exact
<1>9. \A t \in Threads : L'[t].nny = IF cs[Len(cs)].t = t THEN cs[Len(cs)].nny ELSE L[t].nny
  BY <1>2, <1>7, <1>8
<1>10. Exact(L', Front(cs))
  BY <1>1, <1>2, <1>4, <1>5, <1>7, <1>9, ExactCut
<1>11. QED
  BY <1>1, <1>10 DEF CountInv, Exact, Shape

LEMMA MessageSteps ==
    ASSUME CountInv, ErrorMsg \/ ErrorMsgOnMain
    PROVE  CountInv'
<1>1. cs # <<>>
  BY DEF CountInv, ErrorMsg, ErrorMsgOnMain
<1>2. R \in Threads /\ R = cs[Len(cs)].t /\ Shape(L) /\ Exact(L, cs)
  BY <1>1, RunsHere DEF CountInv
<1>3. CASE LuaDCall(R, L, cs, FALSE, "handler")
  BY <1>1, <1>2, <1>3, CallExact
<1>4. CASE LuaDCall(Main, L, cs, FALSE, "handler")
  BY <1>1, <1>2, <1>4, MainAssumption, CallExact
<1>5. CASE UNCHANGED <<L, cs>>
  <2>1. Same(L, L')
    BY <1>2, <1>5 DEF Same, Shape
  <2>2. QED
    BY <1>1, <1>5, <2>1, SameStep
<1>6. QED
  BY <1>3, <1>4, <1>5 DEF ErrorMsg, ErrorMsgOnMain

\* An activation has failed, or luaD_pcall is cut back: nny is what was saved.
LEMMA FailExact ==
    ASSUME NEW m, NEW rest, Exact(m, rest), Fail(m, rest)
    PROVE  CountInv'
<1>1. cs' = rest /\ Same(m, L') /\ (ctl' # "run" => rest # <<>>)
  BY FailKeeps DEF Exact
<1>2. Exact(L', rest)
  BY <1>1, ExactSame
<1>3. QED
  BY <1>1, <1>2 DEF CountInv, Exact, Shape

LEMMA PCallExact ==
    ASSUME NEW try, NEW rest, PCallFails(try, rest), Shape(L), R \in Threads,
           \A m : (/\ Shape(m) /\ m[R].nny = try.nny
                  /\ \A t \in Threads \ {R} : m[t].nny = L[t].nny) => Exact(m, rest)
    PROVE  CountInv'
<1> DEFINE l == [L EXCEPT ![R] = [@ EXCEPT !.ci = SubSeq(L[R].ci, 1, try.base), !.nny = try.nny,
                                           !.errfunc = try.errfunc, !.nCcalls = try.ncc,
                                           !.open = Closed(L[R].open, try.base)]]
<1>1. IF try.k = "host" THEN Fail(l, rest)
      ELSE L' = [l EXCEPT ![R].ci[try.base].stat = TRUE] /\ cs' = rest /\ ctl' = "run"
  BY DEF PCallFails
<1>2. Shape(l) /\ l[R].nny = try.nny /\ \A t \in Threads \ {R} : l[t].nny = L[t].nny
  BY DEF Shape
<1> HIDE DEF l
<1>3. Exact(l, rest)
  BY <1>2
<1>4. CASE Fail(l, rest)
  BY <1>3, <1>4, FailExact
<1>5. CASE L' = [l EXCEPT ![R].ci[try.base].stat = TRUE] /\ cs' = rest /\ ctl' = "run"
  <2>1. Same(l, L')
    BY <1>2, <1>5 DEF Same, Shape
  <2>2. Exact(L', rest)
    BY <1>3, <2>1, ExactSame
  <2>3. QED
    BY <1>5, <2>2 DEF CountInv, Exact, Shape
<1>6. QED
  BY <1>1, <1>4, <1>5

LEMMA CatchSteps ==
    ASSUME CountInv, CatchPCall \/ CatchYield \/ Dies
    PROVE  CountInv'
<1> DEFINE try == cs[Catcher]
           rest == SubSeq(cs, 1, Catcher - 1)
<1>1. cs # <<>> /\ try.t = R
  BY DEF CountInv, CatchPCall, CatchYield, Dies
<1>2. R \in Threads /\ Shape(L)
  BY <1>1, RunsHere
<1>3. ASSUME NEW m, Shape(m), m[R].nny = try.nny,
             \A t \in Threads \ {R} : m[t].nny = L[t].nny
      PROVE  Exact(m, rest)
  BY <1>1, <1>2, <1>3, CutExact
<1>5. CASE CatchPCall
  <2>1. PCallFails(try, rest)
    BY <1>5 DEF CatchPCall
  <2> HIDE DEF try, rest
  <2>2. QED
    BY <1>2, <1>3, <2>1, PCallExact
<1>6. CASE CatchYield
  <2>1. /\ L' = [L EXCEPT ![R].nny = try.nny, ![R].nCcalls = Count(try.ncc - 1)]
        /\ cs' = rest /\ ctl' = "run"
    BY <1>6 DEF CatchYield
  <2> HIDE DEF try, rest
  <2>2. Shape(L') /\ L'[R].nny = try.nny /\ \A t \in Threads \ {R} : L'[t].nny = L[t].nny
    BY <1>2, <2>1 DEF Shape
  <2>3. Exact(L', rest)
    BY <1>3, <2>2
  <2>4. QED
    BY <2>1, <2>3 DEF CountInv, Exact, Shape
<1>7. CASE Dies
  <2> DEFINE l == [L EXCEPT ![R].status = "error", ![R].nny = try.nny,
                            ![R].nCcalls = Count(try.ncc - 1)]
  <2>1. Fail(l, rest)
    BY <1>7 DEF Dies
  <2> HIDE DEF try, rest
  <2>2. Shape(l) /\ l[R].nny = try.nny /\ \A t \in Threads \ {R} : l[t].nny = L[t].nny
    BY <1>2 DEF Shape
  <2> HIDE DEF l
  <2>3. Exact(l, rest)
    BY <1>3, <2>2
  <2>4. QED
    BY <2>1, <2>3, FailExact
<1>8. QED
  BY <1>5, <1>6, <1>7

\* luaD_pcall of the main thread finds a status that a jump has left.
LEMMA FoundSteps ==
    ASSUME CountInv, FoundFailed
    PROVE  CountInv'
<1> DEFINE n == Len(cs)
<1>1. cs # <<>> /\ Done /\ PCallFails(Last(cs), Front(cs))
  BY DEF FoundFailed
<1>2. R \in Threads /\ R = cs[n].t /\ Last(cs) = cs[n] /\ Shape(L) /\ Exact(L, cs) /\ n \in 1..n
  BY <1>1, RunsHere, Innermost DEF CountInv, Exact
<1>3. CatchesAt(cs, n, n)
  <2>1. \A j \in n + 1..n : FALSE
    BY <1>2
  <2>2. QED
    BY <1>1, <2>1 DEF CatchesAt, Done
<1>4. Front(cs) = SubSeq(cs, 1, n - 1)
  BY DEF Front
<1>5. ASSUME NEW m, Shape(m), m[R].nny = cs[n].nny,
             \A t \in Threads \ {R} : m[t].nny = L[t].nny
      PROVE  Exact(m, Front(cs))
  <2>1. \A t \in Threads : m[t].nny = IF cs[n].t = t THEN cs[n].nny ELSE L[t].nny
    BY <1>2, <1>5
  <2>2. QED
    BY <1>1, <1>2, <1>3, <1>4, <1>5, <2>1, ExactCut
<1>6. PCallFails(cs[n], Front(cs))
  BY <1>1, <1>2
<1> HIDE DEF n
<1>7. QED
  BY <1>2, <1>5, <1>6, PCallExact

LEMMA RecoverSteps ==
    ASSUME CountInv, Recover
    PROVE  CountInv'
<1>1. cs # <<>> /\ cs' = SubSeq(cs, 1, Catcher) /\ ctl' = "run" /\ cs[Catcher].k = "resume"
  BY DEF CountInv, Recover
<1>2. R \in Threads /\ R = cs[Len(cs)].t /\ Shape(L) /\ Exact(L, cs)
  BY <1>1, RunsHere DEF CountInv
<1>3. L' = [L EXCEPT ![R] = Recovered(@, Max(Marked(R)), cs[Catcher].ncc)]
  BY DEF Recover
<1>4. Shape(L') /\ L'[R].nny = 0 /\ \A t \in Threads \ {R} : L'[t].nny = L[t].nny
  BY <1>2, <1>3 DEF Shape, Recovered
<1>5. \A t \in Threads : L'[t].nny = IF cs[Len(cs)].t = t THEN 0 ELSE L[t].nny
  BY <1>2, <1>4
<1>6. Catcher \in 1..Len(cs) /\ CatchesAt(cs, Len(cs), Catcher)
  BY <1>1, CatcherCatches DEF Recover
<1>7. Exact(L', SubSeq(cs, 1, Catcher))
  BY <1>1, <1>2, <1>4, <1>5, <1>6, ExactRecover
<1>8. QED
  BY <1>1, <1>7 DEF CountInv, Exact, Shape

\* A new coroutine has no frames, and cannot yield before it is resumed.
LEMMA CreateSteps ==
    ASSUME CountInv, NEW c \in Threads, CoCreate(c)
    PROVE  CountInv'
<1>1. cs # <<>> /\ cs' = cs /\ \A i \in 1..Len(cs) : cs[i].t # c
  BY DEF CoCreate, InLua
<1>2. Shape(L) /\ Exact(L, cs)
  BY DEF CountInv, Exact
<1>3. L' = [L EXCEPT ![c] = [NewState EXCEPT !.started = FALSE]]
  BY DEF CoCreate
<1>4. Shape(L') /\ L'[c].nny = 1 /\ \A t \in Threads \ {c} : L'[t].nny = L[t].nny
  BY <1>2, <1>3 DEF Shape, NewState
<1>5. Pinned(cs, c) = 1
  <2>1. Started(cs, c) = {} /\ Pins(cs, c) = {}
    BY <1>1 DEF Started, Pins
  <2>2. QED
    BY <2>1, FS_EmptySet DEF Pinned
<1>6. QED
  BY <1>1, <1>2, <1>4, <1>5 DEF CountInv, Exact, Shape

LEMMA ResumeSteps ==
    ASSUME CountInv, NEW c \in Threads, NEW g, Resume(c, g)
    PROVE  CountInv'
<1> DEFINE n == Count(L[R].nCcalls + 1)
           f == Try("resume", c, 0, n)
           p == Push(R, Info(g))
<1>1. cs # <<>> /\ ctl' = "run" /\ cs' = Append(cs, f)
  BY DEF Resume, InLua
<1>2. Shape(L) /\ Exact(L, cs)
  BY DEF CountInv, Exact
<1>3. L' = [p EXCEPT ![c] =
              [@ EXCEPT !.nCcalls = n, !.nny = 0, !.status = "ok", !.started = TRUE,
                        !.ci = IF L[c].status = "ok" THEN <<Info("lua")>> ELSE Front(L[c].ci)]]
  BY DEF Resume
<1>4. Same(L, p)
  BY <1>2, SamePush
<1>5. IsTry(f) /\ f.t = c /\ f.k = "resume" /\ f.nny = L[c].nny
  BY TryIsTry DEF Tries
<1> HIDE DEF p, n, f
<1>6. Shape(L') /\ L'[c].nny = 0 /\ \A t \in Threads \ {c} : L'[t].nny = p[t].nny
  BY <1>3, <1>4 DEF Shape, Same
<1>7. \A t \in Threads : L'[t].nny = IF f.k = "resume" /\ f.t = t THEN 0 ELSE L[t].nny
  BY <1>4, <1>5, <1>6 DEF Same
<1>8. Exact(L', Append(cs, f))
  BY <1>2, <1>5, <1>6, <1>7, ExactTry
<1>9. QED
  BY <1>1, <1>8 DEF CountInv, Exact, Shape

LEMMA RefuseSteps ==
    ASSUME CountInv, NEW c \in Threads, NEW g, ResumeFails(c, g)
    PROVE  CountInv'
<1> DEFINE p == Push(R, Info(g))
           l == IF Bare(c) THEN p ELSE [p EXCEPT ![c].nCcalls = L[R].nCcalls]
<1>1. cs # <<>> /\ Fail(l, cs)
  BY DEF ResumeFails, InLua
<1>2. Shape(L) /\ Exact(L, cs)
  BY DEF CountInv, Exact
<1>3. Same(L, p)
  BY <1>2, SamePush
<1> HIDE DEF p
<1>4. Same(L, [p EXCEPT ![c].nCcalls = L[R].nCcalls])
  BY <1>3 DEF Same, Shape
<1>5. Same(L, l)
  BY <1>3, <1>4
<1> HIDE DEF l
<1>6. cs' = cs /\ Same(l, L')
  BY <1>1, <1>5, FailKeeps DEF Same
<1>7. Same(L, L')
  BY <1>5, <1>6 DEF Same
<1>8. QED
  BY <1>1, <1>6, <1>7, SameStep

\* An error of another thread that is raised on the main thread: the thread that runs
\* is another one, so the jump ends at its innermost protected activation.
MainInv == ctl \in {"raisemain", "foreign"} => cs # <<>> /\ R # Main

LEMMA FailMain ==
    ASSUME NEW l, NEW rest, Fail(l, rest)
    PROVE  MainInv'
<1>1. cs' = rest
  BY DEF Fail
<1>2. ctl' \in {"raisemain", "foreign"} => rest # <<>> /\ Last(rest).t # Main
  BY DEF Fail
<1>3. QED
  BY <1>1, <1>2 DEF MainInv, R, Last

LEMMA ReturnMain ==
    ASSUME CountInv, LuaReturns
    PROVE  MainInv'
<1>1. cs # <<>> /\ ctl = "run" /\ R = cs[Len(cs)].t /\ Last(cs) = cs[Len(cs)] /\ Exact(L, cs)
  <2>1. cs # <<>> /\ ctl = "run"
    BY DEF LuaReturns, InLua
  <2>2. QED
    BY <2>1, RunsHere DEF CountInv
<1>2. SUFFICES ASSUME ctl' \in {"raisemain", "foreign"}
               PROVE  cs' # <<>> /\ R' # Main
  BY DEF MainInv
<1>3. cs[Len(cs)].k = "call" /\ cs' = Front(cs) /\ Last(cs').t # R
  BY <1>1, <1>2 DEF LuaReturns
<1>4. PICK S : cs \in Seq(S)
  BY <1>1 DEF Exact, IsStack
<1>5. Len(cs) \in 1..Len(cs)
  BY <1>1, <1>4
<1>6. IsCall(cs[Len(cs)])
  BY <1>1, <1>3, <1>5 DEF Exact, IsStack, IsTry, Tries
<1>7. cs' # <<>>
  BY <1>1, <1>3, <1>6, CallBelow
<1> DEFINE n == Len(cs) - 1
<1>8. Len(cs') = n /\ n \in 1..Len(cs) /\ cs'[n] = cs[n]
  <2>1. Front(cs) = SubSeq(cs, 1, n)
    BY DEF Front
  <2>2. Len(cs') = n /\ \A i \in 1..n : cs'[i] = cs[i]
    <3>1. n \in 0..Len(cs)
      BY <1>5
    <3>2. QED
      BY <1>3, <1>4, <2>1, <3>1, CutFacts
  <2>3. n # 0
    BY <1>3, <1>4, <1>5, <1>7, <2>2
  <2>4. QED
    BY <1>5, <2>2, <2>3
<1>9. R' = cs[n].t /\ Last(cs') = cs[n]
  BY <1>8 DEF R, Last
<1>10. cs[n].t # R
  BY <1>3, <1>9
<1>11. PICK m \in 1..Len(cs) : Groups(cs, Len(cs), m)
  BY <1>1, <1>5 DEF Exact, Grouped
<1>12. m # Len(cs)
  BY <1>3, <1>11 DEF Groups, Tries
<1>13. n = m \/ n \in m + 1..Len(cs)
  BY <1>5, <1>8, <1>11, <1>12
<1>14. R = Main
  BY <1>1, <1>10, <1>11, <1>13 DEF Groups
<1>15. QED
  BY <1>7, <1>9, <1>10, <1>14

LEMMA MainInit == Init => MainInv
BY DEF Init, MainInv

LEMMA MainNext == CountInv /\ MainInv /\ [Next]_vars => MainInv'
<1> SUFFICES ASSUME CountInv, MainInv, [Next]_vars PROVE MainInv'
  OBVIOUS
<1> DEFINE Quiet == ctl' \notin {"raisemain", "foreign"}
<1>1. Quiet => MainInv'
  BY DEF MainInv
<1>2. ASSUME NEW t, NEW l, NEW s, NEW allow, NEW fn, LuaDCall(t, l, s, allow, fn)
      PROVE  Quiet
  BY <1>2 DEF LuaDCall
<1>3. CASE CallLua \/ FindUpval \/ TailCall \/ Raise \/ Yield \/ CReturns
  <2>1. Quiet
    BY <1>3 DEF CallLua, FindUpval, TailCall, Raise, Yield, CReturns, InLua, InC
  <2>2. QED
    BY <1>1, <2>1
<1>4. CASE HostRaises
  BY <1>4 DEF HostRaises, InLua, MainInv, R
<1>5. CASE CallTM \/ \E fn \in {"dofile", "sort"} : CallK(fn)
  <2>1. Quiet
    BY <1>2, <1>5 DEF CallTM, CallK
  <2>2. QED
    BY <1>1, <2>1
<1>6. CASE \E fn \in {"pcall", "xpcall"} : PCallK(fn)
  <2>1. Quiet
    BY <1>2, <1>6 DEF PCallK
  <2>2. QED
    BY <1>1, <2>1
<1>7. CASE LuaReturns
  BY <1>7, ReturnMain
<1>8. CASE HostCall
  <2>1. Quiet
    BY <1>2, <1>8 DEF HostCall
  <2>2. QED
    BY <1>1, <2>1
<1>9. CASE \E c \in Threads : CoCreate(c)
  <2>1. Quiet
    BY <1>9 DEF CoCreate, InLua
  <2>2. QED
    BY <1>1, <2>1
<1>10. CASE \E c \in Threads, g \in {"resume", "wrap"} : Resume(c, g)
  <2>1. Quiet
    BY <1>10 DEF Resume, InLua
  <2>2. QED
    BY <1>1, <2>1
<1>11. CASE \E c \in Threads, g \in {"resume", "wrap"} : ResumeFails(c, g)
  BY <1>11, FailMain DEF ResumeFails
<1>12. CASE TryReturns \/ Recover \/ CatchYield \/ Derailed
  <2>1. Quiet
    BY <1>12 DEF TryReturns, Recover, CatchYield, Derailed
  <2>2. QED
    BY <1>1, <2>1
<1>13. CASE ErrorMsg
  <2>1. Quiet
    BY <1>2, <1>13 DEF ErrorMsg
  <2>2. QED
    BY <1>1, <2>1
<1>14. CASE ErrorMsgOnMain
  <2>1. CASE LuaDCall(Main, L, cs, FALSE, "handler")
    BY <1>1, <1>2, <2>1
  <2>2. CASE UNCHANGED <<L, cs>>
    BY <1>14, <2>2 DEF ErrorMsgOnMain, MainInv, R
  <2>3. QED
    BY <1>14, <2>1, <2>2 DEF ErrorMsgOnMain
<1>15. ASSUME NEW try, NEW rest, PCallFails(try, rest)
       PROVE  MainInv'
  <2>1. CASE ctl' = "run"
    BY <1>1, <2>1
  <2>2. CASE \E l : Fail(l, rest)
    BY <2>2, FailMain
  <2>3. QED
    BY <1>15, <2>1, <2>2 DEF PCallFails
<1>16. CASE CatchPCall \/ FoundFailed
  BY <1>15, <1>16 DEF CatchPCall, FoundFailed
<1>17. CASE Dies
  BY <1>17, FailMain DEF Dies
<1>18. CASE CatchForeign
  BY <1>15, <1>18, FailMain DEF CatchForeign
<1>19. CASE UNCHANGED vars
  BY <1>19 DEF vars, MainInv, R
<1>20. QED
  BY <1>3, <1>4, <1>5, <1>6, <1>7, <1>8, <1>9, <1>10, <1>11, <1>12, <1>13, <1>14, <1>16, <1>17,
     <1>18, <1>19 DEF Next, Step

\* The jump of such an error.
LEMMA ForeignSteps ==
    ASSUME CountInv, MainInv, CatchForeign
    PROVE  CountInv'
<1> DEFINE z == [cs EXCEPT ![InnermostTry({Main})].failed = TRUE]
           try == cs[Catcher]
           rest == SubSeq(z, 1, Catcher - 1)
<1>1. cs # <<>> /\ R # Main /\ Exact(L, cs)
  BY DEF CatchForeign, MainInv, CountInv
<1>2. /\ R \in Threads /\ R = cs[Len(cs)].t /\ Shape(L) /\ Len(cs) \in 1..Len(cs)
      /\ Catcher \in 1..Len(cs) /\ CatchesAt(cs, Len(cs), Catcher)
  BY <1>1, RunsHere, Innermost, CatcherCatches DEF CountInv, Exact
<1>3. /\ Exact(L, z) /\ Len(z) = Len(cs)
      /\ \A i \in 1..Len(cs) : z[i].k = cs[i].k /\ z[i].t = cs[i].t
                                /\ (cs[i].k \in Tries => z[i].nny = cs[i].nny)
  BY <1>1, ExactMarked
<1>4. \/ PCallFails(try, rest)
      \/ Fail([L EXCEPT ![R].nny = try.nny, ![R].nCcalls = Count(try.ncc - 1)], rest)
  BY DEF CatchForeign
<1> HIDE DEF z
<1>5. z[Catcher].nny = try.nny /\ z[Len(z)].t = R /\ z # <<>> /\ Catcher \in 1..Len(z)
  <2>1. z # <<>>
    BY <1>2, <1>3
  <2>2. QED
    BY <1>2, <1>3, <2>1 DEF CatchesAt
<1>6. CatchesAt(z, Len(z), Catcher)
  <2>1. \A i \in Catcher + 1..Len(cs) : i \in 1..Len(cs)
    BY <1>2
  <2>2. QED
    BY <1>2, <1>3, <2>1 DEF CatchesAt
<1>7. \A m : (/\ Shape(m) /\ m[R].nny = try.nny
              /\ \A t \in Threads \ {R} : m[t].nny = L[t].nny) => Exact(m, rest)
  <2> SUFFICES ASSUME NEW m, Shape(m), m[R].nny = try.nny,
                      \A t \in Threads \ {R} : m[t].nny = L[t].nny
               PROVE  Exact(m, rest)
    OBVIOUS
  <2>1. \A t \in Threads : m[t].nny = IF z[Len(z)].t = t THEN z[Catcher].nny ELSE L[t].nny
    BY <1>5
  <2>2. QED
    BY <1>3, <1>5, <1>6, <2>1, ExactCut
<1> HIDE DEF try, rest
<1>8. CASE PCallFails(try, rest)
  BY <1>2, <1>7, <1>8, PCallExact
<1> DEFINE l == [L EXCEPT ![R].nny = try.nny, ![R].nCcalls = Count(try.ncc - 1)]
<1>9. CASE Fail(l, rest)
  <2>1. Shape(l) /\ l[R].nny = try.nny /\ \A t \in Threads \ {R} : l[t].nny = L[t].nny
    BY <1>2 DEF Shape
  <2> HIDE DEF l
  <2>2. Exact(l, rest)
    BY <1>7, <2>1
  <2>3. QED
    BY <1>9, <2>2, FailExact
<1>10. QED
  BY <1>4, <1>8, <1>9

LEMMA CountNext == CountInv /\ MainInv /\ [Next]_vars => CountInv'
<1> SUFFICES ASSUME CountInv, MainInv, [Next]_vars PROVE CountInv'
  OBVIOUS
<1>1. CASE CallLua \/ FindUpval \/ TailCall \/ Raise \/ HostRaises \/ Yield \/ CReturns
  BY <1>1, ProgramSteps
<1>2. CASE CallTM \/ \E fn \in {"dofile", "sort"} : CallK(fn)
  BY <1>2, CallSteps
<1>3. CASE \E fn \in {"pcall", "xpcall"} : PCallK(fn)
  BY <1>3, ProtectedSteps
<1>4. CASE LuaReturns
  BY <1>4, ReturnSteps
<1>5. CASE HostCall
  BY <1>5, HostSteps
<1>6. CASE \E c \in Threads : CoCreate(c)
  BY <1>6, CreateSteps
<1>7. CASE \E c \in Threads, g \in {"resume", "wrap"} : Resume(c, g)
  BY <1>7, ResumeSteps
<1>8. CASE \E c \in Threads, g \in {"resume", "wrap"} : ResumeFails(c, g)
  BY <1>8, RefuseSteps
<1>9. CASE TryReturns
  BY <1>9, TryReturnSteps
<1>10. CASE ErrorMsg \/ ErrorMsgOnMain
  BY <1>10, MessageSteps
<1>11. CASE CatchPCall \/ CatchYield \/ Dies
  BY <1>11, CatchSteps
<1>12. CASE Recover
  BY <1>12, RecoverSteps
<1>13. CASE FoundFailed
  BY <1>13, FoundSteps
<1>14. CASE CatchForeign
  BY <1>14, ForeignSteps
<1>15. CASE Derailed
  BY <1>15 DEF Derailed, CountInv, Exact, Shape
<1>16. CASE UNCHANGED vars
  BY <1>16 DEF vars, CountInv, Exact, Shape
<1>17. QED
  BY <1>1, <1>2, <1>3, <1>4, <1>5, <1>6, <1>7, <1>8, <1>9, <1>10, <1>11, <1>12, <1>13, <1>14,
     <1>15, <1>16 DEF Next, Step

\* nny of a thread is 1 if it is not in a resume, and one more for each call on the
\* C stack, since its last resume, that a yield cannot cross (ldo.cpp; lstate.h),
\* for any number of threads, whatever the limits, and however errors and yields
\* have cut the stack, those of an error that the host raises on the main thread too.
THEOREM NnyIsExact == Spec => []NonYieldableCounted
<1>1. CountInv => NonYieldableCounted
  <2> SUFFICES ASSUME CountInv, NEW t \in Threads
               PROVE  L[t].nny = (IF Activation(t) = {} THEN 1 ELSE 0)
                                 + Cardinality({i \in CallsOf(t) : ~cs[i].allow})
    BY DEF NonYieldableCounted
  <2>1. Activation(t) = Started(cs, t)
    BY DEF Activation, Started
  <2>2. {i \in CallsOf(t) : ~cs[i].allow} = Pins(cs, t)
    BY <2>1 DEF CallsOf, Pins
  <2>3. QED
    BY <2>1, <2>2 DEF CountInv, Exact, Pinned
<1>2. QED
  BY <1>1, CountInit, CountNext, MainInit, MainNext, PTL DEF Spec

-----------------------------------------------------------------------------
(* The invariant.  In all that follows c are the calls of the thread t and s *)
(* is the C stack; u: an error or a yield of the thread is on its way.       *)

\* Library functions that catch errors, that start or resume another activation;
\* the frames an activation begins with.
Protected == {"pcall", "xpcall"}
Callers == {"host", "resume", "wrap"}
Starts == {"host", "resume"}

\* The frames of the thread; those with a luaD_rawrunprotected, a luaD_call, and a
\* luaD_call that cannot be yielded across, at the p-th call.
Mine(s, t) == {i \in 1..Len(s) : s[i].t = t}
HasTry(s, t, p) == \E j \in Mine(s, t) : s[j].k = "pcall" /\ s[j].base = p
HasCall(s, t, p) == \E j \in Mine(s, t) : s[j].k = "call" /\ s[j].base = p
HasPin(s, t, p) == \E j \in Mine(s, t) : s[j].k = "call" /\ ~s[j].allow /\ s[j].base = p

\* Library functions are called by Lua functions; each mark is on a call that can
\* have it.  A protected call that has caught an error, a function that raises one
\* (but for its handler), and the host's call from a coroutine are on top.
OnLua(c) == \A i \in 1..Len(c) : c[i].fn \notin Functions => i > 1 /\ c[i - 1].fn \in Functions
Flagged(c) == \A i \in 1..Len(c) : /\ c[i].reentry => c[i].fn = "lua"
                                   /\ c[i].ypcall \/ c[i].stat => c[i].fn \in Protected
StatOnTop(c, u) == \A i \in 1..Len(c) : c[i].stat => i = Len(c) /\ ~u
RaiseOnTop(c, u) == \A i \in 1..Len(c) :
    c[i].fn = "raise" => IF i = Len(c) THEN u ELSE c[i + 1].fn = "handler"
HostOnTop(c, t, u) == t # Main => \A i \in 1..Len(c) : c[i].fn = "host" => i = Len(c) /\ ~u
InfosOk(c, t, u) == /\ OnLua(c) /\ Flagged(c) /\ StatOnTop(c, u)
                    /\ RaiseOnTop(c, u) /\ HostOnTop(c, t, u)

\* Each frame stands where the calls it belongs to are: a luaD_call below a Lua
\* function, a luaD_pcall at its protected call, one of the host at the call that
\* has entered the host, lua_resume below all of its coroutine.
CallsOk(c, s, t, u) == \A i \in Mine(s, t) : s[i].k = "call" =>
    /\ s[i].base <= Len(c)
    /\ s[i].base = Len(c) => u
    /\ s[i].base < Len(c) => c[s[i].base + 1].fn \in Functions /\ ~c[s[i].base + 1].reentry
PCallsOk(c, s, t) == \A i \in Mine(s, t) : s[i].k = "pcall" =>
    /\ s[i].base \in 1..Len(c) /\ c[s[i].base].fn \in Protected
    /\ ~c[s[i].base].ypcall /\ ~c[s[i].base].stat
    /\ s[i].base = Len(c) \/ HasPin(s, t, s[i].base)
HostsOk(c, s, t) == \A i \in Mine(s, t) : s[i].k = "host" =>
    /\ t = Main
    /\ IF i = 1 THEN s[i].base = 0 ELSE s[i].base \in 1..Len(c) /\ c[s[i].base].fn \in Callers
ResumesOk(s, t) == \A i \in Mine(s, t) : s[i].k = "resume" =>
    t # Main /\ s[i].base = 0 /\ \A j \in Mine(s, t) : j >= i
FramesOk(c, s, t, u) == /\ CallsOk(c, s, t, u) /\ PCallsOk(c, s, t)
                        /\ HostsOk(c, s, t) /\ ResumesOk(s, t)

\* The frames lie in the order of their calls; two luaD_call at one place are that
\* of a function and that of the handler of an overflow there.
Ascending(s, t) == \A i, j \in Mine(s, t) : i < j =>
    s[i].base <= s[j].base /\ (s[j].k # "call" => s[i].base < s[j].base)
Repeated(c, s, t) == \A i, j \in Mine(s, t) :
    i < j /\ s[i].k = "call" /\ s[j].k = "call" /\ s[i].base = s[j].base
      => s[i].base = Len(c) \/ c[s[i].base + 1].fn = "handler"

\* The calls that need a frame have it: a Lua function above a luaD_call, unless
\* luaV_execute goes on with it; a protected call without a mark; a handler and a
\* sort.  Below a marked call there is no frame that would catch its errors.
CallsOwned(c, s, t) == \A i \in Mine(s, t), q \in 1..Len(c) :
    s[i].k = "call" /\ q > s[i].base + 1 /\ c[q].fn \in Functions /\ ~c[q].reentry
      => HasCall(s, t, q - 1)
Guarded(c, s, t, u) == \A i \in 1..Len(c) :
    c[i].fn \in Protected /\ (i < Len(c) \/ u) => c[i].ypcall \/ HasTry(s, t, i)
PinsOwned(c, s, t) == \A i \in 1..Len(c) :
    /\ c[i].fn = "handler" => HasPin(s, t, i - 1)
    /\ c[i].fn = "sort" /\ i < Len(c) => HasPin(s, t, i)
Yieldable(c, s, t) == \A i \in 1..Len(c) : c[i].ypcall =>
    t # Main /\ \A p \in 0..i - 1 : ~HasTry(s, t, p) /\ ~HasPin(s, t, p)
Owned(c, s, t, u) == /\ CallsOwned(c, s, t) /\ Guarded(c, s, t, u)
                     /\ PinsOwned(c, s, t) /\ Yieldable(c, s, t)

\* The i-th call is protected and has not caught an error.
Guard(c, s, t, i) == /\ c[i].fn \in Protected /\ ~c[i].stat
                     /\ c[i].ypcall \/ HasTry(s, t, i)
\* The error handler e is that of the innermost protected call of the first n
\* calls, in the activation that the last of the frames F has started.
ErrOk(c, s, t, e, n, F) == e # 0 =>
    /\ e \in 1..n /\ c[e].fn = "xpcall" /\ Guard(c, s, t, e)
    /\ \A i \in 1..n : i > e => ~Guard(c, s, t, i)
    /\ \A j \in F : s[j].k = "host" => s[j].base < e
\* So are the handlers that luaD_pcall and lua_pcallk have saved.
Below(s, t, i) == {j \in Mine(s, t) : j < i}
SavedOk(c, s, t) == \A i \in Mine(s, t) :
    /\ s[i].k = "pcall" => ErrOk(c, s, t, s[i].errfunc, s[i].base - 1, Below(s, t, i))
    /\ s[i].k = "host" => ErrOk(c, s, t, s[i].errfunc, s[i].base, Below(s, t, i))
MarkedOk(c, s, t) == \A i \in 1..Len(c) :
    c[i].ypcall => ErrOk(c, s, t, c[i].h, i - 1, Mine(s, t))

\* Open upvalues are of Lua functions in progress.
OpenOk(c, open) == \A i \in open : i \in 1..Len(c) /\ c[i].fn \in Functions

\* The state x of a thread, which runs or not (r): a thread that has yielded, has
\* not started or has ended has no frames, one that waits for another is in the
\* call that has switched to it.
Status(x, s, t, r) ==
    /\ x.status = "error" => Mine(s, t) = {} /\ t # Main
    /\ x.status = "yield" => /\ Len(x.ci) # 0 /\ x.ci[Len(x.ci)].fn = "yield"
                             /\ t # Main /\ (Mine(s, t) # {} => r)
    /\ ~x.started => Len(x.ci) = 0 /\ x.status = "ok" /\ Mine(s, t) = {} /\ t # Main
    /\ Mine(s, t) = {} /\ x.status = "ok" => Len(x.ci) = 0
    /\ Mine(s, t) # {} /\ ~r => /\ Len(x.ci) # 0 /\ x.ci[Len(x.ci)].fn \in Callers
                                /\ \A i \in Mine(s, t) : s[i].base < Len(x.ci)

\* The calls and the frames of a thread fit together.
Stack(c, s, t, u) == /\ InfosOk(c, t, u) /\ FramesOk(c, s, t, u)
                     /\ Ascending(s, t) /\ Repeated(c, s, t) /\ Owned(c, s, t, u)
                     /\ SavedOk(c, s, t) /\ MarkedOk(c, s, t)
Good(x, s, t, r, u) ==
    /\ Status(x, s, t, r)
    /\ x.status # "error" => /\ Stack(x.ci, s, t, u)
                             /\ ErrOk(x.ci, s, t, x.errfunc, Len(x.ci), Mine(s, t))
                             /\ OpenOk(x.ci, x.open)

\* Every activation has one group of frames, of one thread.
ActGrouped(s) == \A n \in 1..Len(s) : \E m \in 1..n :
    /\ s[m].k \in Starts /\ s[m].t = s[n].t
    /\ \A j \in m + 1..n : s[j].k \notin Starts /\ s[j].t = s[n].t

-----------------------------------------------------------------------------
(* What steps do to the calls and the frames of a thread *)

\* The frames of a thread, by their places on the stack.
Based(s, t) == Len(s) \in Nat /\ \A i \in Mine(s, t) : s[i].base \in Nat

\* Nothing depends on the frames of other threads.
LEMMA SameFrames ==
    ASSUME NEW s, NEW w, NEW t, Mine(w, t) = Mine(s, t), \A i \in Mine(s, t) : w[i] = s[i],
           NEW x, NEW r, NEW u, Good(x, s, t, r, u)
    PROVE  Good(x, w, t, r, u)
<1>1. \A p : /\ HasTry(w, t, p) <=> HasTry(s, t, p)
             /\ HasCall(w, t, p) <=> HasCall(s, t, p)
             /\ HasPin(w, t, p) <=> HasPin(s, t, p)
  BY DEF HasTry, HasCall, HasPin
<1>2. \A i : Below(w, t, i) = Below(s, t, i) /\ Below(s, t, i) \subseteq Mine(s, t)
  BY DEF Below
<1>3. \A c, i : Guard(c, w, t, i) <=> Guard(c, s, t, i)
  BY <1>1 DEF Guard
<1>4. \A c, e, n, F : F \subseteq Mine(s, t) => (ErrOk(c, w, t, e, n, F) <=> ErrOk(c, s, t, e, n, F))
  BY <1>3 DEF ErrOk
<1>5. \A c : SavedOk(c, s, t) => SavedOk(c, w, t)
  BY <1>2, <1>4 DEF SavedOk
<1>6. \A c : MarkedOk(c, s, t) => MarkedOk(c, w, t)
  BY <1>4 DEF MarkedOk
<1>7. \A c : FramesOk(c, s, t, u) => FramesOk(c, w, t, u)
  BY <1>1 DEF FramesOk, CallsOk, PCallsOk, HostsOk, ResumesOk
<1>8. \A c : Ascending(s, t) /\ Repeated(c, s, t) => Ascending(w, t) /\ Repeated(c, w, t)
  BY DEF Ascending, Repeated
<1>9. \A c : Owned(c, s, t, u) => Owned(c, w, t, u)
  <2>1. \A c : CallsOwned(c, s, t) => CallsOwned(c, w, t)
    BY <1>1 DEF CallsOwned
  <2>2. \A c : Guarded(c, s, t, u) => Guarded(c, w, t, u)
    BY <1>1 DEF Guarded
  <2>3. \A c : PinsOwned(c, s, t) => PinsOwned(c, w, t)
    BY <1>1 DEF PinsOwned
  <2>4. \A c : Yieldable(c, s, t) => Yieldable(c, w, t)
    BY <1>1 DEF Yieldable
  <2>5. QED
    BY <2>1, <2>2, <2>3, <2>4 DEF Owned
<1>10. \A c : Stack(c, s, t, u) => Stack(c, w, t, u)
  BY <1>5, <1>6, <1>7, <1>8, <1>9 DEF Stack
<1>11. Status(x, w, t, r)
  BY DEF Good, Status
<1>12. QED
  BY <1>4, <1>10, <1>11 DEF Good

\* The calls above the p-th are gone, and the frames from the m-th on; the call
\* that is then the last may have caught an error.
Cut(c, d, s, w, t, p, m) ==
    /\ Len(c) \in Nat /\ p \in 0..Len(c) /\ Len(d) = p
    /\ \A i \in 1..p : /\ d[i] = c[i] \/ i = p
                       /\ d[i].fn = c[i].fn /\ d[i].reentry = c[i].reentry
                       /\ d[i].ypcall = c[i].ypcall /\ d[i].h = c[i].h
    /\ Mine(w, t) = Below(s, t, m) /\ \A i \in Mine(w, t) : w[i] = s[i]
\* Nothing that remains stood on what is gone.
CutsAll(c, d, s, w, t, u, p, m) ==
    /\ \A i \in Mine(w, t) : s[i].base <= p /\ (s[i].k = "call" => s[i].base < p \/ u)
    /\ \A i \in Mine(s, t) : i >= m => s[i].base >= p
    /\ p > 0 => /\ u => ~d[p].stat /\ (c[p].fn \in Protected => c[p].ypcall \/ HasTry(w, t, p))
                /\ c[p].fn = "raise" => u
                /\ c[p].fn = "host" => t = Main \/ ~u
                /\ d[p].stat # c[p].stat =>
                     d[p].stat /\ c[p].fn \in Protected /\ ~HasTry(w, t, p)

\* What remains is what lies below the p-th call.
LEMMA CutTakes ==
    ASSUME NEW c, NEW d, NEW s, NEW w, NEW t, NEW u, NEW p, NEW m, m \in Nat, Based(s, t),
           Cut(c, d, s, w, t, p, m), CutsAll(c, d, s, w, t, u, p, m)
    PROVE  /\ \A i \in Mine(w, t) : i \in Mine(s, t) /\ i < m /\ w[i] = s[i]
           /\ \A i \in Mine(s, t) : i \in Nat /\ s[i].base \in Nat /\ (s[i].base < p => i \in Mine(w, t))
           /\ \A q : q < p => /\ HasTry(w, t, q) <=> HasTry(s, t, q)
                              /\ HasCall(w, t, q) <=> HasCall(s, t, q)
                              /\ HasPin(w, t, q) <=> HasPin(s, t, q)
           /\ \A q : /\ HasTry(w, t, q) => HasTry(s, t, q)
                     /\ HasPin(w, t, q) => HasPin(s, t, q)
<1>1. \A i \in Mine(w, t) : i \in Mine(s, t) /\ i < m /\ w[i] = s[i]
  BY DEF Cut, Below
<1>2. \A i \in Mine(s, t) : i \in Nat /\ s[i].base \in Nat
  BY DEF Based, Mine
<1>3. p \in Nat
  BY DEF Cut
<1>4. ASSUME NEW i \in Mine(s, t), s[i].base < p
      PROVE  i \in Mine(w, t)
  <2>1. ~(s[i].base >= p)
    BY <1>2, <1>3, <1>4
  <2>2. ~(i >= m)
    BY <2>1 DEF CutsAll
  <2>3. i < m
    BY <1>2, <2>2
  <2>4. QED
    BY <2>3 DEF Cut, Below
<1>5. \A q : /\ HasTry(w, t, q) => HasTry(s, t, q)
             /\ HasCall(w, t, q) => HasCall(s, t, q)
             /\ HasPin(w, t, q) => HasPin(s, t, q)
  BY <1>1 DEF HasTry, HasCall, HasPin
<1>6. \A q : q < p => /\ HasTry(s, t, q) => HasTry(w, t, q)
                      /\ HasCall(s, t, q) => HasCall(w, t, q)
                      /\ HasPin(s, t, q) => HasPin(w, t, q)
  BY <1>1, <1>4 DEF HasTry, HasCall, HasPin
<1>7. QED
  BY <1>1, <1>2, <1>4, <1>5, <1>6

\* The calls are in order after a cut; so are the frames, what the calls
\* need of them, and the handlers.
LEMMA CutInfos ==
    ASSUME NEW c, NEW d, NEW s, NEW w, NEW t, NEW u, NEW v, NEW p, NEW m,
           Cut(c, d, s, w, t, p, m), CutsAll(c, d, s, w, t, v, p, m), InfosOk(c, t, u)
    PROVE  InfosOk(d, t, v)
<1>1. /\ Len(c) \in Nat /\ p \in Nat /\ p <= Len(c) /\ Len(d) = p
      /\ \A i \in 1..p : /\ i \in 1..Len(c) /\ (i > 1 => i - 1 \in 1..p)
                         /\ i = p \/ (i + 1 \in 1..p /\ i # Len(c))
      /\ \A i \in 1..p : d[i] = c[i] \/ i = p
      /\ \A i \in 1..p : /\ d[i].fn = c[i].fn /\ d[i].reentry = c[i].reentry
                         /\ d[i].ypcall = c[i].ypcall /\ d[i].h = c[i].h
  BY DEF Cut
<1>2. p > 0 => p \in 1..p
  BY <1>1
<1>3. OnLua(d)
  BY <1>1 DEF InfosOk, OnLua
<1>4. Flagged(d)
  <2> SUFFICES ASSUME NEW i \in 1..p
               PROVE  /\ d[i].reentry => d[i].fn = "lua"
                      /\ d[i].ypcall \/ d[i].stat => d[i].fn \in Protected
    BY <1>1 DEF Flagged
  <2>1. d[i].stat => c[i].stat \/ c[i].fn \in Protected
    BY <1>1 DEF CutsAll
  <2>2. QED
    BY <1>1, <2>1 DEF InfosOk, Flagged
<1>5. StatOnTop(d, v)
  <2> SUFFICES ASSUME NEW i \in 1..p, d[i].stat
               PROVE  i = p /\ ~v
    BY <1>1 DEF StatOnTop
  <2>1. i = p
    BY <1>1 DEF InfosOk, StatOnTop
  <2>2. QED
    BY <1>1, <2>1 DEF CutsAll
<1>6. RaiseOnTop(d, v)
  BY <1>1, <1>2 DEF InfosOk, RaiseOnTop, CutsAll
<1>7. HostOnTop(d, t, v)
  BY <1>1 DEF InfosOk, HostOnTop, CutsAll
<1>8. QED
  BY <1>3, <1>4, <1>5, <1>6, <1>7 DEF InfosOk

LEMMA CutFrames ==
    ASSUME NEW c, NEW d, NEW s, NEW w, NEW t, NEW u, NEW v, NEW p, NEW m, m \in Nat, Based(s, t),
           Cut(c, d, s, w, t, p, m), CutsAll(c, d, s, w, t, v, p, m), Stack(c, s, t, u)
    PROVE  FramesOk(d, w, t, v) /\ Ascending(w, t) /\ Repeated(d, w, t)
<1>1. /\ \A i \in Mine(w, t) : i \in Mine(s, t) /\ i < m /\ w[i] = s[i]
      /\ \A i \in Mine(s, t) : i \in Nat /\ s[i].base \in Nat
      /\ \A q : q < p => (HasPin(w, t, q) <=> HasPin(s, t, q))
      /\ \A q : HasTry(w, t, q) => HasTry(s, t, q)
  BY CutTakes
<1>2. /\ Len(c) \in Nat /\ p \in Nat /\ p <= Len(c) /\ Len(d) = p
      /\ \A i \in 1..p : i \in 1..Len(c)
      /\ \A i \in 1..p : d[i] = c[i] \/ i = p
      /\ \A i \in 1..p : d[i].fn = c[i].fn /\ d[i].reentry = c[i].reentry /\ d[i].ypcall = c[i].ypcall
  BY DEF Cut
<1>3. \A i \in Mine(w, t) : /\ s[i].base \in Nat /\ s[i].base <= p
                            /\ s[i].base < p => s[i].base + 1 \in 1..p /\ s[i].base < Len(c)
                            /\ s[i].base > 0 => s[i].base \in 1..p
                            /\ s[i].k = "call" => s[i].base < p \/ v
                            /\ s[i].base < p => s[i].base # Len(c)
  BY <1>1, <1>2 DEF CutsAll
<1>4. CallsOk(d, w, t, v)
  BY <1>1, <1>2, <1>3 DEF Stack, FramesOk, CallsOk
<1>5. PCallsOk(d, w, t)
  <2> SUFFICES ASSUME NEW i \in Mine(w, t), s[i].k = "pcall"
               PROVE  /\ s[i].base \in 1..p /\ d[s[i].base].fn \in Protected
                      /\ ~d[s[i].base].ypcall /\ ~d[s[i].base].stat
                      /\ s[i].base = p \/ HasPin(w, t, s[i].base)
    BY <1>1, <1>2 DEF PCallsOk
  <2> DEFINE b == s[i].base
  <2>1. /\ b \in 1..Len(c) /\ c[b].fn \in Protected /\ ~c[b].ypcall /\ ~c[b].stat
        /\ b = Len(c) \/ HasPin(s, t, b)
    BY <1>1 DEF Stack, FramesOk, PCallsOk
  <2>2. b \in 1..p /\ b <= p
    BY <1>1, <1>2, <1>3, <2>1
  <2>3. d[b].fn \in Protected /\ ~d[b].ypcall
    BY <1>2, <2>1, <2>2
  <2>4. HasTry(w, t, b)
    BY <1>1 DEF HasTry
  <2>5. ~d[b].stat
    BY <1>2, <2>1, <2>2, <2>4 DEF CutsAll
  <2>6. b = p \/ HasPin(w, t, b)
    BY <1>1, <1>2, <2>1, <2>2
  <2>7. QED
    BY <2>2, <2>3, <2>5, <2>6
<1>6. HostsOk(d, w, t)
  BY <1>1, <1>2, <1>3 DEF Stack, FramesOk, HostsOk
<1>7. ResumesOk(w, t)
  BY <1>1 DEF Stack, FramesOk, ResumesOk
<1>8. Ascending(w, t)
  BY <1>1 DEF Stack, Ascending
<1>9. Repeated(d, w, t)
  <2> SUFFICES ASSUME NEW i \in Mine(w, t), NEW j \in Mine(w, t), i < j,
                      s[i].k = "call", s[j].k = "call", s[i].base = s[j].base
               PROVE  s[i].base = p \/ d[s[i].base + 1].fn = "handler"
    BY <1>1, <1>2 DEF Repeated
  <2>1. s[i].base = Len(c) \/ c[s[i].base + 1].fn = "handler"
    BY <1>1 DEF Stack, Repeated
  <2>2. s[i].base = p \/ s[i].base < p
    BY <1>2, <1>3
  <2>3. QED
    BY <1>2, <1>3, <2>1, <2>2
<1>10. QED
  BY <1>4, <1>5, <1>6, <1>7, <1>8, <1>9 DEF FramesOk

LEMMA CutOwned ==
    ASSUME NEW c, NEW d, NEW s, NEW w, NEW t, NEW u, NEW v, NEW p, NEW m, m \in Nat, Based(s, t),
           Cut(c, d, s, w, t, p, m), CutsAll(c, d, s, w, t, v, p, m), Stack(c, s, t, u)
    PROVE  Owned(d, w, t, v)
<1>1. /\ \A i \in Mine(w, t) : i \in Mine(s, t) /\ i < m /\ w[i] = s[i]
      /\ \A q : q < p => /\ HasTry(w, t, q) <=> HasTry(s, t, q)
                         /\ HasCall(w, t, q) <=> HasCall(s, t, q)
                         /\ HasPin(w, t, q) <=> HasPin(s, t, q)
      /\ \A q : /\ HasTry(w, t, q) => HasTry(s, t, q)
                /\ HasPin(w, t, q) => HasPin(s, t, q)
  BY CutTakes
<1>2. /\ Len(c) \in Nat /\ p \in Nat /\ p <= Len(c) /\ Len(d) = p
      /\ \A i \in 1..p : /\ i \in 1..Len(c) /\ i - 1 < p /\ (i < p => i < Len(c))
                         /\ i = p \/ i < p
      /\ \A i \in 1..p : d[i].fn = c[i].fn /\ d[i].reentry = c[i].reentry /\ d[i].ypcall = c[i].ypcall
  BY DEF Cut
<1>3. CallsOwned(d, w, t)
  BY <1>1, <1>2 DEF Stack, Owned, CallsOwned
<1>4. Guarded(d, w, t, v)
  <2> SUFFICES ASSUME NEW i \in 1..p, c[i].fn \in Protected, i < p \/ v
               PROVE  c[i].ypcall \/ HasTry(w, t, i)
    BY <1>2 DEF Guarded
  <2>1. CASE i < p
    BY <1>1, <1>2, <2>1 DEF Stack, Owned, Guarded
  <2>2. CASE i = p
    BY <1>2, <2>2 DEF CutsAll
  <2>3. QED
    BY <1>2, <2>1, <2>2
<1>5. PinsOwned(d, w, t)
  BY <1>1, <1>2 DEF Stack, Owned, PinsOwned
<1>6. Yieldable(d, w, t)
  BY <1>1, <1>2 DEF Stack, Owned, Yieldable
<1>7. QED
  BY <1>3, <1>4, <1>5, <1>6 DEF Owned

\* A handler below the cut stays that of its protected call.
LEMMA CutErr ==
    ASSUME NEW c, NEW d, NEW s, NEW w, NEW t, NEW v, NEW p, NEW m, m \in Nat, Based(s, t),
           Cut(c, d, s, w, t, p, m), CutsAll(c, d, s, w, t, v, p, m),
           NEW e, NEW n \in Int, n < p, NEW F, NEW G, G \subseteq F, G \subseteq Mine(w, t),
           ErrOk(c, s, t, e, n, F)
    PROVE  ErrOk(d, w, t, e, n, G)
<1>1. /\ \A i \in Mine(w, t) : i \in Mine(s, t) /\ i < m /\ w[i] = s[i]
      /\ \A q : q < p => (HasTry(w, t, q) <=> HasTry(s, t, q))
  BY CutTakes
<1>2. p \in Nat /\ \A i \in 1..n : i < p /\ d[i] = c[i]
  BY DEF Cut
<1>3. \A i \in 1..n : Guard(d, w, t, i) <=> Guard(c, s, t, i)
  BY <1>1, <1>2 DEF Guard
<1>4. QED
  BY <1>1, <1>2, <1>3 DEF ErrOk

LEMMA CutSaved ==
    ASSUME NEW c, NEW d, NEW s, NEW w, NEW t, NEW u, NEW v, NEW p, NEW m, m \in Nat, Based(s, t),
           Cut(c, d, s, w, t, p, m), CutsAll(c, d, s, w, t, v, p, m), Stack(c, s, t, u)
    PROVE  SavedOk(d, w, t) /\ MarkedOk(d, w, t)
<1>1. /\ \A i \in Mine(w, t) : i \in Mine(s, t) /\ i < m /\ w[i] = s[i]
      /\ \A i \in Mine(s, t) : i \in Nat /\ s[i].base \in Nat
  BY CutTakes
<1>2. /\ Len(c) \in Nat /\ p \in Nat /\ p <= Len(c) /\ Len(d) = p
      /\ \A i \in 1..p : i \in 1..Len(c) /\ d[i].fn = c[i].fn /\ d[i].ypcall = c[i].ypcall /\ d[i].h = c[i].h
  BY DEF Cut
<1>3. \A i : Below(w, t, i) \subseteq Below(s, t, i) /\ Below(w, t, i) \subseteq Mine(w, t)
  BY <1>1 DEF Below
<1>4. ASSUME NEW i \in Mine(w, t), s[i].k = "pcall"
      PROVE  ErrOk(d, w, t, s[i].errfunc, s[i].base - 1, Below(w, t, i))
  <2>1. ErrOk(c, s, t, s[i].errfunc, s[i].base - 1, Below(s, t, i))
    BY <1>1, <1>4 DEF Stack, SavedOk
  <2>2. s[i].base - 1 \in Int /\ s[i].base - 1 < p
    BY <1>1, <1>2 DEF CutsAll
  <2>3. QED
    BY <1>3, <2>1, <2>2, CutErr
<1>5. ASSUME NEW i \in Mine(w, t), s[i].k = "host"
      PROVE  ErrOk(d, w, t, s[i].errfunc, s[i].base, Below(w, t, i))
  <2> DEFINE b == s[i].base
             e == s[i].errfunc
  <2>1. ErrOk(c, s, t, e, b, Below(s, t, i))
    BY <1>1, <1>5 DEF Stack, SavedOk
  <2>2. b \in Nat /\ b <= p
    BY <1>1 DEF CutsAll
  <2>3. CASE b < p
    BY <1>3, <2>1, <2>2, <2>3, CutErr
  <2>4. CASE b = 0
    BY <2>1, <2>4 DEF ErrOk
  <2>5. CASE b = p /\ b # 0
    <3>1. c[b].fn \in Callers
      BY <1>1, <1>5, <2>5 DEF Stack, FramesOk, HostsOk
    <3>2. c[b].fn \notin Protected /\ b \in 1..p /\ b - 1 \in Int /\ b - 1 < p
      BY <2>2, <2>5, <3>1 DEF Callers, Protected
    <3>3. \A j \in 1..b : j = b \/ j \in 1..b - 1
      BY <2>2
    <3>4. \A j \in 1..b - 1 : j \in 1..b
      BY <2>2
    <3>5. ErrOk(c, s, t, e, b - 1, Below(s, t, i))
      BY <2>1, <3>2, <3>3, <3>4 DEF ErrOk, Guard
    <3>6. ErrOk(d, w, t, e, b - 1, Below(w, t, i))
      BY <1>3, <3>2, <3>5, CutErr
    <3>7. ~Guard(d, w, t, b)
      BY <1>2, <3>2 DEF Guard
    <3>8. QED
      BY <3>3, <3>4, <3>6, <3>7 DEF ErrOk
  <2>6. QED
    BY <1>2, <2>2, <2>3, <2>4, <2>5
<1>6. SavedOk(d, w, t)
  BY <1>1, <1>4, <1>5 DEF SavedOk
<1>7. MarkedOk(d, w, t)
  <2> SUFFICES ASSUME NEW i \in 1..p, c[i].ypcall
               PROVE  ErrOk(d, w, t, c[i].h, i - 1, Mine(w, t))
    BY <1>2 DEF MarkedOk
  <2>1. ErrOk(c, s, t, c[i].h, i - 1, Mine(s, t))
    BY <1>2 DEF Stack, MarkedOk
  <2>2. i - 1 \in Int /\ i - 1 < p /\ Mine(w, t) \subseteq Mine(s, t)
    BY <1>1, <1>2
  <2>3. QED
    BY <2>1, <2>2, CutErr
<1>8. QED
  BY <1>6, <1>7

\* So a cut leaves calls and frames that fit together.
LEMMA CutStack ==
    ASSUME NEW c, NEW d, NEW s, NEW w, NEW t, NEW u, NEW v, NEW p, NEW m, m \in Nat, Based(s, t),
           Cut(c, d, s, w, t, p, m), CutsAll(c, d, s, w, t, v, p, m), Stack(c, s, t, u)
    PROVE  Stack(d, w, t, v)
BY CutInfos, CutFrames, CutOwned, CutSaved DEF Stack

\* A call begins on the calls and the frames below it.
Pushed(c, d) == /\ Len(c) \in Nat /\ Len(d) = Len(c) + 1
                /\ \A i \in 1..Len(c) : d[i] = c[i]
\* What the call f needs of them,
PushesInfo(c, s, t, v, f) ==
    /\ f.fn \notin Functions => Len(c) > 0 /\ c[Len(c)].fn \in Functions
    /\ f.reentry => f.fn = "lua"
    /\ ~f.stat
    /\ f.fn = "raise" => v
    /\ f.fn = "host" => t = Main \/ ~v
    /\ f.fn \in Protected /\ v => f.ypcall
    /\ f.fn = "handler" => HasPin(s, t, Len(c))
    /\ f.fn \in Functions /\ ~f.reentry =>
         HasCall(s, t, Len(c)) \/ \A i \in Mine(s, t) : s[i].k # "call"
    /\ f.ypcall => /\ f.fn \in Protected /\ t # Main
                   /\ \A q \in 0..Len(c) : ~HasTry(s, t, q) /\ ~HasPin(s, t, q)
                   /\ ErrOk(c, s, t, f.h, Len(c), Mine(s, t))
\* and what they need of it.
PushesOn(c, s, t, f) ==
    /\ Len(c) > 0 =>
         /\ ~c[Len(c)].stat
         /\ c[Len(c)].fn = "raise" => f.fn = "handler"
         /\ c[Len(c)].fn = "host" => t = Main
         /\ c[Len(c)].fn = "sort" => HasPin(s, t, Len(c))
         /\ c[Len(c)].fn \in Protected => \/ c[Len(c)].ypcall
                                          \/ HasTry(s, t, Len(c)) /\ HasPin(s, t, Len(c))
    /\ \A i \in Mine(s, t) : s[i].k = "call" /\ s[i].base = Len(c)
         => f.fn \in Functions /\ ~f.reentry
    /\ \A i, j \in Mine(s, t) :
         i < j /\ s[i].k = "call" /\ s[j].k = "call" /\ s[i].base = Len(c) /\ s[j].base = Len(c)
         => f.fn = "handler"

\* The calls are in order with one more; so are the frames, what the calls
\* need of them, and the handlers.
LEMMA PushInfos ==
    ASSUME NEW c, NEW d, NEW s, NEW t, NEW u, NEW v, NEW f, d[Len(c) + 1] = f,
           Pushed(c, d), PushesInfo(c, s, t, v, f), PushesOn(c, s, t, f), InfosOk(c, t, u)
    PROVE  InfosOk(d, t, v)
<1> DEFINE n == Len(c)
           k == Len(c) + 1
<1>1. /\ n \in Nat /\ k \in Nat /\ k = n + 1 /\ k - 1 = n /\ (n > 0 => n \in 1..n /\ k > 1)
      /\ \A i \in 1..n : i # k /\ n > 0 /\ (i # n => i + 1 \in 1..n) /\ (i > 1 => i - 1 \in 1..n)
  BY DEF Pushed
<1>2. /\ Len(d) = k /\ d[k] = f /\ (\A i \in 1..k : i \in 1..n \/ i = k)
      /\ \A i \in 1..n : d[i] = c[i]
  BY DEF Pushed
<1> HIDE DEF n, k
<1>3. OnLua(d)
  <2>1. f.fn \notin Functions => n > 0 /\ c[n].fn \in Functions
    BY Zenon DEF n, PushesInfo
  <2>2. \A i \in 1..n : d[i].fn \notin Functions => i > 1 /\ d[i - 1].fn \in Functions
    BY <1>1, <1>2 DEF InfosOk, OnLua, n
  <2>3. d[k].fn \notin Functions => k > 1 /\ d[k - 1].fn \in Functions
    BY <1>1, <1>2, <2>1
  <2>4. QED
    BY <1>2, <2>2, <2>3 DEF OnLua
<1>4. Flagged(d)
  <2>1. /\ f.reentry => f.fn = "lua"
        /\ f.ypcall \/ f.stat => f.fn \in Protected
    BY Zenon DEF PushesInfo
  <2>2. \A i \in 1..n : /\ d[i].reentry => d[i].fn = "lua"
                        /\ d[i].ypcall \/ d[i].stat => d[i].fn \in Protected
    BY <1>2 DEF InfosOk, Flagged, n
  <2>3. QED
    BY <1>2, <2>1, <2>2 DEF Flagged
<1>5. StatOnTop(d, v)
  <2>1. ~f.stat /\ (n > 0 => ~c[n].stat)
    BY Zenon DEF n, PushesInfo, PushesOn
  <2>2. \A i \in 1..n : ~d[i].stat
    BY <1>1, <1>2, <2>1 DEF InfosOk, StatOnTop, n
  <2>3. QED
    BY <1>2, <2>1, <2>2 DEF StatOnTop
<1>6. RaiseOnTop(d, v)
  <2>1. /\ f.fn = "raise" => v
        /\ n > 0 => (c[n].fn = "raise" => f.fn = "handler")
    BY Zenon DEF n, PushesInfo, PushesOn
  <2>2. ASSUME NEW i \in 1..n, d[i].fn = "raise"
        PROVE  d[i + 1].fn = "handler"
    <3>1. CASE i = n
      BY <1>1, <1>2, <2>1, <2>2, <3>1
    <3>2. CASE i # n
      <4>1. c[i + 1].fn = "handler"
        BY <1>2, <2>2, <3>2 DEF InfosOk, RaiseOnTop, n
      <4>2. QED
        BY <1>1, <1>2, <3>2, <4>1
    <3>3. QED
      BY <3>1, <3>2
  <2>3. \A i \in 1..n : i # Len(d)
    BY <1>1, <1>2
  <2>4. QED
    BY <1>2, <2>1, <2>2, <2>3 DEF RaiseOnTop
<1>7. HostOnTop(d, t, v)
  <2>1. /\ f.fn = "host" => t = Main \/ ~v
        /\ n > 0 => (c[n].fn = "host" => t = Main)
    BY Zenon DEF n, PushesInfo, PushesOn
  <2>2. t # Main => \A i \in 1..n : d[i].fn # "host"
    BY <1>1, <1>2, <2>1 DEF InfosOk, HostOnTop, n
  <2>3. QED
    BY <1>2, <2>1, <2>2 DEF HostOnTop
<1>8. QED
  BY <1>3, <1>4, <1>5, <1>6, <1>7 DEF InfosOk

\* No frame stands above the calls.
LEMMA BasesBounded ==
    ASSUME NEW c, NEW s, NEW t, NEW u, Len(c) \in Nat, Based(s, t), FramesOk(c, s, t, u)
    PROVE  \A i \in Mine(s, t) : s[i].k \in Tries \cup {"call"} =>
              s[i].base \in Nat /\ s[i].base <= Len(c)
BY DEF FramesOk, CallsOk, PCallsOk, HostsOk, ResumesOk, Based, Tries

LEMMA PushFrames ==
    ASSUME NEW c, NEW d, NEW s, NEW t, NEW u, NEW v, NEW f, d[Len(c) + 1] = f, Based(s, t),
           \A i \in Mine(s, t) : s[i].k \in Tries \cup {"call"},
           Pushed(c, d), PushesInfo(c, s, t, v, f), PushesOn(c, s, t, f), Stack(c, s, t, u)
    PROVE  FramesOk(d, s, t, v) /\ Repeated(d, s, t)
<1>1. \A i \in Mine(s, t) : s[i].base \in Nat /\ s[i].base <= Len(c)
  BY BasesBounded DEF Stack, Pushed
<1>2. /\ Len(c) \in Nat /\ Len(d) = Len(c) + 1
      /\ \A i \in 1..Len(c) : d[i] = c[i] /\ i \in 1..Len(d)
      /\ \A i \in Mine(s, t) : /\ s[i].base < Len(d) /\ s[i].base # Len(d)
                               /\ s[i].base = Len(c) \/ s[i].base + 1 \in 1..Len(c)
                               /\ s[i].base = Len(c) \/ s[i].base < Len(c)
  BY <1>1 DEF Pushed
<1>3. CallsOk(d, s, t, v)
  <2> SUFFICES ASSUME NEW i \in Mine(s, t), s[i].k = "call"
               PROVE  d[s[i].base + 1].fn \in Functions /\ ~d[s[i].base + 1].reentry
    BY <1>1, <1>2 DEF CallsOk
  <2>1. CASE s[i].base = Len(c)
    BY <2>1 DEF PushesOn
  <2>2. CASE s[i].base # Len(c)
    BY <1>2, <2>2 DEF Stack, FramesOk, CallsOk
  <2>3. QED
    BY <2>1, <2>2
<1>4. PCallsOk(d, s, t)
  <2> SUFFICES ASSUME NEW i \in Mine(s, t), s[i].k = "pcall"
               PROVE  /\ s[i].base \in 1..Len(d) /\ d[s[i].base].fn \in Protected
                      /\ ~d[s[i].base].ypcall /\ ~d[s[i].base].stat
                      /\ HasPin(s, t, s[i].base)
    BY <1>2 DEF PCallsOk
  <2>1. /\ s[i].base \in 1..Len(c) /\ c[s[i].base].fn \in Protected
        /\ ~c[s[i].base].ypcall /\ ~c[s[i].base].stat
        /\ s[i].base = Len(c) \/ HasPin(s, t, s[i].base)
    BY DEF Stack, FramesOk, PCallsOk
  <2>2. HasPin(s, t, s[i].base)
    BY <1>2, <2>1 DEF PushesOn
  <2>3. QED
    BY <1>2, <2>1, <2>2
<1>5. HostsOk(d, s, t)
  BY <1>2 DEF Stack, FramesOk, HostsOk
<1>6. ResumesOk(s, t)
  BY DEF Stack, FramesOk
<1>7. Repeated(d, s, t)
  <2> SUFFICES ASSUME NEW i \in Mine(s, t), NEW j \in Mine(s, t), i < j,
                      s[i].k = "call", s[j].k = "call", s[i].base = s[j].base
               PROVE  d[s[i].base + 1].fn = "handler"
    BY DEF Repeated
  <2>1. CASE s[i].base = Len(c)
    BY <2>1 DEF PushesOn
  <2>2. CASE s[i].base # Len(c)
    <3>1. c[s[i].base + 1].fn = "handler"
      BY <2>2 DEF Stack, Repeated
    <3>2. QED
      BY <1>2, <2>2, <3>1
  <2>3. QED
    BY <2>1, <2>2
<1>8. QED
  BY <1>3, <1>4, <1>5, <1>6, <1>7 DEF FramesOk

LEMMA PushOwned ==
    ASSUME NEW c, NEW d, NEW s, NEW t, NEW u, NEW v, NEW f, d[Len(c) + 1] = f, Based(s, t),
           Pushed(c, d), PushesInfo(c, s, t, v, f), PushesOn(c, s, t, f), Stack(c, s, t, u)
    PROVE  Owned(d, s, t, v)
<1> DEFINE n == Len(c)
           k == Len(c) + 1
<1>1. /\ n \in Nat /\ k \in Nat /\ k - 1 = n /\ 0..k - 1 = 0..n
      /\ \A i \in 1..n : i # k /\ (i = n \/ i < n) /\ n > 0
  BY DEF Pushed
<1>2. /\ Len(d) = k /\ d[k] = f /\ (\A i \in 1..k : i \in 1..n \/ i = k)
      /\ \A i \in 1..n : d[i] = c[i]
  BY DEF Pushed
<1> HIDE DEF n, k
<1>3. CallsOwned(d, s, t)
  <2> SUFFICES ASSUME NEW i \in Mine(s, t), NEW q \in 1..k,
                      s[i].k = "call", q > s[i].base + 1, d[q].fn \in Functions, ~d[q].reentry
               PROVE  HasCall(s, t, q - 1)
    BY <1>2 DEF CallsOwned
  <2>1. CASE q = k
    <3>1. HasCall(s, t, n)
      BY <1>2, <2>1 DEF PushesInfo, n
    <3>2. QED
      BY <1>1, <2>1, <3>1
  <2>2. CASE q \in 1..n
    BY <1>2, <2>2 DEF Stack, Owned, CallsOwned, n
  <2>3. QED
    BY <1>2, <2>1, <2>2
<1>4. Guarded(d, s, t, v)
  <2> SUFFICES ASSUME NEW i \in 1..k, d[i].fn \in Protected, i < k \/ v
               PROVE  d[i].ypcall \/ HasTry(s, t, i)
    BY <1>2 DEF Guarded
  <2>1. CASE i = k
    <3>1. v
      BY <1>1, <2>1
    <3>2. QED
      BY <1>2, <2>1, <3>1 DEF PushesInfo
  <2>2. CASE i \in 1..n
    <3>1. CASE i = n
      BY <1>1, <1>2, <2>2, <3>1 DEF PushesOn, n
    <3>2. CASE i < n
      BY <1>2, <2>2, <3>2 DEF Stack, Owned, Guarded, n
    <3>3. QED
      BY <1>1, <2>2, <3>1, <3>2
  <2>3. QED
    BY <1>2, <2>1, <2>2
<1>5. PinsOwned(d, s, t)
  <2> SUFFICES ASSUME NEW i \in 1..k
               PROVE  /\ d[i].fn = "handler" => HasPin(s, t, i - 1)
                      /\ d[i].fn = "sort" /\ i < k => HasPin(s, t, i)
    BY <1>2 DEF PinsOwned
  <2>1. CASE i = k
    <3>1. ~(i < k) /\ i - 1 = n
      BY <1>1, <2>1
    <3>2. QED
      BY <1>2, <2>1, <3>1 DEF PushesInfo, n
  <2>2. CASE i \in 1..n
    <3>1. d[i].fn = "handler" => HasPin(s, t, i - 1)
      BY <1>2, <2>2 DEF Stack, Owned, PinsOwned, n
    <3>2. CASE i = n
      BY <1>1, <1>2, <2>2, <3>1, <3>2 DEF PushesOn, n
    <3>3. CASE i < n
      BY <1>2, <2>2, <3>1, <3>3 DEF Stack, Owned, PinsOwned, n
    <3>4. QED
      BY <1>1, <2>2, <3>2, <3>3
  <2>3. QED
    BY <1>2, <2>1, <2>2
<1>6. Yieldable(d, s, t)
  <2> SUFFICES ASSUME NEW i \in 1..k, d[i].ypcall
               PROVE  t # Main /\ \A q \in 0..i - 1 : ~HasTry(s, t, q) /\ ~HasPin(s, t, q)
    BY <1>2 DEF Yieldable
  <2>1. CASE i = k
    <3>1. t # Main /\ \A q \in 0..n : ~HasTry(s, t, q) /\ ~HasPin(s, t, q)
      BY <1>2, <2>1 DEF PushesInfo, n
    <3>2. QED
      BY <1>1, <2>1, <3>1
  <2>2. CASE i \in 1..n
    BY <1>2, <2>2 DEF Stack, Owned, Yieldable, n
  <2>3. QED
    BY <1>2, <2>1, <2>2
<1>7. QED
  BY <1>3, <1>4, <1>5, <1>6 DEF Owned

\* A handler stays that of its protected call under a new call.
LEMMA PushErr ==
    ASSUME NEW c, NEW d, NEW s, NEW t, Pushed(c, d),
           NEW e, NEW n \in Int, n <= Len(c), NEW F, ErrOk(c, s, t, e, n, F)
    PROVE  ErrOk(d, s, t, e, n, F)
<1>1. \A i \in 1..n : d[i] = c[i]
  BY DEF Pushed
<1>2. \A i \in 1..n : Guard(d, s, t, i) <=> Guard(c, s, t, i)
  BY <1>1 DEF Guard
<1>3. QED
  BY <1>1, <1>2 DEF ErrOk

LEMMA PushSaved ==
    ASSUME NEW c, NEW d, NEW s, NEW t, NEW u, NEW v, NEW f, d[Len(c) + 1] = f, Based(s, t),
           \A i \in Mine(s, t) : s[i].k \in Tries \cup {"call"},
           Pushed(c, d), PushesInfo(c, s, t, v, f), PushesOn(c, s, t, f), Stack(c, s, t, u)
    PROVE  SavedOk(d, s, t) /\ MarkedOk(d, s, t)
<1>1. \A i \in Mine(s, t) : s[i].base \in Nat /\ s[i].base <= Len(c)
  BY BasesBounded DEF Stack, Pushed
<1>2. Len(c) \in Nat /\ Len(d) = Len(c) + 1 /\ 1..Len(d) = 1..Len(c) \cup {Len(c) + 1}
  BY DEF Pushed
<1>3. SavedOk(d, s, t)
  <2> SUFFICES ASSUME NEW i \in Mine(s, t)
               PROVE  /\ s[i].k = "pcall" => ErrOk(d, s, t, s[i].errfunc, s[i].base - 1, Below(s, t, i))
                      /\ s[i].k = "host" => ErrOk(d, s, t, s[i].errfunc, s[i].base, Below(s, t, i))
    BY DEF SavedOk
  <2>1. s[i].base - 1 \in Int /\ s[i].base \in Int /\ s[i].base - 1 <= Len(c) /\ s[i].base <= Len(c)
    BY <1>1, <1>2
  <2>2. QED
    BY <2>1, PushErr DEF Stack, SavedOk
<1>4. MarkedOk(d, s, t)
  <2> SUFFICES ASSUME NEW i \in 1..Len(c) + 1, d[i].ypcall
               PROVE  ErrOk(d, s, t, d[i].h, i - 1, Mine(s, t))
    BY <1>2 DEF MarkedOk
  <2>1. i - 1 \in Int /\ i - 1 <= Len(c) /\ i \in 1..Len(c) \cup {Len(c) + 1} /\ (i = Len(c) + 1 => i - 1 = Len(c))
    BY <1>2
  <2>2. ErrOk(c, s, t, d[i].h, i - 1, Mine(s, t))
    <3>1. CASE i = Len(c) + 1
      BY <2>1, <3>1 DEF PushesInfo
    <3>2. CASE i \in 1..Len(c)
      BY <3>2 DEF Stack, MarkedOk, Pushed
    <3>3. QED
      BY <2>1, <3>1, <3>2
  <2>3. QED
    BY <2>1, <2>2, PushErr
<1>5. QED
  BY <1>3, <1>4

\* So a new call leaves calls and frames that fit together.
LEMMA PushStack ==
    ASSUME NEW c, NEW d, NEW s, NEW t, NEW u, NEW v, NEW f, d[Len(c) + 1] = f, Based(s, t),
           \A i \in Mine(s, t) : s[i].k \in Tries \cup {"call"},
           Pushed(c, d), PushesInfo(c, s, t, v, f), PushesOn(c, s, t, f), Stack(c, s, t, u)
    PROVE  Stack(d, s, t, v)
BY PushInfos, PushFrames, PushOwned, PushSaved DEF Stack

\* The handler in force, where the call that begins is no protected call.
LEMMA PushHandler ==
    ASSUME NEW c, NEW d, NEW s, NEW t, NEW f, d[Len(c) + 1] = f, f.fn \notin Protected,
           Pushed(c, d), NEW e, ErrOk(c, s, t, e, Len(c), Mine(s, t))
    PROVE  ErrOk(d, s, t, e, Len(d), Mine(s, t))
<1>1. ErrOk(d, s, t, e, Len(c), Mine(s, t)) /\ ~Guard(d, s, t, Len(c) + 1)
  BY PushErr DEF Pushed, Guard
<1>2. 1..Len(d) = 1..Len(c) \cup {Len(c) + 1} /\ Len(c) \in Nat
  BY DEF Pushed
<1>3. QED
  BY <1>1, <1>2 DEF ErrOk

\* A frame comes on the C stack.
Grown(s, w, t, k) == /\ k \in Nat /\ Mine(w, t) = Mine(s, t) \cup {k}
                     /\ \A i \in Mine(s, t) : i \in Nat /\ i < k /\ w[i] = s[i]

\* What the new frame adds.
LEMMA GrowTakes ==
    ASSUME NEW s, NEW w, NEW t, NEW k, Grown(s, w, t, k)
    PROVE  /\ \A q : HasTry(w, t, q) <=> HasTry(s, t, q) \/ (w[k].k = "pcall" /\ w[k].base = q)
           /\ \A q : HasCall(w, t, q) <=> HasCall(s, t, q) \/ (w[k].k = "call" /\ w[k].base = q)
           /\ \A q : HasPin(w, t, q) <=> HasPin(s, t, q)
                                         \/ (w[k].k = "call" /\ ~w[k].allow /\ w[k].base = q)
           /\ \A i \in Mine(s, t) : Below(w, t, i) = Below(s, t, i) /\ Below(s, t, i) \subseteq Mine(s, t)
           /\ Below(w, t, k) = Mine(s, t)
<1>1. \A i \in Mine(w, t) : i \in Mine(s, t) \/ i = k
  BY DEF Grown
<1>2. ~(k < k) /\ \A i \in Mine(s, t) : ~(k < i) /\ i < k
  BY DEF Grown
<1>3. QED
  BY <1>1, <1>2 DEF Grown, HasTry, HasCall, HasPin, Below

\* A handler stays that of its protected call under a new frame.
LEMMA GrowErr ==
    ASSUME NEW s, NEW w, NEW t, NEW k, Grown(s, w, t, k), NEW c, NEW e, NEW n \in Int,
           \A q \in 1..n : HasTry(w, t, q) <=> HasTry(s, t, q), NEW F, NEW G, ErrOk(c, s, t, e, n, F),
           \A j \in G : w[j].k = "host" => j \in F /\ j \in Mine(s, t)
    PROVE  ErrOk(c, w, t, e, n, G)
<1>1. \A q \in 1..n : Guard(c, w, t, q) <=> Guard(c, s, t, q)
  BY DEF Guard
<1>2. \A j \in Mine(s, t) : w[j] = s[j]
  BY DEF Grown
<1>3. QED
  BY <1>1, <1>2 DEF ErrOk

\* The handlers that are saved below stay right; those saved with the new frame
\* come later.
LEMMA GrowSaved ==
    ASSUME NEW s, NEW w, NEW t, NEW k, Grown(s, w, t, k), NEW c, Len(c) \in Nat, Based(s, t),
           \A i \in Mine(s, t) : s[i].base <= Len(c) /\ (w[k].k = "pcall" => s[i].base < w[k].base),
           w[k].k = "pcall" => w[k].base = Len(c), w[k].k # "host" \/ t = Main,
           SavedOk(c, s, t), MarkedOk(c, s, t), Yieldable(c, s, t),
           w[k].k = "pcall" => ErrOk(c, w, t, w[k].errfunc, w[k].base - 1, Mine(s, t)),
           w[k].k = "host" => ErrOk(c, w, t, w[k].errfunc, w[k].base, Mine(s, t))
    PROVE  SavedOk(c, w, t) /\ MarkedOk(c, w, t)
<1>1. /\ \A q : HasTry(w, t, q) <=> HasTry(s, t, q) \/ (w[k].k = "pcall" /\ w[k].base = q)
      /\ \A i \in Mine(s, t) : Below(w, t, i) = Below(s, t, i) /\ Below(s, t, i) \subseteq Mine(s, t)
      /\ Below(w, t, k) = Mine(s, t)
  BY GrowTakes
<1>2. /\ \A i \in Mine(w, t) : i \in Mine(s, t) \/ i = k
      /\ \A i \in Mine(s, t) : w[i] = s[i] /\ s[i].base \in Nat
  BY DEF Grown, Based
<1>3. SavedOk(c, w, t)
  <2> SUFFICES ASSUME NEW i \in Mine(w, t)
               PROVE  /\ w[i].k = "pcall" => ErrOk(c, w, t, w[i].errfunc, w[i].base - 1, Below(w, t, i))
                      /\ w[i].k = "host" => ErrOk(c, w, t, w[i].errfunc, w[i].base, Below(w, t, i))
    BY DEF SavedOk
  <2>1. CASE i = k
    BY <1>1, <2>1
  <2>2. CASE i \in Mine(s, t)
    <3> DEFINE b == s[i].base
    <3>1. b \in Int /\ b - 1 \in Int /\ b \in Nat /\ b <= Len(c) /\ (w[k].k = "pcall" => b < w[k].base)
      BY <1>2, <2>2
    <3>2. \A q \in 1..b : HasTry(w, t, q) <=> HasTry(s, t, q)
      BY <1>1, <2>2, <3>1
    <3>3. \A q \in 1..b - 1 : HasTry(w, t, q) <=> HasTry(s, t, q)
      BY <3>1, <3>2
    <3>4. \A j \in Below(w, t, i) : j \in Below(s, t, i) /\ j \in Mine(s, t)
      BY <1>1, <2>2
    <3>5. CASE s[i].k = "pcall"
      <4>1. ErrOk(c, s, t, s[i].errfunc, b - 1, Below(s, t, i))
        BY <2>2, <3>5 DEF SavedOk
      <4>2. ErrOk(c, w, t, s[i].errfunc, b - 1, Below(w, t, i))
        BY <3>1, <3>3, <3>4, <4>1, GrowErr
      <4>3. QED
        BY <1>2, <2>2, <3>5, <4>2
    <3>6. CASE s[i].k = "host"
      <4>1. ErrOk(c, s, t, s[i].errfunc, b, Below(s, t, i))
        BY <2>2, <3>6 DEF SavedOk
      <4>2. ErrOk(c, w, t, s[i].errfunc, b, Below(w, t, i))
        BY <3>1, <3>2, <3>4, <4>1, GrowErr
      <4>3. QED
        BY <1>2, <2>2, <3>6, <4>2
    <3>7. QED
      BY <1>2, <2>2, <3>5, <3>6
  <2>3. QED
    BY <1>2, <2>1, <2>2
<1>4. MarkedOk(c, w, t)
  <2> SUFFICES ASSUME NEW i \in 1..Len(c), c[i].ypcall
               PROVE  ErrOk(c, w, t, c[i].h, i - 1, Mine(w, t))
    BY DEF MarkedOk
  <2>1. t # Main
    BY DEF Yieldable
  <2>2. i - 1 \in Int /\ \A q \in 1..i - 1 : q < Len(c) /\ q # Len(c)
    OBVIOUS
  <2>3. \A q \in 1..i - 1 : HasTry(w, t, q) <=> HasTry(s, t, q)
    BY <1>1, <2>2
  <2>4. \A j \in Mine(w, t) : w[j].k = "host" => j \in Mine(s, t)
    BY <1>2, <2>1
  <2>5. ErrOk(c, s, t, c[i].h, i - 1, Mine(s, t))
    BY DEF MarkedOk
  <2>6. QED
    BY <2>2, <2>3, <2>4, <2>5, GrowErr
<1>5. QED
  BY <1>3, <1>4

\* luaD_call: its frame comes first; where it fails no call follows.
LEMMA GrowCall ==
    ASSUME NEW s, NEW w, NEW t, NEW k, Grown(s, w, t, k), NEW c, Len(c) \in Nat, Based(s, t),
           \A i \in Mine(s, t) : s[i].k \in Tries \cup {"call"},
           w[k].k = "call", w[k].base = Len(c),
           Len(c) > 0 => /\ ~c[Len(c)].stat
                         /\ c[Len(c)].fn = "host" => t = Main
                         /\ c[Len(c)].fn \in Protected => c[Len(c)].ypcall \/ HasTry(s, t, Len(c)),
           NEW u, Stack(c, s, t, u)
    PROVE  /\ Stack(c, w, t, TRUE)
           /\ \A e : ErrOk(c, s, t, e, Len(c), Mine(s, t)) => ErrOk(c, w, t, e, Len(c), Mine(w, t))
<1>1. /\ \A q : HasTry(w, t, q) <=> HasTry(s, t, q)
      /\ \A q : HasCall(w, t, q) <=> HasCall(s, t, q) \/ q = Len(c)
      /\ \A q : HasPin(s, t, q) => HasPin(w, t, q)
      /\ \A q : HasPin(w, t, q) => HasPin(s, t, q) \/ q = Len(c)
  BY GrowTakes
<1>2. /\ \A i \in Mine(w, t) : i \in Mine(s, t) \/ i = k
      /\ \A i \in Mine(s, t) : w[i] = s[i] /\ i \in Nat /\ i < k
      /\ k \in Nat /\ Mine(s, t) \subseteq Mine(w, t)
  BY DEF Grown
<1>3. \A i \in Mine(s, t) : s[i].base \in Nat /\ s[i].base <= Len(c)
  BY BasesBounded DEF Stack
<1>4. InfosOk(c, t, TRUE)
  <2>1. StatOnTop(c, TRUE)
    BY DEF Stack, InfosOk, StatOnTop
  <2>2. RaiseOnTop(c, TRUE)
    BY DEF Stack, InfosOk, RaiseOnTop
  <2>3. HostOnTop(c, t, TRUE)
    <3> SUFFICES ASSUME t # Main, NEW i \in 1..Len(c) PROVE c[i].fn # "host"
      BY DEF HostOnTop
    <3>1. c[i].fn = "host" => i = Len(c)
      BY DEF Stack, InfosOk, HostOnTop
    <3>2. QED
      BY <3>1
  <2>4. QED
    BY <2>1, <2>2, <2>3 DEF Stack, InfosOk
<1>5. FramesOk(c, w, t, TRUE)
  <2>1. CallsOk(c, w, t, TRUE)
    BY <1>2, <1>3 DEF Stack, FramesOk, CallsOk
  <2>2. PCallsOk(c, w, t)
    BY <1>1, <1>2 DEF Stack, FramesOk, PCallsOk
  <2>3. HostsOk(c, w, t)
    BY <1>2 DEF Stack, FramesOk, HostsOk
  <2>4. ResumesOk(w, t)
    BY <1>2 DEF Stack, FramesOk, ResumesOk
  <2>5. QED
    BY <2>1, <2>2, <2>3, <2>4 DEF FramesOk
<1>6. Ascending(w, t)
  <2> SUFFICES ASSUME NEW i \in Mine(w, t), NEW j \in Mine(w, t), i < j
               PROVE  w[i].base <= w[j].base /\ (w[j].k # "call" => w[i].base < w[j].base)
    BY DEF Ascending
  <2>1. i \in Mine(s, t)
    BY <1>2
  <2>2. CASE j = k
    BY <1>2, <1>3, <2>1, <2>2
  <2>3. CASE j \in Mine(s, t)
    BY <1>2, <2>1, <2>3 DEF Stack, Ascending
  <2>4. QED
    BY <1>2, <2>2, <2>3
<1>7. Repeated(c, w, t)
  <2> SUFFICES ASSUME NEW i \in Mine(w, t), NEW j \in Mine(w, t), i < j,
                      w[i].k = "call", w[j].k = "call", w[i].base = w[j].base
               PROVE  w[i].base = Len(c) \/ c[w[i].base + 1].fn = "handler"
    BY DEF Repeated
  <2>1. i \in Mine(s, t)
    BY <1>2
  <2>2. CASE j \in Mine(s, t)
    BY <1>2, <2>1, <2>2 DEF Stack, Repeated
  <2>3. QED
    BY <1>2, <2>1, <2>2
<1>8. Owned(c, w, t, TRUE)
  <2>1. CallsOwned(c, w, t)
    <3> SUFFICES ASSUME NEW i \in Mine(w, t), NEW q \in 1..Len(c),
                        w[i].k = "call", q > w[i].base + 1, c[q].fn \in Functions, ~c[q].reentry
                 PROVE  HasCall(w, t, q - 1)
      BY DEF CallsOwned
    <3>1. i \in Mine(s, t)
      BY <1>2
    <3>2. QED
      BY <1>1, <1>2, <3>1 DEF Stack, Owned, CallsOwned
  <2>2. Guarded(c, w, t, TRUE)
    <3> SUFFICES ASSUME NEW i \in 1..Len(c), c[i].fn \in Protected
                 PROVE  c[i].ypcall \/ HasTry(s, t, i)
      BY <1>1 DEF Guarded
    <3>1. i = Len(c) \/ i < Len(c)
      OBVIOUS
    <3>2. QED
      BY <3>1 DEF Stack, Owned, Guarded
  <2>3. PinsOwned(c, w, t)
    BY <1>1 DEF Stack, Owned, PinsOwned
  <2>4. Yieldable(c, w, t)
    BY <1>1 DEF Stack, Owned, Yieldable
  <2>5. QED
    BY <2>1, <2>2, <2>3, <2>4 DEF Owned
<1>9. SavedOk(c, w, t) /\ MarkedOk(c, w, t)
  BY <1>3, GrowSaved DEF Stack, Owned
<1>10. ASSUME NEW e, ErrOk(c, s, t, e, Len(c), Mine(s, t))
       PROVE  ErrOk(c, w, t, e, Len(c), Mine(w, t))
  BY <1>1, <1>2, <1>10, GrowErr
<1>11. QED
  BY <1>4, <1>5, <1>6, <1>7, <1>8, <1>9, <1>10 DEF Stack

\* luaD_pcall: its frame stands on the protected call.
LEMMA GrowPCall ==
    ASSUME NEW s, NEW w, NEW t, NEW k, Grown(s, w, t, k), NEW c, Len(c) \in Nat, Based(s, t),
           w[k].k = "pcall", w[k].base = Len(c), \A i \in Mine(s, t) : s[i].base < Len(c),
           Len(c) > 0, c[Len(c)].fn \in Protected, ~c[Len(c)].ypcall, ~c[Len(c)].stat,
           Stack(c, s, t, FALSE), ErrOk(c, s, t, w[k].errfunc, Len(c), Mine(s, t))
    PROVE  /\ Stack(c, w, t, FALSE) /\ HasTry(w, t, Len(c))
           /\ c[Len(c)].fn = "xpcall" => ErrOk(c, w, t, Len(c), Len(c), Mine(w, t))
<1>1. /\ \A q : HasTry(w, t, q) <=> HasTry(s, t, q) \/ q = Len(c)
      /\ \A q : HasCall(w, t, q) <=> HasCall(s, t, q)
      /\ \A q : HasPin(w, t, q) <=> HasPin(s, t, q)
  BY GrowTakes
<1>2. /\ \A i \in Mine(w, t) : i \in Mine(s, t) \/ i = k
      /\ \A i \in Mine(s, t) : w[i] = s[i] /\ i \in Nat /\ i < k
      /\ k \in Nat /\ Mine(s, t) \subseteq Mine(w, t)
  BY DEF Grown
<1>3. Len(c) \in 1..Len(c) /\ Len(c) - 1 \in Int /\ \A i \in 1..Len(c) - 1 : i # Len(c) /\ i \in 1..Len(c)
  OBVIOUS
<1>12. \A i \in 1..Len(c) : i = Len(c) \/ i \in 1..Len(c) - 1
  OBVIOUS
<1>4. FramesOk(c, w, t, FALSE)
  <2>1. CallsOk(c, w, t, FALSE)
    BY <1>2 DEF Stack, FramesOk, CallsOk
  <2>2. PCallsOk(c, w, t)
    BY <1>1, <1>2, <1>3 DEF Stack, FramesOk, PCallsOk
  <2>3. HostsOk(c, w, t)
    BY <1>2 DEF Stack, FramesOk, HostsOk
  <2>4. ResumesOk(w, t)
    BY <1>2 DEF Stack, FramesOk, ResumesOk
  <2>5. QED
    BY <2>1, <2>2, <2>3, <2>4 DEF FramesOk
<1>5. Ascending(w, t)
  <2> SUFFICES ASSUME NEW i \in Mine(w, t), NEW j \in Mine(w, t), i < j
               PROVE  w[i].base <= w[j].base /\ (w[j].k # "call" => w[i].base < w[j].base)
    BY DEF Ascending
  <2>1. i \in Mine(s, t)
    BY <1>2
  <2>2. CASE j = k
    BY <1>2, <2>1, <2>2 DEF Based
  <2>3. CASE j \in Mine(s, t)
    BY <1>2, <2>1, <2>3 DEF Stack, Ascending
  <2>4. QED
    BY <1>2, <2>2, <2>3
<1>6. Repeated(c, w, t)
  BY <1>2 DEF Stack, Repeated
<1>7. Owned(c, w, t, FALSE)
  <2>1. CallsOwned(c, w, t)
    BY <1>1, <1>2 DEF Stack, Owned, CallsOwned
  <2>2. Guarded(c, w, t, FALSE)
    BY <1>1 DEF Stack, Owned, Guarded
  <2>3. PinsOwned(c, w, t)
    BY <1>1 DEF Stack, Owned, PinsOwned
  <2>4. Yieldable(c, w, t)
    BY <1>1 DEF Stack, Owned, Yieldable
  <2>5. QED
    BY <2>1, <2>2, <2>3, <2>4 DEF Owned
<1>8. ErrOk(c, w, t, w[k].errfunc, Len(c) - 1, Mine(s, t))
  <2>1. ~HasTry(s, t, Len(c))
    BY DEF HasTry, Based
  <2>2. ~Guard(c, s, t, Len(c))
    BY <2>1 DEF Guard
  <2>3. ErrOk(c, s, t, w[k].errfunc, Len(c) - 1, Mine(s, t))
    BY <1>3, <1>12, <2>2 DEF ErrOk, Guard
  <2>4. \A q \in 1..Len(c) - 1 : HasTry(w, t, q) <=> HasTry(s, t, q)
    BY <1>1, <1>3
  <2>5. QED
    BY <1>3, <2>3, <2>4, GrowErr
<1>9. SavedOk(c, w, t) /\ MarkedOk(c, w, t)
  BY <1>8, GrowSaved DEF Stack, Owned, Based
<1>10. c[Len(c)].fn = "xpcall" => ErrOk(c, w, t, Len(c), Len(c), Mine(w, t))
  <2>1. Guard(c, w, t, Len(c))
    BY <1>1 DEF Guard
  <2>2. \A j \in Mine(w, t) : w[j].k = "host" => w[j].base < Len(c)
    BY <1>2
  <2>3. QED
    BY <1>3, <2>1, <2>2 DEF ErrOk
<1>11. QED
  BY <1>1, <1>4, <1>5, <1>6, <1>7, <1>9, <1>10 DEF Stack

\* An activation that the host starts on the main thread.
LEMMA GrowHost ==
    ASSUME NEW s, NEW w, NEW k, Grown(s, w, Main, k), NEW c, Len(c) \in Nat, Based(s, Main),
           w[k].k = "host", w[k].base = Len(c), \A i \in Mine(s, Main) : s[i].base < Len(c),
           IF k = 1 THEN Len(c) = 0 ELSE Len(c) > 0 /\ c[Len(c)].fn \in Callers,
           Stack(c, s, Main, FALSE), ErrOk(c, s, Main, w[k].errfunc, Len(c), Mine(s, Main))
    PROVE  Stack(c, w, Main, FALSE)
<1> DEFINE t == Main
<1>1. /\ \A q : HasTry(w, t, q) <=> HasTry(s, t, q)
      /\ \A q : HasCall(w, t, q) <=> HasCall(s, t, q)
      /\ \A q : HasPin(w, t, q) <=> HasPin(s, t, q)
  BY GrowTakes
<1>2. /\ \A i \in Mine(w, t) : i \in Mine(s, t) \/ i = k
      /\ \A i \in Mine(s, t) : w[i] = s[i] /\ i \in Nat /\ i < k
      /\ k \in Nat /\ Mine(s, t) \subseteq Mine(w, t)
  BY DEF Grown
<1>3. FramesOk(c, w, t, FALSE)
  <2>1. CallsOk(c, w, t, FALSE)
    BY <1>2 DEF Stack, FramesOk, CallsOk
  <2>2. PCallsOk(c, w, t)
    BY <1>1, <1>2 DEF Stack, FramesOk, PCallsOk
  <2>3. HostsOk(c, w, t)
    BY <1>2 DEF Stack, FramesOk, HostsOk
  <2>4. ResumesOk(w, t)
    BY <1>2 DEF Stack, FramesOk, ResumesOk
  <2>5. QED
    BY <2>1, <2>2, <2>3, <2>4 DEF FramesOk
<1>4. Ascending(w, t)
  <2> SUFFICES ASSUME NEW i \in Mine(w, t), NEW j \in Mine(w, t), i < j
               PROVE  w[i].base <= w[j].base /\ (w[j].k # "call" => w[i].base < w[j].base)
    BY DEF Ascending
  <2>1. i \in Mine(s, t)
    BY <1>2
  <2>2. CASE j = k
    BY <1>2, <2>1, <2>2 DEF Based
  <2>3. CASE j \in Mine(s, t)
    BY <1>2, <2>1, <2>3 DEF Stack, Ascending
  <2>4. QED
    BY <1>2, <2>2, <2>3
<1>5. Repeated(c, w, t)
  BY <1>2 DEF Stack, Repeated
<1>6. Owned(c, w, t, FALSE)
  <2>1. CallsOwned(c, w, t)
    BY <1>1, <1>2 DEF Stack, Owned, CallsOwned
  <2>2. Guarded(c, w, t, FALSE) /\ PinsOwned(c, w, t) /\ Yieldable(c, w, t)
    BY <1>1 DEF Stack, Owned, Guarded, PinsOwned, Yieldable
  <2>3. QED
    BY <2>1, <2>2 DEF Owned
<1>7. ErrOk(c, w, t, w[k].errfunc, Len(c), Mine(s, t))
  BY <1>1, GrowErr
<1>8. SavedOk(c, w, t) /\ MarkedOk(c, w, t)
  BY <1>7, GrowSaved DEF Stack, Owned, Based
<1>9. QED
  BY <1>3, <1>4, <1>5, <1>6, <1>8 DEF Stack

\* A coroutine that is resumed has its first frame.
LEMMA GrowResume ==
    ASSUME NEW s, NEW w, NEW t, NEW k, Grown(s, w, t, k), NEW c, Mine(s, t) = {}, t # Main,
           w[k].k = "resume", w[k].base = 0, Stack(c, s, t, FALSE)
    PROVE  /\ Stack(c, w, t, FALSE)
           /\ \A e : ErrOk(c, s, t, e, Len(c), Mine(s, t)) => ErrOk(c, w, t, e, Len(c), Mine(w, t))
<1>1. \A q : /\ HasTry(w, t, q) <=> HasTry(s, t, q)
             /\ HasCall(w, t, q) <=> HasCall(s, t, q)
             /\ HasPin(w, t, q) <=> HasPin(s, t, q)
  BY GrowTakes
<1>2. Mine(w, t) = {k} /\ k \in Nat /\ k >= k /\ ~(k < k)
  BY DEF Grown
<1>3. FramesOk(c, w, t, FALSE) /\ Ascending(w, t) /\ Repeated(c, w, t)
  BY <1>2 DEF FramesOk, CallsOk, PCallsOk, HostsOk, ResumesOk, Ascending, Repeated
<1>4. Owned(c, w, t, FALSE)
  <2>1. CallsOwned(c, w, t)
    BY <1>2 DEF CallsOwned
  <2>2. Guarded(c, w, t, FALSE) /\ PinsOwned(c, w, t) /\ Yieldable(c, w, t)
    BY <1>1 DEF Stack, Owned, Guarded, PinsOwned, Yieldable
  <2>3. QED
    BY <2>1, <2>2 DEF Owned
<1>5. ASSUME NEW e, NEW n, ErrOk(c, s, t, e, n, Mine(s, t))
      PROVE  ErrOk(c, w, t, e, n, Mine(w, t))
  <2>1. \A i : Guard(c, w, t, i) <=> Guard(c, s, t, i)
    BY <1>1 DEF Guard
  <2>2. QED
    BY <1>2, <1>5, <2>1 DEF ErrOk
<1>6. SavedOk(c, w, t) /\ MarkedOk(c, w, t)
  BY <1>2, <1>5 DEF Stack, SavedOk, MarkedOk
<1>7. QED
  BY <1>3, <1>4, <1>5, <1>6 DEF Stack

\* A library function whose activation has failed goes on as another one.
LEMMA RelabelStack ==
    ASSUME NEW c, NEW d, NEW s, NEW t, NEW v, Len(c) \in Nat, Len(c) > 0, Len(d) = Len(c),
           \A i \in 1..Len(c) : i # Len(c) => d[i] = c[i], c[Len(c)].fn \in Callers,
           d[Len(c)].fn \in Callers \cup {"raise", "failed"}, d[Len(c)].fn = "raise" => v, d[Len(c)].fn = "host" => ~v,
           d[Len(c)].reentry = c[Len(c)].reentry, d[Len(c)].stat = c[Len(c)].stat,
           d[Len(c)].ypcall = c[Len(c)].ypcall,
           \A i \in Mine(s, t) : s[i].base < Len(c), Based(s, t), Stack(c, s, t, FALSE)
    PROVE  /\ Stack(d, s, t, v)
           /\ \A e : ErrOk(c, s, t, e, Len(c), Mine(s, t)) => ErrOk(d, s, t, e, Len(c), Mine(s, t))
<1> DEFINE n == Len(c)
<1>1. /\ c[n].fn \notin Functions /\ c[n].fn \notin Protected /\ c[n].fn \notin {"raise", "sort", "handler", "xpcall", "lua"}
      /\ d[n].fn \notin Functions /\ d[n].fn \notin Protected /\ d[n].fn \notin {"sort", "handler", "xpcall", "lua"}
  BY DEF Callers, Functions, Protected
<1>2. /\ n \in 1..n /\ n \in Nat /\ \A i \in 1..n : /\ i = n \/ (i < n /\ i + 1 \in 1..n)
                                                    /\ i > 1 => i - 1 \in 1..n /\ i - 1 # n
      /\ \A i \in 1..n : i # n => d[i] = c[i]
  OBVIOUS
<1>3. ~c[n].ypcall /\ ~c[n].stat /\ ~c[n].reentry /\ ~d[n].ypcall /\ ~d[n].stat /\ ~d[n].reentry
  BY <1>1, <1>2 DEF Stack, InfosOk, Flagged
<1> HIDE DEF n
<1>4. InfosOk(d, t, v)
  <2>1. OnLua(d)
    BY <1>1, <1>2, <1>3 DEF Stack, InfosOk, OnLua, n
  <2>2. Flagged(d) /\ StatOnTop(d, v)
    <3>1. \A i \in 1..n : i # n => ~c[i].stat
      BY DEF Stack, InfosOk, StatOnTop, n
    <3>2. \A i \in 1..n : i # n => /\ c[i].reentry => c[i].fn = "lua"
                                   /\ c[i].ypcall => c[i].fn \in Protected
      BY DEF Stack, InfosOk, Flagged, n
    <3>3. QED
      BY <1>1, <1>2, <1>3, <3>1, <3>2 DEF Flagged, StatOnTop, n
  <2>3. RaiseOnTop(d, v)
    <3> SUFFICES ASSUME NEW i \in 1..n, d[i].fn = "raise"
                 PROVE  IF i = n THEN v ELSE d[i + 1].fn = "handler"
      BY DEF RaiseOnTop, n
    <3>1. CASE i # n
      <4>1. c[i + 1].fn = "handler"
        BY <1>2, <3>1 DEF Stack, InfosOk, RaiseOnTop, n
      <4>2. i + 1 # n
        BY <1>1, <4>1
      <4>3. QED
        BY <1>2, <3>1, <4>1, <4>2
    <3>2. QED
      BY <3>1 DEF n
  <2>4. HostOnTop(d, t, v)
    BY <1>2 DEF Stack, InfosOk, HostOnTop, n
  <2>5. QED
    BY <2>1, <2>2, <2>3, <2>4 DEF InfosOk
<1>5. \A i \in Mine(s, t) : s[i].base \in Nat /\ s[i].base < n
  BY DEF Based, n
<1>6. \A i \in Mine(s, t) : s[i].k = "call" =>
         s[i].base + 1 # n /\ s[i].base + 1 \in 1..n
  <2> SUFFICES ASSUME NEW i \in Mine(s, t), s[i].k = "call"
               PROVE  s[i].base + 1 # n /\ s[i].base + 1 \in 1..n
    OBVIOUS
  <2>1. c[s[i].base + 1].fn \in Functions
    BY DEF Stack, FramesOk, CallsOk
  <2>2. QED
    BY <1>1, <1>2, <1>5, <2>1
<1>7. CallsOk(d, s, t, v) /\ Repeated(d, s, t)
  BY <1>2, <1>5, <1>6 DEF Stack, FramesOk, CallsOk, Repeated, n
<1>8. PCallsOk(d, s, t)
  <2> SUFFICES ASSUME NEW i \in Mine(s, t), s[i].k = "pcall"
               PROVE  /\ s[i].base \in 1..n /\ d[s[i].base].fn \in Protected
                      /\ ~d[s[i].base].ypcall /\ ~d[s[i].base].stat
                      /\ s[i].base = n \/ HasPin(s, t, s[i].base)
    BY DEF PCallsOk, n
  <2>1. s[i].base # n
    BY <1>2, <1>5
  <2>2. QED
    BY <1>2, <2>1 DEF Stack, FramesOk, PCallsOk, n
<1>9. HostsOk(d, s, t)
  BY <1>2, <1>5 DEF Stack, FramesOk, HostsOk, n
<1>10. Owned(d, s, t, v)
  <2>1. CallsOwned(d, s, t)
    BY <1>1, <1>2 DEF Stack, Owned, CallsOwned, n
  <2>2. Guarded(d, s, t, v)
    BY <1>1, <1>2 DEF Stack, Owned, Guarded, n
  <2>3. PinsOwned(d, s, t)
    BY <1>1, <1>2 DEF Stack, Owned, PinsOwned, n
  <2>4. Yieldable(d, s, t)
    BY <1>2, <1>3 DEF Stack, Owned, Yieldable, n
  <2>5. QED
    BY <2>1, <2>2, <2>3, <2>4 DEF Owned
<1>11. \A i \in 1..n : Guard(d, s, t, i) <=> Guard(c, s, t, i)
  BY <1>1, <1>2 DEF Guard
<1>12. ASSUME NEW e, NEW m \in Int, m <= n, NEW F, ErrOk(c, s, t, e, m, F)
       PROVE  ErrOk(d, s, t, e, m, F)
  <2>1. \A i \in 1..m : i \in 1..n
    BY <1>2, <1>12
  <2>2. QED
    BY <1>1, <1>2, <1>11, <1>12, <2>1 DEF ErrOk
<1>13. SavedOk(d, s, t)
  <2> SUFFICES ASSUME NEW i \in Mine(s, t)
               PROVE  /\ s[i].k = "pcall" => ErrOk(d, s, t, s[i].errfunc, s[i].base - 1, Below(s, t, i))
                      /\ s[i].k = "host" => ErrOk(d, s, t, s[i].errfunc, s[i].base, Below(s, t, i))
    BY DEF SavedOk
  <2>1. s[i].base \in Int /\ s[i].base - 1 \in Int /\ s[i].base <= n /\ s[i].base - 1 <= n
    BY <1>2, <1>5
  <2>2. QED
    BY <1>12, <2>1 DEF Stack, SavedOk
<1>14. MarkedOk(d, s, t)
  <2> SUFFICES ASSUME NEW i \in 1..n, d[i].ypcall
               PROVE  ErrOk(d, s, t, d[i].h, i - 1, Mine(s, t))
    BY DEF MarkedOk, n
  <2>1. i # n /\ i - 1 \in Int /\ i - 1 <= n
    BY <1>2, <1>3
  <2>2. ErrOk(c, s, t, d[i].h, i - 1, Mine(s, t))
    BY <1>2, <2>1 DEF Stack, MarkedOk, n
  <2>3. QED
    BY <1>12, <2>1, <2>2
<1>15. \A e : ErrOk(c, s, t, e, n, Mine(s, t)) => ErrOk(d, s, t, e, n, Mine(s, t))
  BY <1>2, <1>12
<1>16. QED
  BY <1>4, <1>7, <1>8, <1>9, <1>10, <1>13, <1>14, <1>15 DEF Stack, FramesOk, n

-----------------------------------------------------------------------------
(* All threads *)

\* The fields of the CallInfos, the threads and the frames.
Infos == [fn : Functions \cup CFunctions, reentry : BOOLEAN, ypcall : BOOLEAN, h : Nat,
          stat : BOOLEAN]
Counts == 0..CCallsMod - 1
State == [ci : Seq(Infos), status : {"ok", "yield", "error"}, started : BOOLEAN, nny : Int,
          nCcalls : Counts, errfunc : Nat, open : SUBSET Nat]
Frames == [k : {"call"}, t : Threads, base : Nat, allow : BOOLEAN]
          \cup [k : Tries, t : Threads, base : Nat, nny : Int, errfunc : Nat, ncc : Counts,
              failed : {FALSE}]
Modes == {"run", "raise", "error", "yield"}

\* The thread whose frame is on top of the C stack runs.
Runs(s, t) == Len(s) # 0 /\ s[Len(s)].t = t

\* The states l of the threads and the C stack s fit together.
World(l, s, m) ==
    /\ l \in [Threads -> State] /\ s \in Seq(Frames) /\ m \in Modes
    /\ ActGrouped(s) /\ (Len(s) # 0 => s[1].t = Main) /\ (Len(s) = 0 => m = "run")
    /\ \A t \in Threads : /\ Good(l[t], s, t, Runs(s, t), Runs(s, t) /\ m # "run")
                          /\ Runs(s, t) => (l[t].status = "yield" <=> m = "yield")

\* The fields of a frame.
LEMMA FrameTypes ==
    ASSUME NEW f \in Frames
    PROVE  /\ f.k \in Tries \cup {"call"} /\ f.t \in Threads /\ f.base \in Nat
           /\ f.k = "call" => f.allow \in BOOLEAN
           /\ f.k \in Tries => f.nny \in Int /\ f.errfunc \in Nat /\ f.ncc \in Counts /\ ~f.failed
BY DEF Frames, Tries

\* The places and the kinds of the frames of a thread.
LEMMA StackTypes ==
    ASSUME NEW s \in Seq(Frames), NEW t
    PROVE  /\ Based(s, t) /\ Len(s) \in Nat
           /\ \A i \in Mine(s, t) : /\ i \in 1..Len(s) /\ s[i] \in Frames /\ s[i].t = t
                                    /\ s[i].k \in Tries \cup {"call"}
           /\ Runs(s, t) => Len(s) \in Mine(s, t) /\ Mine(s, t) # {}
<1>1. Len(s) \in Nat /\ \A i \in 1..Len(s) : s[i] \in Frames
  OBVIOUS
<1>2. \A i \in Mine(s, t) : i \in 1..Len(s) /\ s[i] \in Frames /\ s[i].t = t
  BY <1>1 DEF Mine
<1>3. \A i \in Mine(s, t) : s[i].k \in Tries \cup {"call"} /\ s[i].base \in Nat
  BY <1>2, FrameTypes
<1>4. Runs(s, t) => Len(s) \in Mine(s, t)
  BY <1>1 DEF Runs, Mine
<1>5. QED
  BY <1>1, <1>2, <1>3, <1>4 DEF Based

\* A frame comes on the C stack.
Extended(s, w, f) == s \in Seq(Frames) /\ f \in Frames /\ w = Append(s, f)
LEMMA AppendGrows ==
    ASSUME NEW s, NEW f, NEW w, Extended(s, w, f)
    PROVE  /\ w \in Seq(Frames) /\ Len(w) = Len(s) + 1 /\ w[Len(w)] = f
           /\ \A i \in 1..Len(s) : w[i] = s[i]
           /\ 1..Len(w) = 1..Len(s) \cup {Len(w)} /\ Len(w) \notin 1..Len(s)
           /\ Grown(s, w, f.t, Len(w)) /\ Runs(w, f.t)
           /\ \A u : u # f.t => Mine(w, u) = Mine(s, u) /\ \A i \in Mine(s, u) : w[i] = s[i]
<1> DEFINE k == Len(w)
<1>1. /\ w \in Seq(Frames) /\ Len(w) = Len(s) + 1 /\ w[Len(w)] = f
      /\ \A i \in 1..Len(s) : w[i] = s[i]
      /\ 1..Len(w) = 1..Len(s) \cup {Len(w)} /\ Len(w) \notin 1..Len(s)
  BY DEF Extended
<1>2. k \in Nat /\ k # 0 /\ \A i \in 1..Len(s) : i \in Nat /\ i < k
  BY <1>1 DEF Extended
<1> HIDE DEF k
<1>3. Mine(w, f.t) = Mine(s, f.t) \cup {k}
  BY <1>1 DEF Mine, k
<1>4. Grown(s, w, f.t, k)
  BY <1>1, <1>2, <1>3 DEF Grown, Mine
<1>5. \A u : u # f.t => Mine(w, u) = Mine(s, u) /\ \A i \in Mine(s, u) : w[i] = s[i]
  BY <1>1 DEF Mine
<1>6. Runs(w, f.t)
  BY <1>1, <1>2 DEF Runs, k
<1>7. QED
  BY <1>1, <1>4, <1>5, <1>6 DEF k

\* The frames of the C stack below the m-th.
FirstOf(s, w, m) == s \in Seq(Frames) /\ m \in 1..Len(s) + 1 /\ w = SubSeq(s, 1, m - 1)
LEMMA FirstFrames ==
    ASSUME NEW s, NEW m, NEW w, FirstOf(s, w, m)
    PROVE  /\ w \in Seq(Frames) /\ Len(w) = m - 1 /\ \A i \in 1..m - 1 : w[i] = s[i]
           /\ \A u : Mine(w, u) = Below(s, u, m) /\ \A i \in Mine(w, u) : w[i] = s[i]
           /\ \A u : (\A i \in m..Len(s) : s[i].t # u)
                     => Mine(w, u) = Mine(s, u) /\ \A i \in Mine(s, u) : w[i] = s[i]
<1>1. /\ w \in Seq(Frames) /\ Len(w) = m - 1 /\ \A i \in 1..m - 1 : w[i] = s[i]
      /\ m \in Nat
  BY DEF FirstOf
<1>2. /\ \A i \in 1..m - 1 : i \in 1..Len(s) /\ i < m
      /\ \A i \in 1..Len(s) : i \in Nat /\ (i < m => i \in 1..m - 1) /\ (~(i < m) => i \in m..Len(s))
  BY DEF FirstOf
<1>3. \A u : Mine(w, u) = Below(s, u, m) /\ \A i \in Mine(w, u) : w[i] = s[i]
  BY <1>1, <1>2 DEF Mine, Below
<1>4. ASSUME NEW u, \A i \in m..Len(s) : s[i].t # u
      PROVE  Mine(w, u) = Mine(s, u) /\ \A i \in Mine(s, u) : w[i] = s[i]
  BY <1>1, <1>2, <1>4 DEF Mine
<1>5. QED
  BY <1>1, <1>3, <1>4

\* The groups of frames.
LEMMA GroupedAppend ==
    ASSUME NEW s \in Seq(Frames), NEW f \in Frames, ActGrouped(s),
           f.k \in Starts \/ Runs(s, f.t)
    PROVE  ActGrouped(Append(s, f))
<1> DEFINE w == Append(s, f)
           k == Len(s) + 1
<1>1. /\ Len(w) = k /\ w[k] = f /\ \A i \in 1..Len(s) : w[i] = s[i]
      /\ 1..k = 1..Len(s) \cup {k} /\ k \in 1..k /\ k + 1..k = {}
      /\ \A n \in 1..Len(s), m \in 1..Len(s) : \A j \in m + 1..n : j \in 1..Len(s)
      /\ \A n \in 1..Len(s) : \A m \in 1..n : m \in 1..Len(s)
      /\ \A m \in 1..Len(s) : \A j \in m + 1..k : j = k \/ j \in m + 1..Len(s)
      /\ Len(s) # 0 => Len(s) \in 1..Len(s)
      /\ \A m \in 1..Len(s) : m \in 1..k
  OBVIOUS
<1> HIDE DEF w, k
<1> SUFFICES ASSUME NEW n \in 1..Len(w)
             PROVE  \E m \in 1..n : /\ w[m].k \in Starts /\ w[m].t = w[n].t
                                    /\ \A j \in m + 1..n : w[j].k \notin Starts /\ w[j].t = w[n].t
  BY DEF ActGrouped, w
<1>2. CASE n \in 1..Len(s)
  <2>1. PICK m \in 1..n : /\ s[m].k \in Starts /\ s[m].t = s[n].t
                          /\ \A j \in m + 1..n : s[j].k \notin Starts /\ s[j].t = s[n].t
    BY <1>2 DEF ActGrouped
  <2>2. QED
    BY <1>1, <1>2, <2>1
<1>3. CASE n = k /\ f.k \in Starts
  BY <1>1, <1>3
<1>4. CASE n = k /\ f.k \notin Starts
  <2>1. Len(s) # 0 /\ s[Len(s)].t = f.t
    BY <1>4 DEF Runs
  <2>2. PICK m \in 1..Len(s) :
              /\ s[m].k \in Starts /\ s[m].t = s[Len(s)].t
              /\ \A j \in m + 1..Len(s) : s[j].k \notin Starts /\ s[j].t = s[Len(s)].t
    BY <1>1, <2>1 DEF ActGrouped
  <2>3. \A j \in m + 1..Len(s) : j \in 1..Len(s)
    BY <1>1, <2>1
  <2>4. QED
    BY <1>1, <1>4, <2>1, <2>2, <2>3
<1>5. QED
  BY <1>1, <1>2, <1>3, <1>4

\* A C stack that is cut keeps its activations.
LEMMA GroupedCut ==
    ASSUME NEW s \in Seq(Frames), ActGrouped(s), NEW m \in 1..Len(s) + 1
    PROVE  ActGrouped(SubSeq(s, 1, m - 1))
<1> DEFINE w == SubSeq(s, 1, m - 1)
<1>1. /\ Len(w) = m - 1 /\ \A i \in 1..m - 1 : w[i] = s[i] /\ i \in 1..Len(s)
      /\ \A n \in 1..m - 1 : \A h \in 1..n : h \in 1..m - 1 /\ \A j \in h + 1..n : j \in 1..m - 1
  OBVIOUS
<1> HIDE DEF w
<1> SUFFICES ASSUME NEW n \in 1..m - 1
             PROVE  \E h \in 1..n : /\ w[h].k \in Starts /\ w[h].t = w[n].t
                                    /\ \A j \in h + 1..n : w[j].k \notin Starts /\ w[j].t = w[n].t
  BY <1>1 DEF ActGrouped, w
<1>2. PICK h \in 1..n : /\ s[h].k \in Starts /\ s[h].t = s[n].t
                        /\ \A j \in h + 1..n : s[j].k \notin Starts /\ s[j].t = s[n].t
  BY <1>1 DEF ActGrouped
<1>3. QED
  BY <1>1, <1>2

\* What is known of the thread that runs.
LEMMA RunnerFacts ==
    ASSUME NEW l, NEW s, NEW m, World(l, s, m), NEW t \in Threads, Runs(s, t)
    PROVE  /\ l[t] \in State /\ l[t].ci \in Seq(Infos) /\ Len(l[t].ci) \in Nat
           /\ l[t].started /\ l[t].status # "error" /\ Mine(s, t) # {} /\ Based(s, t)
           /\ m # "yield" => l[t].status = "ok"
           /\ m = "yield" => /\ l[t].status = "yield" /\ t # Main
                             /\ Len(l[t].ci) # 0 /\ l[t].ci[Len(l[t].ci)].fn = "yield"
           /\ Stack(l[t].ci, s, t, m # "run")
           /\ ErrOk(l[t].ci, s, t, l[t].errfunc, Len(l[t].ci), Mine(s, t))
           /\ OpenOk(l[t].ci, l[t].open)
<1>1. l[t] \in State /\ l[t].ci \in Seq(Infos) /\ l[t].status \in {"ok", "yield", "error"}
  BY DEF World, State
<1>2. Mine(s, t) # {} /\ Based(s, t)
  BY StackTypes DEF World
<1>3. Good(l[t], s, t, TRUE, m # "run") /\ (l[t].status = "yield" <=> m = "yield")
  BY DEF World
<1>4. l[t].status # "error" /\ l[t].started
  BY <1>2, <1>3 DEF Good, Status
<1>5. m = "yield" => /\ l[t].status = "yield" /\ t # Main
                     /\ Len(l[t].ci) # 0 /\ l[t].ci[Len(l[t].ci)].fn = "yield"
  BY <1>3 DEF Good, Status
<1>6. QED
  BY <1>1, <1>2, <1>3, <1>4, <1>5 DEF Good

\* What has to be shown of it.
LEMMA RunnerGood ==
    ASSUME NEW x, NEW s, NEW t, NEW u, x.started, x.status # "error", Mine(s, t) # {},
           x.status = "yield" => Len(x.ci) # 0 /\ x.ci[Len(x.ci)].fn = "yield" /\ t # Main,
           Stack(x.ci, s, t, u), ErrOk(x.ci, s, t, x.errfunc, Len(x.ci), Mine(s, t)),
           OpenOk(x.ci, x.open)
    PROVE  Good(x, s, t, TRUE, u)
BY DEF Good, Status

\* A step of the running thread t, which goes on running.
Steps(l, s, l2, s2, m2, t) ==
    /\ l2 \in [Threads -> State] /\ s2 \in Seq(Frames) /\ m2 \in Modes /\ Runs(s2, t)
    /\ s2[1].t = Main /\ ActGrouped(s2) /\ (l2[t].status = "yield" <=> m2 = "yield")
    /\ \A u \in Threads : u # t => /\ l2[u] = l[u] /\ Mine(s2, u) = Mine(s, u)
                                    /\ \A i \in Mine(s, u) : s2[i] = s[i]
    /\ Good(l2[t], s2, t, TRUE, m2 # "run")
LEMMA StepOn ==
    ASSUME NEW l, NEW s, NEW m, World(l, s, m), NEW t \in Threads, Runs(s, t),
           NEW l2, NEW s2, NEW m2, Steps(l, s, l2, s2, m2, t)
    PROVE  World(l2, s2, m2) /\ Runs(s2, t)
<1> USE DEF Steps
<1>1. Len(s2) # 0
  BY DEF Runs
<1>2. ASSUME NEW u \in Threads
      PROVE  Good(l2[u], s2, u, Runs(s2, u), Runs(s2, u) /\ m2 # "run")
  <2>1. CASE u = t
    BY <2>1
  <2>2. CASE u # t
    <3>1. Runs(s, u) = FALSE /\ Runs(s2, u) = FALSE
      BY <2>2 DEF Runs
    <3>2. Good(l[u], s, u, FALSE, FALSE)
      BY <3>1 DEF World
    <3>3. Good(l2[u], s2, u, FALSE, FALSE)
      BY <2>2, <3>2, SameFrames
    <3>4. QED
      BY <3>1, <3>3
  <2>3. QED
    BY <2>1, <2>2
<1>3. \A u \in Threads : Runs(s2, u) => u = t
  BY DEF Runs
<1>4. QED
  BY <1>1, <1>2, <1>3 DEF World

\* nCcalls stays in its range (Count).
LEMMA CountTypes ==
    /\ Counts \subseteq Nat
    /\ \A n \in Int : Count(n) \in Counts
BY CCallsAssumption DEF Count, Counts

\* A new CallInfo.
LEMMA InfoTypes ==
    ASSUME NEW fn \in Functions \cup CFunctions
    PROVE  /\ Info(fn) \in Infos /\ Info(fn).fn = fn
           /\ ~Info(fn).reentry /\ ~Info(fn).ypcall /\ ~Info(fn).stat
BY DEF Info, Infos

\* A CallInfo comes on the calls.
LEMMA AppendInfo ==
    ASSUME NEW c \in Seq(Infos), NEW f \in Infos
    PROVE  /\ Append(c, f) \in Seq(Infos) /\ Pushed(c, Append(c, f))
           /\ Len(Append(c, f)) = Len(c) + 1 /\ Append(c, f)[Len(c) + 1] = f /\ Len(c) \in Nat
BY DEF Pushed

\* What a step leaves of the calls with open upvalues.
LEMMA OpenPushed ==
    ASSUME NEW c, NEW d, NEW open, Pushed(c, d), OpenOk(c, open)
    PROVE  OpenOk(d, open)
<1>1. \A i \in 1..Len(c) : i \in 1..Len(d) /\ d[i] = c[i]
  BY DEF Pushed
<1>2. QED
  BY <1>1 DEF OpenOk

\* luaD_call on the calls c where it is allowed.
CallsOn(c, s, t, allow, fn, m) ==
    /\ fn = "handler" => ~allow
    /\ m # "run" => fn = "handler"
    /\ Len(c) > 0 =>
         /\ ~c[Len(c)].stat
         /\ c[Len(c)].fn = "raise" => fn = "handler"
         /\ c[Len(c)].fn = "host" => t = Main
         /\ c[Len(c)].fn = "sort" => ~allow
         /\ c[Len(c)].fn \in Protected => \/ c[Len(c)].ypcall
                                          \/ HasTry(s, t, Len(c)) /\ ~allow

\* luaD_call: a frame and, in the same step, its call.
LEMMA CallBegins ==
    ASSUME NEW s, NEW w, NEW t, NEW k, Grown(s, w, t, k), NEW c, NEW d, Pushed(c, d), Based(s, t), Based(w, t),
           \A i \in Mine(s, t) : s[i].k \in Tries \cup {"call"}, NEW m,
           NEW fn \in Functions, CallsOn(c, s, t, w[k].allow, fn, m),
           w[k].k = "call", w[k].base = Len(c),
           d[Len(c) + 1] = Info(fn), Stack(c, s, t, m # "run")
    PROVE  /\ Stack(d, w, t, FALSE)
           /\ \A e : ErrOk(c, s, t, e, Len(c), Mine(s, t)) => ErrOk(d, w, t, e, Len(d), Mine(w, t))
<1> DEFINE f == Info(fn)
<1>1. f.fn = fn /\ ~f.reentry /\ ~f.ypcall /\ ~f.stat
  BY InfoTypes
<1>2. fn \notin Protected /\ fn # "raise" /\ fn # "host"
  BY DEF Functions, Protected
<1>3. Len(c) \in Nat
  BY DEF Pushed
<1>4. Stack(c, w, t, TRUE)
      /\ \A e : ErrOk(c, s, t, e, Len(c), Mine(s, t)) => ErrOk(c, w, t, e, Len(c), Mine(w, t))
  BY <1>3, GrowCall DEF CallsOn
<1>5. /\ \A q : HasTry(w, t, q) <=> HasTry(s, t, q)
      /\ HasCall(w, t, Len(c)) /\ (~w[k].allow => HasPin(w, t, Len(c)))
  BY GrowTakes
<1>6. PushesInfo(c, w, t, FALSE, f)
  BY <1>1, <1>2, <1>5 DEF PushesInfo, CallsOn
<1>7. /\ \A i \in Mine(w, t) : i \in Mine(s, t) \/ i = k
      /\ \A i \in Mine(s, t) : w[i] = s[i] /\ i < k /\ i \in Nat
      /\ k \in Nat
  BY DEF Grown
<1>8. PushesOn(c, w, t, f)
  <2>1. ASSUME NEW i \in Mine(w, t), NEW j \in Mine(w, t), i < j, w[i].k = "call", w[j].k = "call",
               w[i].base = Len(c), w[j].base = Len(c)
        PROVE  fn = "handler"
    <3>1. i \in Mine(s, t)
      BY <1>7, <2>1
    <3>2. s[i].k = "call" /\ s[i].base = Len(c)
      BY <1>7, <2>1, <3>1
    <3>3. m # "run"
      BY <3>1, <3>2 DEF Stack, FramesOk, CallsOk
    <3>4. QED
      BY <3>3 DEF CallsOn
  <2>2. QED
    BY <1>1, <1>5, <2>1 DEF PushesOn, CallsOn
<1>9. \A i \in Mine(w, t) : w[i].k \in Tries \cup {"call"}
  BY <1>7
<1>10. Stack(d, w, t, FALSE)
  BY <1>4, <1>6, <1>8, <1>9, PushStack
<1>11. ASSUME NEW e, ErrOk(c, s, t, e, Len(c), Mine(s, t))
       PROVE  ErrOk(d, w, t, e, Len(d), Mine(w, t))
  BY <1>1, <1>2, <1>4, <1>11, PushHandler
<1>12. QED
  BY <1>10, <1>11

\* What luaD_call makes of the threads l and the C stack s; m: how it goes on.
Called(l, s, t, allow, fn, l2, s2, m2) ==
    /\ l2 \in [Threads -> State] /\ \A u \in Threads : u # t => l2[u] = l[u]
    /\ l2[t].status = l[t].status /\ l2[t].started = l[t].started
    /\ l2[t].errfunc = l[t].errfunc /\ l2[t].open = l[t].open
    /\ \E f \in Frames :
         /\ s2 = Append(s, f) /\ f.k = "call" /\ f.t = t /\ f.base = Len(l[t].ci)
         /\ \/ /\ m2 = "run" /\ (f.allow <=> allow)
               /\ l2[t].ci = Append(l[t].ci, Info(fn))
            \/ m2 \in {"raise", "error"} /\ l2[t].ci = l[t].ci

\* LuaDCall does what Called says.
LEMMA CallTypes ==
    ASSUME NEW l \in [Threads -> State], NEW s \in Seq(Frames), NEW t \in Threads,
           NEW allow \in BOOLEAN, NEW fn \in Functions, LuaDCall(t, l, s, allow, fn)
    PROVE  Called(l, s, t, allow, fn, L', cs', ctl')
<1> DEFINE n == Count(l[t].nCcalls + 1)
           fails == n = MaxCCalls \/ n >= MaxCCalls + Reserve
           f == [k |-> "call", t |-> t, base |-> Len(l[t].ci), allow |-> allow \/ fails]
           x == l[t]
           y == [x EXCEPT !.nCcalls = n, !.nny = IF allow \/ fails THEN @ ELSE @ + 1,
                          !.ci = IF fails THEN @ ELSE Append(@, Info(fn))]
<1>1. /\ cs' = Append(s, f)
      /\ ctl' = (IF n = MaxCCalls THEN "raise" ELSE IF fails THEN "error" ELSE "run")
  BY DEF LuaDCall
<1>2. L' = [l EXCEPT ![t] = y]
  BY Zenon DEF LuaDCall
<1>12. x \in State /\ x.ci \in Seq(Infos) /\ x.nny \in Int /\ x.nCcalls \in Counts
  BY DEF State
<1>13. x.nCcalls + 1 \in Int
  BY <1>12, CCallsAssumption DEF Counts
<1>3. /\ x \in State /\ x.ci \in Seq(Infos) /\ x.nny \in Int /\ Len(x.ci) \in Nat
      /\ n \in Counts
  <2>1. n \in Counts
    BY <1>13, CountTypes
  <2>2. Len(x.ci) \in Nat
    BY <1>12
  <2>3. QED
    BY <1>12, <2>1, <2>2
<1>4. Append(x.ci, Info(fn)) \in Seq(Infos)
  BY <1>3, InfoTypes
<1>5. /\ y.ci = (IF fails THEN x.ci ELSE Append(x.ci, Info(fn)))
      /\ y.status = x.status /\ y.started = x.started /\ y.errfunc = x.errfunc /\ y.open = x.open
  BY <1>3 DEF State
<1>6. y \in State
  <2> DEFINE yn == IF allow \/ fails THEN x.nny ELSE x.nny + 1
             yc == IF fails THEN x.ci ELSE Append(x.ci, Info(fn))
  <2>1. yn \in Int /\ yc \in Seq(Infos)
    BY <1>3, <1>4
  <2>2. y = [x EXCEPT !.nCcalls = n, !.nny = yn, !.ci = yc]
    OBVIOUS
  <2> HIDE DEF n, yn, yc, fails, x, y
  <2>3. QED
    BY <1>3, <2>1, <2>2 DEF State
<1>7. f \in Frames /\ f.k = "call" /\ f.t = t /\ f.base = Len(l[t].ci)
  BY <1>3 DEF Frames
<1> HIDE DEF y
<1>8. L' \in [Threads -> State] /\ L'[t] = y /\ \A u \in Threads : u # t => L'[u] = l[u]
  BY <1>2, <1>6
<1>9. fails => ctl' \in {"raise", "error"} /\ L'[t].ci = l[t].ci
  BY <1>1, <1>5, <1>8
<1>10. ~fails => ctl' = "run" /\ (f.allow <=> allow) /\ L'[t].ci = Append(l[t].ci, Info(fn))
  BY <1>1, <1>5, <1>8
<1>11. QED
  BY <1>1, <1>5, <1>7, <1>8, <1>9, <1>10 DEF Called

\* Called where it may be, luaD_call leaves the threads and the C stack fitting.
LEMMA CallWorld ==
    ASSUME NEW l, NEW s, NEW m, World(l, s, m), m \in {"run", "raise"},
           NEW t \in Threads, Runs(s, t),
           NEW allow \in BOOLEAN, NEW fn \in Functions, CallsOn(l[t].ci, s, t, allow, fn, m),
           NEW l2, NEW s2, NEW m2, Called(l, s, t, allow, fn, l2, s2, m2)
    PROVE  World(l2, s2, m2) /\ Runs(s2, t)
<1> DEFINE c == l[t].ci
           d == l2[t].ci
           k == Len(s2)
<1>1. s \in Seq(Frames) /\ ActGrouped(s) /\ s[1].t = Main /\ Len(s) # 0 /\ 1 \in 1..Len(s)
  BY DEF World, Runs
<1>2. /\ l2 \in [Threads -> State] /\ \A u \in Threads : u # t => l2[u] = l[u]
      /\ l2[t].status = l[t].status /\ l2[t].started = l[t].started
      /\ l2[t].errfunc = l[t].errfunc /\ l2[t].open = l[t].open
  BY DEF Called
<1>3. PICK f \in Frames :
         /\ s2 = Append(s, f) /\ f.k = "call" /\ f.t = t /\ f.base = Len(c)
         /\ \/ m2 = "run" /\ (f.allow <=> allow) /\ d = Append(c, Info(fn))
            \/ m2 \in {"raise", "error"} /\ d = c
  BY DEF Called
<1>4. /\ s2 \in Seq(Frames) /\ s2[k] = f /\ s2[1] = s[1]
      /\ Grown(s, s2, t, k) /\ Runs(s2, t)
      /\ \A u : u # t => Mine(s2, u) = Mine(s, u) /\ \A i \in Mine(s, u) : s2[i] = s[i]
  <2>1. Extended(s, s2, f) /\ f.t = t
    BY <1>1, <1>3 DEF Extended
  <2>2. /\ s2 \in Seq(Frames) /\ s2[Len(s2)] = f /\ (\A i \in 1..Len(s) : s2[i] = s[i])
        /\ Grown(s, s2, f.t, Len(s2)) /\ Runs(s2, f.t)
        /\ \A u : u # f.t => Mine(s2, u) = Mine(s, u) /\ \A i \in Mine(s, u) : s2[i] = s[i]
    BY <2>1, AppendGrows
  <2>3. QED
    BY <1>1, <2>1, <2>2
<1>5. ActGrouped(s2)
  BY <1>1, <1>3, GroupedAppend
<1>6. /\ c \in Seq(Infos) /\ Len(c) \in Nat
      /\ l[t].started /\ l[t].status = "ok" /\ Based(s, t)
      /\ Stack(c, s, t, m # "run")
      /\ ErrOk(c, s, t, l[t].errfunc, Len(c), Mine(s, t))
      /\ OpenOk(c, l[t].open)
  BY RunnerFacts
<1>7. /\ Mine(s2, t) # {} /\ Based(s2, t)
      /\ \A i \in Mine(s, t) : s[i].k \in Tries \cup {"call"}
  BY <1>1, <1>4, StackTypes
<1>8. s2[k].k = "call" /\ s2[k].base = Len(c) /\ (s2[k].allow <=> f.allow)
  BY <1>3, <1>4
<1>9. CallsOn(c, s, t, allow, fn, m) /\ l2[t].ci = d
  OBVIOUS
<1> HIDE DEF c, d, k
<1>10. Good(l2[t], s2, t, TRUE, m2 # "run") /\ m2 \in {"run", "raise", "error"}
  <2>1. CASE m2 = "run" /\ (f.allow <=> allow) /\ d = Append(c, Info(fn))
    <3>1. Pushed(c, d) /\ d[Len(c) + 1] = Info(fn)
      BY <1>6, <2>1, AppendInfo, InfoTypes
    <3>2. CallsOn(c, s, t, s2[k].allow, fn, m)
      BY <1>8, <1>9, <2>1 DEF CallsOn
    <3>3. /\ Stack(d, s2, t, FALSE)
          /\ ErrOk(d, s2, t, l[t].errfunc, Len(d), Mine(s2, t))
      BY <1>4, <1>6, <1>7, <1>8, <3>1, <3>2, CallBegins
    <3>4. OpenOk(d, l[t].open)
      BY <1>6, <3>1, OpenPushed
    <3>5. QED
      BY <1>2, <1>6, <1>7, <1>9, <2>1, <3>3, <3>4, RunnerGood
  <2>2. CASE m2 \in {"raise", "error"} /\ d = c
    <3>1. Len(c) > 0 => /\ ~c[Len(c)].stat
                        /\ c[Len(c)].fn = "host" => t = Main
                        /\ c[Len(c)].fn \in Protected => c[Len(c)].ypcall \/ HasTry(s, t, Len(c))
      BY <1>9 DEF CallsOn
    <3>2. /\ Stack(c, s2, t, TRUE)
          /\ ErrOk(c, s2, t, l[t].errfunc, Len(c), Mine(s2, t))
      BY <1>4, <1>6, <1>7, <1>8, <3>1, GrowCall
    <3>3. QED
      BY <1>2, <1>6, <1>7, <1>9, <2>2, <3>2, RunnerGood
  <2>3. QED
    BY <1>3, <2>1, <2>2
<1>11. m2 # "yield" /\ m2 \in Modes /\ l2[t].status # "yield" /\ s2[1].t = Main
  BY <1>1, <1>2, <1>4, <1>6, <1>10 DEF Modes
<1>12. \A u \in Threads : u # t => /\ l2[u] = l[u] /\ Mine(s2, u) = Mine(s, u)
                                   /\ \A i \in Mine(s, u) : s2[i] = s[i]
  BY <1>2, <1>4
<1>13. Steps(l, s, l2, s2, m2, t)
  BY <1>2, <1>4, <1>5, <1>10, <1>11, <1>12 DEF Steps
<1>14. QED
  BY <1>13, StepOn

-----------------------------------------------------------------------------
(* Steps of the running thread that leave its activation in place *)

\* The running thread t is in a call, the frames of t are all below it.
LEMMA BelowTop ==
    ASSUME NEW l, NEW s, World(l, s, "run"), NEW t \in Threads, Runs(s, t),
           ~(s[Len(s)].k \in Tries /\ s[Len(s)].base = Len(l[t].ci))
    PROVE  Len(l[t].ci) > 0 /\ \A i \in Mine(s, t) : s[i].base < Len(l[t].ci)
<1> DEFINE c == l[t].ci
           z == Len(s)
<1>1. /\ Len(c) \in Nat /\ Based(s, t) /\ Stack(c, s, t, FALSE)
  BY RunnerFacts
<1>2. /\ z \in Mine(s, t) /\ z \in Nat
      /\ \A i \in Mine(s, t) : i \in 1..z /\ s[i].k \in Tries \cup {"call"} /\ s[i].base \in Nat
  BY StackTypes DEF World, Based
<1>3. \A i \in Mine(s, t) : s[i].base <= Len(c)
  BY <1>1, <1>2, BasesBounded DEF Stack
<1>4. s[z].base # Len(c)
  BY <1>1, <1>2 DEF Stack, FramesOk, CallsOk
<1>5. \A i \in Mine(s, t) : i < z => s[i].base <= s[z].base
  BY <1>1, <1>2 DEF Stack, Ascending
<1>6. \A i \in Mine(s, t) : i < z \/ i = z
  BY <1>2
<1> HIDE DEF c, z
<1>7. ASSUME NEW i \in Mine(s, t)
      PROVE  s[i].base < Len(c)
  <2>1. s[z].base \in Nat /\ s[z].base <= Len(c) /\ s[z].base # Len(c) /\ Len(c) \in Nat
    BY <1>1, <1>2, <1>3, <1>4
  <2>2. s[i].base <= s[z].base /\ s[i].base \in Nat
    <3>1. s[z].base <= s[z].base
      BY <2>1
    <3>2. QED
      BY <1>2, <1>5, <1>6, <3>1
  <2>3. QED
    BY <2>1, <2>2
<1>8. QED
  BY <1>1, <1>2, <1>7 DEF c, z

\* The threads l2 are l but for t, in which a step has left the calls d, the mode m
\* and the rest as it was.
Stays(l, l2, t, m) ==
    /\ l2 \in [Threads -> State] /\ \A u \in Threads : u # t => l2[u] = l[u]
    /\ l2[t].started = l[t].started
    /\ m \in Modes /\ (l2[t].status = "yield" <=> m = "yield") /\ l2[t].status # "error"

\* The C stack is the same.
LEMMA StayWorld ==
    ASSUME NEW l, NEW s, NEW m, World(l, s, m), NEW t \in Threads, Runs(s, t),
           NEW l2, NEW m2, Stays(l, l2, t, m2),
           m2 = "yield" => /\ Len(l2[t].ci) # 0 /\ l2[t].ci[Len(l2[t].ci)].fn = "yield" /\ t # Main,
           Stack(l2[t].ci, s, t, m2 # "run"),
           ErrOk(l2[t].ci, s, t, l2[t].errfunc, Len(l2[t].ci), Mine(s, t)),
           OpenOk(l2[t].ci, l2[t].open)
    PROVE  World(l2, s, m2)
<1>1. l[t].started /\ Mine(s, t) # {}
  BY RunnerFacts
<1>2. Good(l2[t], s, t, TRUE, m2 # "run")
  BY <1>1, RunnerGood DEF Stays
<1>3. s \in Seq(Frames) /\ ActGrouped(s) /\ s[1].t = Main
  BY DEF World, Runs
<1>4. Steps(l, s, l2, s, m2, t)
  BY <1>2, <1>3 DEF Steps, Stays
<1>5. QED
  BY <1>4, StepOn

\* A call begins.
LEMMA PushWorld ==
    ASSUME NEW l, NEW s, NEW m, World(l, s, m), m # "yield", NEW t \in Threads, Runs(s, t),
           NEW l2, NEW m2, Stays(l, l2, t, m2), NEW f \in Infos,
           l2[t].ci = Append(l[t].ci, f), l2[t].open = l[t].open,
           m2 = "yield" => f.fn = "yield" /\ t # Main,
           PushesInfo(l[t].ci, s, t, m2 # "run", f), PushesOn(l[t].ci, s, t, f),
           ErrOk(l2[t].ci, s, t, l2[t].errfunc, Len(l2[t].ci), Mine(s, t))
    PROVE  World(l2, s, m2)
<1> DEFINE c == l[t].ci
           d == l2[t].ci
<1>1. c \in Seq(Infos) /\ Based(s, t) /\ Stack(c, s, t, m # "run") /\ OpenOk(c, l[t].open)
  BY RunnerFacts
<1>2. Pushed(c, d) /\ Len(d) = Len(c) + 1 /\ d[Len(c) + 1] = f /\ Len(c) \in Nat
  BY <1>1, AppendInfo
<1>3. \A i \in Mine(s, t) : s[i].k \in Tries \cup {"call"}
  BY StackTypes DEF World
<1>4. PushesInfo(c, s, t, m2 # "run", f) /\ PushesOn(c, s, t, f)
  OBVIOUS
<1> HIDE DEF c, d
<1>5. Stack(d, s, t, m2 # "run")
  BY <1>1, <1>2, <1>3, <1>4, PushStack
<1>6. OpenOk(d, l[t].open)
  BY <1>1, <1>2, OpenPushed
<1>7. Len(d) # 0 /\ d[Len(d)].fn = f.fn
  BY <1>2
<1>8. QED
  BY <1>5, <1>6, <1>7, StayWorld DEF d

\* A call that a Lua function makes of a function that needs no C frame.
LEMMA StepInto ==
    ASSUME NEW l, NEW s, World(l, s, "run"), NEW t \in Threads, Runs(s, t),
           Len(l[t].ci) > 0, l[t].ci[Len(l[t].ci)].fn \in Functions,
           \A i \in Mine(s, t) : s[i].base < Len(l[t].ci),
           NEW l2, NEW m2, Stays(l, l2, t, m2), NEW f \in Infos,
           l2[t].ci = Append(l[t].ci, f), l2[t].open = l[t].open, l2[t].errfunc = l[t].errfunc,
           m2 = "yield" => f.fn = "yield" /\ t # Main,
           f.fn \notin Functions \/ (f.fn = "lua" /\ f.reentry), ~f.stat, ~f.ypcall,
           f.reentry => f.fn = "lua", f.fn = "raise" => m2 # "run",
           f.fn = "host" => m2 = "run", f.fn \in Protected => m2 = "run"
    PROVE  World(l2, s, m2)
<1> DEFINE c == l[t].ci
           d == l2[t].ci
<1>1. c \in Seq(Infos) /\ Based(s, t) /\ Stack(c, s, t, FALSE) /\ ErrOk(c, s, t, l[t].errfunc, Len(c), Mine(s, t))
  BY RunnerFacts
<1>2. Pushed(c, d) /\ Len(d) = Len(c) + 1 /\ d[Len(c) + 1] = f /\ Len(c) \in Nat
  BY <1>1, AppendInfo
<1>3. f.fn # "handler" /\ c[Len(c)].fn \notin Protected \cup {"raise", "host", "sort"}
  BY DEF Functions, Protected
<1>4. \A i \in Mine(s, t) : s[i].base \in Nat /\ s[i].base # Len(c) /\ s[i].base # Len(d)
  BY <1>1, <1>2 DEF Based
<1>5. PushesInfo(c, s, t, m2 # "run", f)
  BY <1>3 DEF PushesInfo
<1>6. PushesOn(c, s, t, f)
  <2>1. ~c[Len(c)].stat
    BY <1>1, <1>2, <1>3 DEF Stack, InfosOk, Flagged
  <2>2. QED
    BY <1>3, <1>4, <2>1 DEF PushesOn
<1>7. ErrOk(d, s, t, l[t].errfunc, Len(d), Mine(s, t))
  <2>1. ~Guard(d, s, t, Len(d))
    BY <1>2, <1>4 DEF Guard, HasTry
  <2>2. ErrOk(d, s, t, l[t].errfunc, Len(c), Mine(s, t))
    BY <1>1, <1>2, PushErr
  <2>3. QED
    BY <1>2, <2>1, <2>2 DEF ErrOk
<1>8. QED
  BY <1>5, <1>6, <1>7, PushWorld

-----------------------------------------------------------------------------
(* The invariant, and the steps of a Lua function *)

\* The invariant: the threads fit to the C stack, nny is exact, and
\* a thread that yields can.
CoInv == /\ World(L, cs, ctl) /\ CountInv /\ ok \in BOOLEAN
         /\ ctl = "yield" => L[R].nny = 0

\* One thread changes.
LEMMA Updated ==
    ASSUME NEW l \in [Threads -> State], NEW t \in Threads, NEW y \in State
    PROVE  /\ [l EXCEPT ![t] = y] \in [Threads -> State] /\ [l EXCEPT ![t] = y][t] = y
           /\ \A u \in Threads : u # t => [l EXCEPT ![t] = y][u] = l[u]
OBVIOUS

\* The running thread is a thread.
LEMMA Here ==
    ASSUME CoInv, cs # <<>>
    PROVE  /\ R \in Threads /\ Runs(cs, R) /\ L \in [Threads -> State] /\ L[R] \in State
           /\ L[R].ci \in Seq(Infos) /\ cs \in Seq(Frames) /\ Len(cs) \in Nat /\ Len(cs) > 0
<1>1. cs \in Seq(Frames) /\ Len(cs) \in Nat /\ Len(cs) > 0 /\ Len(cs) \in 1..Len(cs)
  BY DEF CoInv, World
<1>2. cs[Len(cs)] \in Frames
  BY <1>1
<1>3. R \in Threads
  BY <1>2, FrameTypes DEF R
<1>4. L \in [Threads -> State]
  BY DEF CoInv, World
<1>5. L[R] \in State /\ L[R].ci \in Seq(Infos)
  BY <1>3, <1>4 DEF State
<1>6. QED
  BY <1>1, <1>3, <1>4, <1>5 DEF Runs, R

\* A Lua function runs: no frame of its thread stands above it.
LEMMA LuaRuns ==
    ASSUME CoInv, InLua
    PROVE  /\ World(L, cs, "run") /\ ctl = "run" /\ cs # <<>>
           /\ Len(L[R].ci) > 0 /\ L[R].ci[Len(L[R].ci)].fn \in Functions
           /\ \A i \in Mine(cs, R) : cs[i].base < Len(L[R].ci)
           /\ L[R].status = "ok" /\ L[R].started
<1>1. ctl = "run" /\ cs # <<>> /\ World(L, cs, "run")
  BY DEF CoInv, InLua
<1>2. R \in Threads /\ Runs(cs, R)
  BY <1>1, Here
<1>3. ~(cs[Len(cs)].k \in Tries /\ cs[Len(cs)].base = Len(L[R].ci))
  BY DEF InLua, Done, Size
<1>4. Len(L[R].ci) > 0 /\ \A i \in Mine(cs, R) : cs[i].base < Len(L[R].ci)
  BY <1>1, <1>2, <1>3, BelowTop
<1>5. L[R].status = "ok" /\ L[R].started
  BY <1>1, <1>2, RunnerFacts
<1>6. QED
  BY <1>1, <1>4, <1>5 DEF InLua, Top, Size

\* A call comes on the calls of a thread.
Pushes(l, l2, t, f) == /\ l \in [Threads -> State] /\ t \in Threads /\ f \in Infos
                       /\ l2 = [l EXCEPT ![t].ci = Append(@, f)]

\* Only the calls of the thread change.
LEMMA PushStays ==
    ASSUME NEW l, NEW l2, NEW t, NEW f, Pushes(l, l2, t, f)
    PROVE  /\ l2 \in [Threads -> State] /\ \A u \in Threads : u # t => l2[u] = l[u]
           /\ l2[t].ci = Append(l[t].ci, f)
           /\ l2[t].status = l[t].status /\ l2[t].started = l[t].started
           /\ l2[t].errfunc = l[t].errfunc /\ l2[t].open = l[t].open
           /\ l2[t].nny = l[t].nny /\ l2[t].nCcalls = l[t].nCcalls
<1> DEFINE d == Append(l[t].ci, f)
           y == [l[t] EXCEPT !.ci = d]
<1>1. l \in [Threads -> State] /\ t \in Threads /\ f \in Infos
  BY DEF Pushes
<1>2. l2 = [l EXCEPT ![t] = y]
  BY Zenon DEF Pushes
<1>3. l[t] \in State /\ d \in Seq(Infos)
  BY <1>1 DEF State
<1>4. y \in State
  BY <1>3 DEF State
<1>5. y.ci = d /\ y.status = l[t].status /\ y.started = l[t].started /\ y.errfunc = l[t].errfunc
      /\ y.open = l[t].open /\ y.nny = l[t].nny /\ y.nCcalls = l[t].nCcalls
  BY <1>3 DEF State
<1> HIDE DEF y
<1>6. l2 \in [Threads -> State] /\ l2[t] = y /\ \A u \in Threads : u # t => l2[u] = l[u]
  BY <1>1, <1>2, <1>4, Updated
<1>7. QED
  BY <1>5, <1>6

\* OP_CALL of a Lua function, and functions that raise an error.
LEMMA LuaSteps ==
    ASSUME CoInv, CallLua \/ Raise
    PROVE  World(L', cs', ctl')
<1>1. InLua /\ cs' = cs
  BY DEF CallLua, Raise
<1>2. /\ World(L, cs, "run") /\ ctl = "run" /\ cs # <<>>
      /\ Len(L[R].ci) > 0 /\ L[R].ci[Len(L[R].ci)].fn \in Functions
      /\ \A i \in Mine(cs, R) : cs[i].base < Len(L[R].ci)
      /\ L[R].status = "ok"
  BY <1>1, LuaRuns
<1>3. R \in Threads /\ Runs(cs, R) /\ L \in [Threads -> State]
  BY <1>2, Here
<1>4. PICK f \in Infos :
         /\ L' = [L EXCEPT ![R].ci = Append(@, f)]
         /\ ~f.stat /\ ~f.ypcall
         /\ \/ f.fn = "lua" /\ f.reentry /\ ctl' = "run"
            \/ f.fn = "raise" /\ ~f.reentry /\ ctl' = "raise"
  <2>1. CASE CallLua
    <3> DEFINE f == [Info("lua") EXCEPT !.reentry = TRUE]
    <3>1. f \in Infos /\ f.fn = "lua" /\ f.reentry /\ ~f.stat /\ ~f.ypcall
      BY DEF Info, Infos, Functions, CFunctions
    <3>2. L' = [L EXCEPT ![R].ci = Append(@, f)] /\ ctl' = "run"
      BY <1>2, <2>1 DEF CallLua, Push
    <3>3. QED
      BY <3>1, <3>2
  <2>2. CASE Raise
    <3>1. Info("raise") \in Infos /\ Info("raise").fn = "raise" /\ ~Info("raise").reentry
          /\ ~Info("raise").stat /\ ~Info("raise").ypcall
      BY InfoTypes DEF CFunctions
    <3>2. L' = [L EXCEPT ![R].ci = Append(@, Info("raise"))] /\ ctl' = "raise"
      BY <2>2 DEF Raise, Push
    <3>3. QED
      BY <3>1, <3>2
  <2>3. QED
    BY <2>1, <2>2
<1>5. /\ L' \in [Threads -> State] /\ \A u \in Threads : u # R => L'[u] = L[u]
      /\ L'[R].ci = Append(L[R].ci, f)
      /\ L'[R].status = L[R].status /\ L'[R].started = L[R].started
      /\ L'[R].errfunc = L[R].errfunc /\ L'[R].open = L[R].open
  <2>1. Pushes(L, L', R, f)
    BY <1>3, <1>4 DEF Pushes
  <2>2. QED
    BY <2>1, PushStays
<1>6. Stays(L, L', R, ctl')
  BY <1>2, <1>4, <1>5 DEF Stays, Modes
<1>7. /\ f.fn \notin Functions \/ (f.fn = "lua" /\ f.reentry)
      /\ f.reentry => f.fn = "lua"
      /\ f.fn = "raise" => ctl' # "run"
      /\ f.fn \notin Protected /\ ctl' # "yield"
  BY <1>4 DEF Functions, Protected
<1>8. World(L', cs, ctl')
  BY <1>2, <1>3, <1>4, <1>5, <1>6, <1>7, StepInto
<1>9. QED
  BY <1>1, <1>8

-----------------------------------------------------------------------------
(* Calls return *)

\* A handler stays that of its protected call when the calls up to there stay protected.
LEMMA ErrSame ==
    ASSUME NEW c, NEW d, NEW s, NEW w, NEW t, NEW e, NEW n, NEW F, NEW G,
           \A i \in 1..n : c[i].fn = d[i].fn /\ (Guard(d, w, t, i) <=> Guard(c, s, t, i)),
           \A j \in G : j \in F /\ w[j] = s[j], ErrOk(c, s, t, e, n, F)
    PROVE  ErrOk(d, w, t, e, n, G)
BY DEF ErrOk

\* A call that is not protected has no part in it.
LEMMA ErrDrop ==
    ASSUME NEW c, NEW s, NEW t, NEW e, NEW n \in Nat, NEW F, ~Guard(c, s, t, n)
    PROVE  ErrOk(c, s, t, e, n, F) <=> ErrOk(c, s, t, e, n - 1, F)
<1>1. \A i : i \in 1..n <=> i \in 1..n - 1 \/ (i = n /\ n > 0)
  OBVIOUS
<1>2. \A i \in 1..n - 1 : i \in Nat /\ i < n
  OBVIOUS
<1>3. ASSUME ErrOk(c, s, t, e, n, F)
      PROVE  ErrOk(c, s, t, e, n - 1, F)
  BY <1>1, <1>3 DEF ErrOk
<1>4. ASSUME ErrOk(c, s, t, e, n - 1, F)
      PROVE  ErrOk(c, s, t, e, n, F)
  BY <1>1, <1>2, <1>4 DEF ErrOk
<1>5. QED
  BY <1>3, <1>4

\* The last of the calls c returns to the calls d; the frames that remain are
\* those of w.
LEMMA PopErr ==
    ASSUME NEW c, NEW d, Pushed(d, c), NEW s, NEW w, NEW t,
           Mine(w, t) \subseteq Mine(s, t), \A i \in Mine(w, t) : w[i] = s[i],
           \A i \in Mine(s, t) : s[i].k = "pcall" => i \in Mine(w, t),
           NEW e, NEW n, n = Len(d), ErrOk(c, s, t, e, n, Mine(s, t))
    PROVE  ErrOk(d, w, t, e, n, Mine(w, t))
<1>1. \A q : HasTry(w, t, q) <=> HasTry(s, t, q)
  BY DEF HasTry
<1>2. \A i \in 1..n : c[i] = d[i]
  BY DEF Pushed
<1>3. \A i \in 1..n : Guard(d, w, t, i) <=> Guard(c, s, t, i)
  BY <1>1, <1>2 DEF Guard
<1>4. QED
  BY <1>2, <1>3, ErrSame

\* luaF_close of the function that returns.
LEMMA PopOpen ==
    ASSUME NEW c, NEW d, Pushed(d, c), NEW open, NEW less, less \subseteq open, OpenOk(c, open),
           Len(c) \notin less
    PROVE  OpenOk(d, less)
<1>1. \A i \in 1..Len(c) : i = Len(c) \/ (i \in 1..Len(d) /\ d[i] = c[i])
  BY DEF Pushed
<1>2. QED
  BY <1>1 DEF OpenOk

\* A call returns.
LEMMA FrontInfos ==
    ASSUME NEW c \in Seq(Infos), Len(c) > 0
    PROVE  /\ Front(c) \in Seq(Infos) /\ Pushed(Front(c), c)
           /\ Len(c) \in Nat /\ Len(Front(c)) = Len(c) - 1
<1> DEFINE n == Len(c) - 1
<1>1. n \in 0..Len(c) /\ Len(c) \in Nat /\ n + 1 = Len(c) /\ Front(c) = SubSeq(c, 1, n)
  BY DEF Front
<1>2. SubSeq(c, 1, n) \in Seq(Infos) /\ Len(SubSeq(c, 1, n)) = n
      /\ \A i \in 1..n : SubSeq(c, 1, n)[i] = c[i]
  BY <1>1, CutFacts
<1> HIDE DEF n
<1>3. QED
  BY <1>1, <1>2 DEF Pushed, n

\* A call returns with its C frames, if it has any, still there.
LEMMA PopWorld ==
    ASSUME NEW l, NEW s, World(l, s, "run"), NEW t \in Threads, Runs(s, t),
           NEW c, c = l[t].ci, Len(c) > 0,
           \A i \in Mine(s, t) : s[i].base < Len(c) /\ ~(s[i].k = "call" /\ s[i].base = Len(c) - 1),
           NEW l2, Stays(l, l2, t, "run"), l2[t].ci = Front(c), l2[t].open \subseteq l[t].open,
           Len(c) \notin l2[t].open,
           ErrOk(c, s, t, l2[t].errfunc, Len(c) - 1, Mine(s, t))
    PROVE  World(l2, s, "run")
<1> DEFINE d == l2[t].ci
           p == Len(c) - 1
           m == Len(s) + 1
<1>1. /\ c \in Seq(Infos) /\ Based(s, t) /\ Stack(c, s, t, FALSE) /\ OpenOk(c, l[t].open)
  BY RunnerFacts
<1>2. /\ Pushed(d, c) /\ Len(d) = p /\ Len(c) \in Nat
  BY <1>1, FrontInfos
<1>3. p \in 0..Len(c) /\ p + 1 = Len(c) /\ p < Len(c) /\ (p > 0 => p \in 1..Len(c))
  BY <1>2
<1>4. m \in Nat /\ \A i \in Mine(s, t) : i \in Nat /\ i < m
  BY StackTypes DEF World
<1>5. Mine(s, t) = Below(s, t, m)
  BY <1>4 DEF Below
<1>6. Cut(c, d, s, s, t, p, m)
  BY <1>2, <1>3, <1>5 DEF Cut, Pushed
<1>7. \A i \in Mine(s, t) : s[i].base <= p /\ (s[i].k = "call" => s[i].base < p)
  BY <1>1, <1>2 DEF Based
<1>8. p > 0 => c[p].fn # "raise" /\ d[p].stat = c[p].stat
  <2> SUFFICES ASSUME p > 0 PROVE c[p].fn # "raise" /\ d[p].stat = c[p].stat
    OBVIOUS
  <2>1. d[p] = c[p]
    BY <1>2, <1>3 DEF Pushed
  <2>2. CASE c[p].fn = "raise"
    <3>1. c[Len(c)].fn = "handler"
      BY <1>1, <1>3, <2>2 DEF Stack, InfosOk, RaiseOnTop
    <3>2. HasPin(s, t, p)
      BY <1>1, <1>2, <3>1 DEF Stack, Owned, PinsOwned
    <3>3. QED
      BY <3>2 DEF HasPin
  <2>3. QED
    BY <2>1, <2>2
<1>9. CutsAll(c, d, s, s, t, FALSE, p, m)
  BY <1>4, <1>7, <1>8 DEF CutsAll
<1> HIDE DEF d, p, m
<1>10. Stack(d, s, t, FALSE)
  BY <1>1, <1>4, <1>6, <1>9, CutStack
<1>11. ErrOk(d, s, t, l2[t].errfunc, Len(d), Mine(s, t))
  BY <1>2, PopErr DEF p
<1>12. OpenOk(d, l2[t].open)
  BY <1>1, <1>2, PopOpen DEF d
<1>13. QED
  BY <1>10, <1>11, <1>12, StayWorld DEF d

\* The frames of the running thread t from the q-th on are gone.
Lowered(s, s2, t, q) ==
    /\ q \in 1..Len(s) + 1 /\ q > 1 /\ s2 = SubSeq(s, 1, q - 1) /\ s[q - 1].t = t
    /\ \A i \in q..Len(s) : s[i].t = t

\* What is left of the C stack.
LEMMA LoweredFrames ==
    ASSUME NEW s \in Seq(Frames), ActGrouped(s), NEW s2, NEW t, NEW q, Lowered(s, s2, t, q)
    PROVE  /\ s2 \in Seq(Frames) /\ Len(s2) = q - 1 /\ ActGrouped(s2) /\ Runs(s2, t)
           /\ s2[1] = s[1] /\ q \in Nat
           /\ Mine(s2, t) = Below(s, t, q) /\ \A i \in Mine(s2, t) : s2[i] = s[i]
           /\ Mine(s2, t) # {} /\ Mine(s2, t) \subseteq Mine(s, t)
           /\ \A u : u # t => Mine(s2, u) = Mine(s, u) /\ \A i \in Mine(s, u) : s2[i] = s[i]
<1>1. q \in 1..Len(s) + 1 /\ q > 1 /\ s2 = SubSeq(s, 1, q - 1) /\ s[q - 1].t = t
      /\ \A i \in q..Len(s) : s[i].t = t
  BY DEF Lowered
<1>2. /\ s2 \in Seq(Frames) /\ Len(s2) = q - 1 /\ \A i \in 1..q - 1 : s2[i] = s[i]
      /\ \A u : Mine(s2, u) = Below(s, u, q) /\ \A i \in Mine(s2, u) : s2[i] = s[i]
      /\ \A u : (\A i \in q..Len(s) : s[i].t # u)
                => Mine(s2, u) = Mine(s, u) /\ \A i \in Mine(s, u) : s2[i] = s[i]
  <2>1. FirstOf(s, s2, q)
    BY <1>1 DEF FirstOf
  <2>2. QED
    BY <2>1, FirstFrames
<1>3. ActGrouped(s2)
  BY <1>1, GroupedCut
<1>4. q \in Nat /\ 1 \in 1..q - 1 /\ q - 1 \in 1..q - 1 /\ q - 1 # 0
  BY <1>1
<1>5. s2[1] = s[1] /\ Runs(s2, t) /\ q - 1 \in Mine(s2, t)
  BY <1>1, <1>2, <1>4 DEF Runs, Mine
<1>6. \A u : u # t => Mine(s2, u) = Mine(s, u) /\ \A i \in Mine(s, u) : s2[i] = s[i]
  BY <1>1, <1>2
<1>7. Mine(s2, t) \subseteq Mine(s, t)
  BY <1>2 DEF Below
<1>8. QED
  BY <1>2, <1>3, <1>4, <1>5, <1>6, <1>7

\* The thread goes on below them.
LEMMA LowerWorld ==
    ASSUME NEW l, NEW s, NEW m, World(l, s, m), NEW t \in Threads, Runs(s, t),
           NEW s2, NEW q, Lowered(s, s2, t, q),
           NEW l2, NEW m2, Stays(l, l2, t, m2), m2 # "yield",
           Stack(l2[t].ci, s2, t, m2 # "run"),
           ErrOk(l2[t].ci, s2, t, l2[t].errfunc, Len(l2[t].ci), Mine(s2, t)),
           OpenOk(l2[t].ci, l2[t].open)
    PROVE  World(l2, s2, m2) /\ Runs(s2, t)
<1>1. s \in Seq(Frames) /\ ActGrouped(s) /\ s[1].t = Main /\ l[t].started
  BY RunnerFacts DEF World, Runs
<1>2. /\ s2 \in Seq(Frames) /\ ActGrouped(s2) /\ Runs(s2, t)
      /\ s2[1] = s[1] /\ Mine(s2, t) # {}
      /\ \A u : u # t => Mine(s2, u) = Mine(s, u) /\ \A i \in Mine(s, u) : s2[i] = s[i]
  BY <1>1, LoweredFrames
<1>3. Good(l2[t], s2, t, TRUE, m2 # "run")
  BY <1>1, <1>2, RunnerGood DEF Stays
<1>4. Steps(l, s, l2, s2, m2, t)
  BY <1>1, <1>2, <1>3 DEF Steps, Stays
<1>5. QED
  BY <1>4, StepOn

\* The last frame, where it starts no activation.
LEMMA LowerOne ==
    ASSUME NEW s \in Seq(Frames), ActGrouped(s), NEW t, Runs(s, t), s[Len(s)].k \notin Starts
    PROVE  Lowered(s, Front(s), t, Len(s))
<1> DEFINE z == Len(s)
<1>1. z \in Nat /\ z # 0 /\ s[z].t = t /\ z \in 1..z
  BY DEF Runs
<1>2. PICK h \in 1..z : /\ s[h].k \in Starts /\ s[h].t = s[z].t
                        /\ \A j \in h + 1..z : s[j].k \notin Starts /\ s[j].t = s[z].t
  BY <1>1 DEF ActGrouped
<1>3. h # z
  BY <1>2
<1>4. z > 1 /\ z \in 1..z + 1 /\ (z - 1 = h \/ z - 1 \in h + 1..z) /\ \A i \in z..z : i = z
  BY <1>1, <1>2, <1>3
<1>5. s[z - 1].t = t
  BY <1>1, <1>2, <1>4
<1>6. QED
  BY <1>1, <1>4, <1>5 DEF Lowered, Front

\* A Lua function returns to luaD_call.
LEMMA ReturnWorld ==
    ASSUME NEW l, NEW s, World(l, s, "run"), NEW t \in Threads, Runs(s, t),
           NEW c, c = l[t].ci, Len(c) > 0, c[Len(c)].fn \in Functions, ~c[Len(c)].reentry,
           \A i \in Mine(s, t) : s[i].base < Len(c), s[Len(s)].k = "call",
           NEW l2, NEW m2, Stays(l, l2, t, m2), m2 # "yield", m2 # "run" <=> c[Len(c)].fn = "handler",
           l2[t].ci = Front(c), l2[t].open = l[t].open \ {Len(c)}, l2[t].errfunc = l[t].errfunc
    PROVE  World(l2, Front(s), m2) /\ Runs(Front(s), t)
<1> DEFINE d == l2[t].ci
           p == Len(c) - 1
           z == Len(s)
           w == Front(s)
           v == m2 # "run"
           e == l[t].errfunc
<1>1. /\ c \in Seq(Infos) /\ Based(s, t) /\ Stack(c, s, t, FALSE) /\ OpenOk(c, l[t].open)
      /\ ErrOk(c, s, t, e, Len(c), Mine(s, t))
  BY RunnerFacts
<1>2. /\ Pushed(d, c) /\ Len(d) = p /\ Len(c) \in Nat
  BY <1>1, FrontInfos
<1>3. p \in 0..Len(c) /\ p + 1 = Len(c) /\ p < Len(c) /\ (p > 0 => p \in 1..Len(c)) /\ Len(c) \in 1..Len(c)
  BY <1>2
<1>4. s \in Seq(Frames) /\ ActGrouped(s)
  BY DEF World
<1>5. Lowered(s, w, t, z)
  BY <1>4, LowerOne DEF Starts
<1>6. /\ z \in Nat /\ Mine(w, t) = Below(s, t, z) /\ \A i \in Mine(w, t) : w[i] = s[i]
      /\ Mine(w, t) \subseteq Mine(s, t)
  BY <1>4, <1>5, LoweredFrames
<1>7. /\ z \in Mine(s, t) /\ z \in Nat
      /\ \A i \in Mine(s, t) : i \in 1..z /\ s[i].k \in Tries \cup {"call"} /\ s[i].base \in Nat
  BY <1>1, <1>4, StackTypes DEF Based
<1>8. \A i \in Mine(s, t) : i = z \/ (i < z /\ i \in Mine(w, t) /\ s[i].base <= s[z].base)
  BY <1>1, <1>6, <1>7 DEF Stack, Ascending, Below
<1>9. s[z].base = p
  <2>1. s[z].base <= p
    BY <1>3, <1>7
  <2>2. ASSUME s[z].base < p
        PROVE  FALSE
    <3>1. HasCall(s, t, Len(c) - 1)
      <4>1. Len(c) > s[z].base + 1 /\ Len(c) \in 1..Len(c) /\ z \in Mine(s, t)
        BY <1>3, <1>7, <2>2
      <4>2. CallsOwned(c, s, t)
        BY <1>1 DEF Stack, Owned
      <4>3. QED
        BY <4>1, <4>2 DEF CallsOwned
    <3>2. PICK j \in Mine(s, t) : s[j].base = p
      BY <3>1 DEF HasCall
    <3>3. QED
      BY <1>7, <1>8, <2>2, <3>2
  <2>3. QED
    BY <1>3, <1>7, <2>1, <2>2
<1> HIDE DEF d, p, z, w
<1>10. Cut(c, d, s, w, t, p, z)
  BY <1>2, <1>3, <1>6 DEF Cut, Pushed
<1>11. CutsAll(c, d, s, w, t, v, p, z)
  <2>1. ASSUME NEW i \in Mine(w, t)
        PROVE  s[i].base <= p /\ (s[i].k = "call" => s[i].base < p \/ v)
    <3>1. i \in Mine(s, t) /\ i < z /\ s[i].base <= p /\ s[i].base \in Nat
      BY <1>6, <1>7, <1>8, <1>9, <2>1 DEF Below
    <3>2. ASSUME s[i].k = "call", s[i].base = p
          PROVE  v
      <4>1. s[i].base = Len(c) \/ c[s[i].base + 1].fn = "handler"
        BY <1>1, <1>7, <1>9, <3>1, <3>2 DEF Stack, Repeated, z
      <4>2. QED
        BY <1>3, <3>2, <4>1
    <3>3. QED
      BY <1>3, <3>1, <3>2
  <2>2. ASSUME NEW i \in Mine(s, t), i >= z
        PROVE  s[i].base >= p
    BY <1>3, <1>7, <1>9, <2>2
  <2>3. ASSUME p > 0
        PROVE  /\ v => ~d[p].stat /\ (c[p].fn \in Protected => c[p].ypcall \/ HasTry(w, t, p))
               /\ c[p].fn = "raise" => v
               /\ c[p].fn = "host" => t = Main \/ ~v
               /\ d[p].stat # c[p].stat =>
                    d[p].stat /\ c[p].fn \in Protected /\ ~HasTry(w, t, p)
    <3>1. d[p] = c[p] /\ p \in 1..Len(c) /\ p < Len(c) /\ p # Len(c)
      BY <1>2, <1>3, <2>3 DEF Pushed
    <3>2. ~c[p].stat
      BY <1>1, <3>1 DEF Stack, InfosOk, StatOnTop
    <3>3. c[p].fn = "raise" => v
      BY <1>1, <1>3, <3>1 DEF Stack, InfosOk, RaiseOnTop
    <3>4. c[p].fn \in Protected => c[p].ypcall \/ HasTry(s, t, p)
      BY <1>1, <3>1 DEF Stack, Owned, Guarded
    <3>5. HasTry(s, t, p) => HasTry(w, t, p)
      BY <1>6, <1>8 DEF HasTry, z
    <3>6. c[p].fn = "host" => t = Main
      BY <1>1, <3>1 DEF Stack, InfosOk, HostOnTop
    <3>7. QED
      BY <3>1, <3>2, <3>3, <3>4, <3>5, <3>6
  <2>4. QED
    BY <2>1, <2>2, <2>3 DEF CutsAll
<1>12. Stack(d, w, t, v)
  BY <1>1, <1>6, <1>10, <1>11, CutStack
<1>13. ErrOk(d, w, t, e, Len(d), Mine(w, t))
  <2>1. ~Guard(c, s, t, Len(c))
    BY DEF Guard, Functions, Protected
  <2>2. ErrOk(c, s, t, e, p, Mine(s, t))
    BY <1>1, <1>2, <2>1, ErrDrop DEF p
  <2>3. \A i \in Mine(s, t) : s[i].k = "pcall" => i \in Mine(w, t)
    BY <1>8 DEF z
  <2>4. QED
    BY <1>2, <1>6, <2>2, <2>3, PopErr
<1>14. OpenOk(d, l2[t].open)
  BY <1>1, <1>2, PopOpen
<1>15. QED
  BY <1>5, <1>12, <1>13, <1>14, LowerWorld DEF d, w

\* nny is 0: no call on the C stack keeps the thread from yielding.
LEMMA Unpinned ==
    ASSUME CoInv, cs # <<>>, L[R].nny = 0
    PROVE  R # Main /\ \A p : ~HasPin(cs, R, p)
<1>1. R \in Threads /\ Runs(cs, R) /\ cs \in Seq(Frames)
  BY Here
<1>2. Pinned(cs, R) = 0
  BY <1>1 DEF CoInv, CountInv, Exact
<1>3. IsFiniteSet(Pins(cs, R)) /\ Cardinality(Pins(cs, R)) \in Nat
  BY <1>1, PinsFinite
<1>4. Started(cs, R) # {} /\ Cardinality(Pins(cs, R)) = 0
  BY <1>2, <1>3 DEF Pinned
<1>5. Pins(cs, R) = {}
  BY <1>3, <1>4, FS_EmptySet
<1>6. PICK a \in Started(cs, R) : TRUE
  BY <1>4
<1>7. a \in Mine(cs, R) /\ cs[a].k = "resume"
  BY <1>6 DEF Started, Mine
<1>8. ResumesOk(cs, R)
  BY <1>1, RunnerFacts DEF CoInv, Stack, FramesOk
<1>9. R # Main /\ \A j \in Mine(cs, R) : j >= a
  BY <1>7, <1>8 DEF ResumesOk
<1>10. \A j \in Started(cs, R) : j \in Mine(cs, R) /\ cs[j].k = "resume" /\ j \in Int
  BY DEF Started, Mine
<1>11. \A j \in Started(cs, R) : j = a
  BY <1>7, <1>8, <1>9, <1>10 DEF ResumesOk
<1>12. ASSUME NEW j \in Mine(cs, R), cs[j].k = "call", ~cs[j].allow
       PROVE  FALSE
  <2>1. j > a
    BY <1>7, <1>9, <1>10, <1>6, <1>12 DEF Mine
  <2>2. j \in Pins(cs, R)
    BY <1>11, <1>12, <2>1 DEF Pins, Mine
  <2>3. QED
    BY <1>5, <2>2
<1>13. QED
  BY <1>9, <1>12 DEF HasPin

\* What LuaReturns, CReturns, FindUpval and TailCall leave of a thread.
LEMMA FieldStays ==
    ASSUME NEW l \in [Threads -> State], NEW t \in Threads, NEW y \in State,
           NEW l2, l2 = [l EXCEPT ![t] = y], y.started = l[t].started,
           NEW m \in Modes, m # "yield", y.status = "ok"
    PROVE  Stays(l, l2, t, m) /\ l2[t] = y
BY Updated DEF Stays

\* luaF_findupval, and a call that takes the place of its caller.
LEMMA OpenSteps ==
    ASSUME CoInv, FindUpval \/ TailCall
    PROVE  World(L', cs', ctl')
<1>1. InLua /\ cs' = cs /\ ctl' = ctl
  BY DEF FindUpval, TailCall
<1>2. /\ World(L, cs, "run") /\ ctl = "run" /\ cs # <<>>
      /\ Len(L[R].ci) > 0 /\ L[R].ci[Len(L[R].ci)].fn \in Functions
      /\ L[R].status = "ok"
  BY <1>1, LuaRuns
<1>3. R \in Threads /\ Runs(cs, R) /\ L \in [Threads -> State] /\ L[R] \in State
  BY <1>2, Here
<1>4. /\ Len(L[R].ci) \in Nat /\ Stack(L[R].ci, cs, R, FALSE) /\ OpenOk(L[R].ci, L[R].open)
      /\ ErrOk(L[R].ci, cs, R, L[R].errfunc, Len(L[R].ci), Mine(cs, R))
  BY <1>2, <1>3, RunnerFacts
<1>5. PICK o \in SUBSET Nat : /\ L' = [L EXCEPT ![R] = [L[R] EXCEPT !.open = o]]
                              /\ OpenOk(L[R].ci, o)
  <2>1. CASE FindUpval
    <3> DEFINE o == L[R].open \cup {Len(L[R].ci)}
    <3>1. o \in SUBSET Nat
      BY <1>3, <1>4 DEF State
    <3>2. L' = [L EXCEPT ![R] = [L[R] EXCEPT !.open = o]]
      BY <2>1, Zenon DEF FindUpval, Size
    <3>3. OpenOk(L[R].ci, o)
      BY <1>2, <1>4 DEF OpenOk
    <3>4. QED
      BY <3>1, <3>2, <3>3
  <2>2. CASE TailCall
    <3> DEFINE o == L[R].open \ {Len(L[R].ci)}
    <3>1. o \in SUBSET Nat
      BY <1>3 DEF State
    <3>2. L' = [L EXCEPT ![R] = [L[R] EXCEPT !.open = o]]
      BY <2>2, Zenon DEF TailCall, Size
    <3>3. OpenOk(L[R].ci, o)
      BY <1>4 DEF OpenOk
    <3>4. QED
      BY <3>1, <3>2, <3>3
  <2>3. QED
    BY <2>1, <2>2
<1> DEFINE y == [L[R] EXCEPT !.open = o]
<1>6. /\ y \in State /\ y.ci = L[R].ci /\ y.status = "ok" /\ y.started = L[R].started
      /\ y.errfunc = L[R].errfunc /\ y.open = o
  BY <1>2, <1>3 DEF State
<1> HIDE DEF y
<1>7. Stays(L, L', R, "run") /\ L'[R] = y
  BY <1>3, <1>5, <1>6, FieldStays DEF Modes, y
<1>8. World(L', cs, "run")
  <2>1. /\ Stack(L'[R].ci, cs, R, "run" # "run")
        /\ ErrOk(L'[R].ci, cs, R, L'[R].errfunc, Len(L'[R].ci), Mine(cs, R))
        /\ OpenOk(L'[R].ci, L'[R].open)
    BY <1>4, <1>5, <1>6, <1>7
  <2>2. QED
    BY <1>2, <1>3, <1>7, <2>1, StayWorld
<1>9. QED
  BY <1>1, <1>2, <1>8

\* lua_yieldk.
LEMMA YieldStep ==
    ASSUME CoInv, Yield
    PROVE  World(L', cs', ctl') /\ (ctl' = "yield" => L'[R].nny = 0)
<1>1. InLua /\ cs' = cs
  BY DEF Yield
<1>2. /\ World(L, cs, "run") /\ ctl = "run" /\ cs # <<>>
      /\ Len(L[R].ci) > 0 /\ L[R].ci[Len(L[R].ci)].fn \in Functions
      /\ \A i \in Mine(cs, R) : cs[i].base < Len(L[R].ci)
      /\ L[R].status = "ok"
  BY <1>1, LuaRuns
<1>3. R \in Threads /\ Runs(cs, R) /\ L \in [Threads -> State] /\ L[R] \in State /\ L[R].nny \in Int
  BY <1>2, Here DEF State
<1>4. CASE L[R].nny > 0
  <2> DEFINE f == Info("raise")
  <2>1. f \in Infos /\ f.fn = "raise" /\ ~f.reentry /\ ~f.stat /\ ~f.ypcall
    BY InfoTypes DEF CFunctions
  <2>2. L' = [L EXCEPT ![R].ci = Append(@, f)] /\ ctl' = "raise"
    BY <1>4 DEF Yield, Push
  <2> HIDE DEF f
  <2>3. Pushes(L, L', R, f)
    BY <1>3, <2>1, <2>2 DEF Pushes
  <2>4. /\ L' \in [Threads -> State] /\ \A u \in Threads : u # R => L'[u] = L[u]
        /\ L'[R].ci = Append(L[R].ci, f)
        /\ L'[R].status = L[R].status /\ L'[R].started = L[R].started
        /\ L'[R].errfunc = L[R].errfunc /\ L'[R].open = L[R].open
    BY <2>3, PushStays
  <2>5. Stays(L, L', R, ctl')
    BY <1>2, <2>2, <2>4 DEF Stays, Modes
  <2>6. World(L', cs, ctl')
    BY <1>2, <1>3, <2>1, <2>2, <2>4, <2>5, StepInto DEF Functions, Protected
  <2>7. QED
    BY <1>1, <2>2, <2>6
<1>5. CASE ~(L[R].nny > 0)
  <2> DEFINE f == Info("yield")
             d == Append(L[R].ci, f)
             y == [L[R] EXCEPT !.ci = d, !.status = "yield"]
  <2>1. f \in Infos /\ f.fn = "yield" /\ ~f.reentry /\ ~f.stat /\ ~f.ypcall
    BY InfoTypes DEF CFunctions
  <2>2. L' = [L EXCEPT ![R] = y] /\ ctl' = "yield"
    BY <1>3, <1>5, Zenon DEF Yield, Push
  <2>3. d \in Seq(Infos)
    BY <1>3, <2>1 DEF State
  <2>4. /\ y \in State /\ y.ci = d /\ y.status = "yield" /\ y.started = L[R].started
        /\ y.errfunc = L[R].errfunc /\ y.open = L[R].open /\ y.nny = L[R].nny
    BY <1>3, <2>3 DEF State
  <2> HIDE DEF f, y
  <2>5. L' \in [Threads -> State] /\ L'[R] = y /\ \A u \in Threads : u # R => L'[u] = L[u]
    BY <1>3, <2>2, <2>4, Updated
  <2>6. Stays(L, L', R, "yield")
    BY <2>4, <2>5 DEF Stays, Modes
  <2>7. L[R].nny = 0
    <3>1. Pinned(cs, R) \in Nat /\ L[R].nny = Pinned(cs, R)
      BY <1>2, <1>3, Here, PinsFinite DEF CoInv, CountInv, Exact
    <3>2. QED
      BY <1>5, <3>1
  <2>8. R # Main
    BY <1>2, <2>7, Unpinned
  <2>9. World(L', cs, "yield")
    BY <1>2, <1>3, <2>1, <2>4, <2>5, <2>6, <2>8, StepInto DEF Functions, Protected
  <2>10. QED
    BY <1>1, <2>2, <2>4, <2>5, <2>7, <2>9
<1>6. QED
  BY <1>4, <1>5

\* A library function returns.
LEMMA CReturnsStep ==
    ASSUME CoInv, CReturns
    PROVE  World(L', cs', ctl')
<1> DEFINE c == L[R].ci
           top == c[Len(c)]
           e == IF top.ypcall THEN top.h ELSE L[R].errfunc
           y == [L[R] EXCEPT !.ci = Front(c), !.errfunc = e]
<1>1. /\ ctl = "run" /\ cs # <<>> /\ top.fn \notin Functions /\ cs' = cs /\ ctl' = "run"
      /\ ~(cs[Len(cs)].k \in Tries /\ cs[Len(cs)].base = Len(c))
      /\ World(L, cs, "run")
  BY DEF CReturns, InC, CoInv, Done, Size, Top
<1>2. R \in Threads /\ Runs(cs, R) /\ L \in [Threads -> State] /\ L[R] \in State /\ cs \in Seq(Frames)
  BY <1>1, Here
<1>3. Len(c) > 0 /\ \A i \in Mine(cs, R) : cs[i].base < Len(c)
  BY <1>1, <1>2, BelowTop
<1>4. /\ c \in Seq(Infos) /\ Len(c) \in Nat /\ Stack(c, cs, R, FALSE) /\ OpenOk(c, L[R].open)
      /\ ErrOk(c, cs, R, L[R].errfunc, Len(c), Mine(cs, R))
      /\ L[R].started /\ L[R].status = "ok" /\ Based(cs, R)
  BY <1>1, <1>2, RunnerFacts
<1>5. L' = [L EXCEPT ![R] = y]
  BY Zenon DEF CReturns, Top, Size
<1>6. Front(c) \in Seq(Infos) /\ top \in Infos /\ Len(c) \in 1..Len(c)
  <2>1. Len(c) \in 1..Len(c)
    BY <1>3, <1>4
  <2>2. QED
    BY <1>3, <1>4, <2>1, FrontInfos
<1>7. e \in Nat
  <2>1. top.h \in Nat /\ L[R].errfunc \in Nat
    BY <1>2, <1>6 DEF Infos, State
  <2>2. QED
    BY <2>1
<1>8. /\ y \in State /\ y.ci = Front(c) /\ y.errfunc = e /\ y.open = L[R].open
      /\ y.status = L[R].status /\ y.started = L[R].started
  <2> DEFINE x == L[R]
             d == Front(c)
  <2>1. x \in State /\ d \in Seq(Infos) /\ y = [x EXCEPT !.ci = d, !.errfunc = e]
    BY <1>2, <1>6
  <2> HIDE DEF x, d, e, y
  <2>2. /\ y \in State /\ y.ci = d /\ y.errfunc = e /\ y.open = x.open
        /\ y.status = x.status /\ y.started = x.started
    BY <1>7, <2>1 DEF State
  <2>3. QED
    BY <2>2 DEF x, d
<1> HIDE DEF e, y
<1>9. Stays(L, L', R, "run") /\ L'[R] = y
  BY <1>2, <1>4, <1>5, <1>8, FieldStays DEF Modes
<1>10. ASSUME NEW i \in Mine(cs, R), cs[i].k = "call", cs[i].base = Len(c) - 1
       PROVE  FALSE
  <2>1. c[cs[i].base + 1].fn \in Functions
    BY <1>3, <1>4, <1>10 DEF Stack, FramesOk, CallsOk
  <2>2. cs[i].base + 1 = Len(c)
    BY <1>4, <1>10
  <2>3. QED
    BY <1>1, <2>1, <2>2
<1>11. ErrOk(c, cs, R, e, Len(c) - 1, Mine(cs, R))
  <2>1. CASE top.ypcall
    BY <1>4, <1>6, <2>1 DEF Stack, MarkedOk, e
  <2>2. CASE ~top.ypcall
    <3>1. ~Guard(c, cs, R, Len(c))
      BY <1>3, <1>4, <2>2 DEF Guard, HasTry, Based
    <3>2. QED
      BY <1>4, <2>2, <3>1, ErrDrop DEF e
  <2>3. QED
    BY <2>1, <2>2
<1>12. Len(c) \notin L[R].open
  BY <1>1, <1>4 DEF OpenOk
<1> DEFINE k == c
<1>13. k = L[R].ci
  OBVIOUS
<1> HIDE DEF k
<1>14. World(L', cs, "run")
  <2>1. /\ Len(k) > 0 /\ L'[R].ci = Front(k) /\ L'[R].open \subseteq L[R].open
        /\ \A i \in Mine(cs, R) : cs[i].base < Len(k) /\ ~(cs[i].k = "call" /\ cs[i].base = Len(k) - 1)
        /\ Len(k) \notin L'[R].open
        /\ ErrOk(k, cs, R, L'[R].errfunc, Len(k) - 1, Mine(cs, R))
    BY <1>3, <1>8, <1>9, <1>10, <1>11, <1>12, <1>13
  <2>2. QED
    BY <1>1, <1>2, <1>9, <1>13, <2>1, PopWorld
<1>15. QED
  BY <1>1, <1>14

\* A Lua function returns.
\* A call is not all of the group of frames of its thread.
LEMMA LastOfGroup ==
    ASSUME NEW l, NEW s, NEW m, World(l, s, m), NEW t, Runs(s, t), s[Len(s)].k = "call"
    PROVE  Last(Front(s)).t = t
<1>1. s \in Seq(Frames) /\ Len(s) \in 1..Len(s) /\ s[Len(s)].t = t
  BY DEF World, Runs
<1>2. PICK n \in 1..Len(s) : /\ s[n].k \in Starts /\ s[n].t = t
                             /\ \A j \in n + 1..Len(s) : s[j].t = t
  BY <1>1 DEF World, ActGrouped
<1>3. n # Len(s)
  BY <1>2 DEF Starts
<1> DEFINE k == Len(s) - 1
<1>4. k \in 1..Len(s) /\ k \in 0..Len(s) /\ k \in 1..k /\ (k = n \/ k \in n + 1..Len(s))
  BY <1>1, <1>2, <1>3
<1>5. s[k].t = t
  BY <1>2, <1>4
<1>6. Front(s) = SubSeq(s, 1, k)
  BY DEF Front
<1> HIDE DEF k
<1>7. Len(Front(s)) = k /\ Front(s)[k] = s[k]
  BY <1>1, <1>4, <1>6, CutFacts
<1>8. QED
  BY <1>5, <1>7 DEF Last

LEMMA LuaReturnsStep ==
    ASSUME CoInv, LuaReturns
    PROVE  World(L', cs', ctl')
<1> DEFINE c == L[R].ci
           top == c[Len(c)]
           call == cs[Len(cs)]
           o == L[R].open \ {Len(c)}
<1>1. InLua /\ Top = top /\ Size(R) = Len(c)
  BY DEF LuaReturns, Top, Size
<1>2. /\ World(L, cs, "run") /\ ctl = "run" /\ cs # <<>>
      /\ Len(c) > 0 /\ top.fn \in Functions
      /\ \A i \in Mine(cs, R) : cs[i].base < Len(c)
      /\ L[R].status = "ok"
  BY <1>1, LuaRuns
<1>3. R \in Threads /\ Runs(cs, R) /\ L \in [Threads -> State] /\ L[R] \in State /\ cs \in Seq(Frames)
  BY <1>2, Here
<1>4. /\ c \in Seq(Infos) /\ Len(c) \in Nat /\ Stack(c, cs, R, FALSE) /\ OpenOk(c, L[R].open)
      /\ ErrOk(c, cs, R, L[R].errfunc, Len(c), Mine(cs, R)) /\ Based(cs, R)
  BY <1>2, <1>3, RunnerFacts
<1>5. Last(cs) = call
  BY DEF Last
<1>6. Front(c) \in Seq(Infos)
  BY <1>2, <1>4, FrontInfos
<1>7. o \in SUBSET Nat /\ L[R].nCcalls \in Int
  <2>1. o \in SUBSET Nat /\ L[R].nCcalls \in Counts
    BY <1>3 DEF State
  <2>2. \A n \in Counts : n \in Int
    BY CCallsAssumption DEF Counts
  <2>3. QED
    BY <2>1, <2>2
<1>8. CASE top.reentry \/ call.k # "call"
  <2> DEFINE y == [L[R] EXCEPT !.ci = Front(c), !.open = o]
  <2>1. cs' = cs /\ ctl' = "run"
    BY <1>1, <1>2, <1>5, <1>8 DEF LuaReturns
  <2>2. L' = [L EXCEPT ![R].ci = Front(@), ![R].open = @ \ {Size(R)}]
    BY <1>1, <1>5, <1>8 DEF LuaReturns
  <2>3. L' = [L EXCEPT ![R] = y]
    BY <1>1, <2>2, Zenon
  <2>4. /\ y \in State /\ y.ci = Front(c) /\ y.open = o /\ y.errfunc = L[R].errfunc
        /\ y.status = L[R].status /\ y.started = L[R].started
    BY <1>3, <1>6, <1>7 DEF State
  <2> HIDE DEF y
  <2>5. Stays(L, L', R, "run") /\ L'[R] = y
    BY <1>2, <1>3, <2>3, <2>4, FieldStays DEF Modes
  <2>6. ASSUME NEW i \in Mine(cs, R), cs[i].k = "call", cs[i].base = Len(c) - 1
        PROVE  FALSE
    <3>1. cs[i].base < Len(c) /\ cs[i].base + 1 = Len(c)
      BY <1>2, <1>4, <2>6
    <3>2. ~top.reentry
      BY <1>4, <2>6, <3>1 DEF Stack, FramesOk, CallsOk
    <3>3. Len(cs) \in Mine(cs, R) /\ i \in 1..Len(cs) /\ Len(cs) \in Nat
      BY <1>3, <2>6, StackTypes
    <3>4. i < Len(cs)
      BY <1>8, <2>6, <3>2, <3>3
    <3>5. cs[i].base < call.base /\ call.base < Len(c) /\ call.base \in Nat
      BY <1>2, <1>4, <1>8, <3>2, <3>3, <3>4 DEF Stack, Ascending, Based
    <3>6. QED
      BY <1>4, <2>6, <3>5
  <2>7. ErrOk(c, cs, R, L[R].errfunc, Len(c) - 1, Mine(cs, R))
    <3>1. ~Guard(c, cs, R, Len(c))
      BY <1>2 DEF Guard, Functions, Protected
    <3>2. QED
      BY <1>4, <3>1, ErrDrop
  <2> DEFINE k == c
  <2>8. k = L[R].ci
    OBVIOUS
  <2>9. /\ Len(k) > 0 /\ L'[R].ci = Front(k) /\ L'[R].open \subseteq L[R].open
        /\ \A i \in Mine(cs, R) : cs[i].base < Len(k) /\ ~(cs[i].k = "call" /\ cs[i].base = Len(k) - 1)
        /\ Len(k) \notin L'[R].open
        /\ ErrOk(k, cs, R, L'[R].errfunc, Len(k) - 1, Mine(cs, R))
    BY <1>2, <2>4, <2>5, <2>6, <2>7
  <2> HIDE DEF k
  <2>10. World(L', cs, "run")
    BY <1>2, <1>3, <2>5, <2>8, <2>9, PopWorld
  <2>11. QED
    BY <2>1, <2>10
<1>9. CASE ~(top.reentry \/ call.k # "call")
  <2> DEFINE n == Count(L[R].nCcalls - 1)
             q == IF call.allow THEN L[R].nny ELSE L[R].nny - 1
             y == [L[R] EXCEPT !.ci = Front(c), !.open = o, !.nCcalls = n, !.nny = q]
  <2>1. cs' = Front(cs) /\ ctl' = (IF top.fn = "handler" THEN "error" ELSE "run")
    <3>1. /\ cs' = Front(cs)
          /\ ctl' = (IF top.fn # "handler" THEN "run"
                     ELSE IF Last(cs').t = R THEN "error" ELSE "foreign")
      BY <1>1, <1>2, <1>5, <1>9 DEF LuaReturns
    <3>2. Last(Front(cs)).t = R
      BY <1>2, <1>3, <1>9, LastOfGroup
    <3>3. QED
      BY <3>1, <3>2
  <2>2. L' = [[L EXCEPT ![R].ci = Front(@), ![R].open = @ \ {Size(R)}]
                EXCEPT ![R].nCcalls = Count(@ - 1), ![R].nny = IF call.allow THEN @ ELSE @ - 1]
    BY <1>1, <1>5, <1>9 DEF LuaReturns
  <2>3. L' = [L EXCEPT ![R] = y]
    <3> DEFINE x == [L[R] EXCEPT !.ci = Front(c), !.open = o]
               l == [L EXCEPT ![R] = x]
    <3>1. [L EXCEPT ![R].ci = Front(@), ![R].open = @ \ {Size(R)}] = l
      BY <1>1, Zenon
    <3>2. x \in State /\ x.nCcalls = L[R].nCcalls /\ x.nny = L[R].nny
      BY <1>3, <1>6, <1>7 DEF State
    <3>3. l[R] = x
      BY <1>3
    <3> HIDE DEF l
    <3>4. L' = [l EXCEPT ![R] = [x EXCEPT !.nCcalls = n, !.nny = q]]
      <4>1. L' = [l EXCEPT ![R].nCcalls = Count(@ - 1), ![R].nny = IF call.allow THEN @ ELSE @ - 1]
        BY <2>2, <3>1
      <4>2. @ = [l EXCEPT ![R] = [l[R] EXCEPT !.nCcalls = Count(l[R].nCcalls - 1),
                                              !.nny = IF call.allow THEN l[R].nny ELSE l[R].nny - 1]]
        BY Zenon
      <4> HIDE DEF x
      <4>3. QED
        BY <3>2, <3>3, <4>1, <4>2, Zenon
    <3> USE DEF l
    <3>5. [x EXCEPT !.nCcalls = n, !.nny = q] = y
      OBVIOUS
    <3> HIDE DEF x, y, n, q
    <3>6. QED
      BY <1>3, <3>4, <3>5
  <2>4. n \in Counts /\ q \in Int
    BY <1>3, <1>7, CountTypes DEF State
  <2>5. /\ y \in State /\ y.ci = Front(c) /\ y.open = o /\ y.errfunc = L[R].errfunc
        /\ y.status = L[R].status /\ y.started = L[R].started
    BY <1>3, <1>6, <1>7, <2>4 DEF State
  <2> HIDE DEF y
  <2>6. ctl' \in Modes /\ ctl' # "yield" /\ (ctl' # "run" <=> top.fn = "handler")
    BY <2>1 DEF Modes
  <2>7. Stays(L, L', R, ctl') /\ L'[R] = y
    <3>1. L' \in [Threads -> State] /\ L'[R] = y /\ \A u \in Threads : u # R => L'[u] = L[u]
      BY <1>3, <2>3, <2>5, Updated
    <3>2. QED
      BY <1>2, <2>5, <2>6, <3>1 DEF Stays
  <2> DEFINE k == c
  <2>8. k = L[R].ci
    OBVIOUS
  <2>9. /\ Len(k) > 0 /\ L'[R].ci = Front(k) /\ L'[R].open = L[R].open \ {Len(k)}
        /\ L'[R].errfunc = L[R].errfunc
        /\ \A i \in Mine(cs, R) : cs[i].base < Len(k)
        /\ k[Len(k)].fn \in Functions /\ ~k[Len(k)].reentry /\ cs[Len(cs)].k = "call"
        /\ (ctl' # "run" <=> k[Len(k)].fn = "handler")
    BY <1>2, <1>9, <2>5, <2>6, <2>7
  <2> HIDE DEF k
  <2>10. World(L', Front(cs), ctl')
    BY <1>2, <1>3, <2>6, <2>7, <2>8, <2>9, ReturnWorld
  <2>11. QED
    BY <2>1, <2>10
<1>10. QED
  BY <1>8, <1>9

-----------------------------------------------------------------------------
(* Calls of Lua functions *)

\* luaD_call after the calls and frames that the caller has made.
LEMMA CallStep ==
    ASSUME NEW l, NEW s, NEW m, World(l, s, m), m \in {"run", "raise"},
           NEW t \in Threads, Runs(s, t),
           NEW allow \in BOOLEAN, NEW fn \in Functions, CallsOn(l[t].ci, s, t, allow, fn, m),
           LuaDCall(t, l, s, allow, fn)
    PROVE  World(L', cs', ctl') /\ cs' # <<>> /\ ctl' # "yield"
<1>1. l \in [Threads -> State] /\ s \in Seq(Frames)
  BY DEF World
<1>2. Called(l, s, t, allow, fn, L', cs', ctl')
  BY <1>1, CallTypes
<1>3. World(L', cs', ctl') /\ Runs(cs', t)
  BY <1>2, CallWorld
<1>4. cs' # <<>>
  BY <1>3 DEF Runs
<1>5. ctl' # "yield"
  BY <1>2 DEF Called
<1>6. QED
  BY <1>3, <1>4, <1>5

\* A metamethod.
LEMMA CallTMStep ==
    ASSUME CoInv, CallTM
    PROVE  World(L', cs', ctl') /\ ctl' # "yield"
<1>1. InLua /\ LuaDCall(R, L, cs, TRUE, "lua")
  BY DEF CallTM
<1>2. /\ World(L, cs, "run") /\ cs # <<>>
      /\ Len(L[R].ci) > 0 /\ L[R].ci[Len(L[R].ci)].fn \in Functions
  BY <1>1, LuaRuns
<1>3. R \in Threads /\ Runs(cs, R)
  BY <1>2, Here
<1>4. Len(L[R].ci) \in Nat /\ Stack(L[R].ci, cs, R, FALSE)
  BY <1>2, <1>3, RunnerFacts
<1>5. ~L[R].ci[Len(L[R].ci)].stat
  <2>1. L[R].ci[Len(L[R].ci)].stat => L[R].ci[Len(L[R].ci)].fn \in Protected
    BY <1>2, <1>4 DEF Stack, InfosOk, Flagged
  <2>2. QED
    BY <1>2, <2>1 DEF Functions, Protected
<1>6. CallsOn(L[R].ci, cs, R, TRUE, "lua", "run")
  BY <1>2, <1>5 DEF CallsOn, Functions, Protected
<1>7. QED
  BY <1>1, <1>2, <1>3, <1>6, CallStep DEF Functions

\* A library function begins; it is the last call then.
LEMMA LibraryCall ==
    ASSUME CoInv, InLua, NEW fn \in CFunctions \ {"raise"}, NEW l, l = Push(R, Info(fn))
    PROVE  /\ World(l, cs, "run") /\ l \in [Threads -> State] /\ Pushed(L[R].ci, l[R].ci)
           /\ l[R].ci = Append(L[R].ci, Info(fn)) /\ l[R].ci[Len(l[R].ci)] = Info(fn)
           /\ l[R].errfunc = L[R].errfunc /\ l[R].open = L[R].open
           /\ l[R].status = L[R].status /\ l[R].started = L[R].started
           /\ l[R].nny = L[R].nny /\ l[R].nCcalls = L[R].nCcalls
           /\ \A t \in Threads : t # R => l[t] = L[t]
           /\ \A i \in Mine(cs, R) : cs[i].base < Len(l[R].ci)
           /\ Len(l[R].ci) = Len(L[R].ci) + 1 /\ Len(L[R].ci) \in Nat
<1> DEFINE f == Info(fn)
<1>1. /\ World(L, cs, "run") /\ cs # <<>>
      /\ Len(L[R].ci) > 0 /\ L[R].ci[Len(L[R].ci)].fn \in Functions
      /\ \A i \in Mine(cs, R) : cs[i].base < Len(L[R].ci)
      /\ L[R].status = "ok"
  BY LuaRuns
<1>2. R \in Threads /\ Runs(cs, R) /\ L \in [Threads -> State] /\ L[R].ci \in Seq(Infos)
  BY <1>1, Here
<1>3. f \in Infos /\ f.fn = fn /\ ~f.reentry /\ ~f.stat /\ ~f.ypcall
  BY InfoTypes
<1> HIDE DEF f
<1>4. Pushes(L, l, R, f)
  BY <1>2, <1>3 DEF Pushes, Push, f
<1>5. /\ l \in [Threads -> State] /\ \A u \in Threads : u # R => l[u] = L[u]
      /\ l[R].ci = Append(L[R].ci, f)
      /\ l[R].status = L[R].status /\ l[R].started = L[R].started
      /\ l[R].errfunc = L[R].errfunc /\ l[R].open = L[R].open
      /\ l[R].nny = L[R].nny /\ l[R].nCcalls = L[R].nCcalls
  BY <1>4, PushStays
<1>6. Stays(L, l, R, "run")
  BY <1>1, <1>5 DEF Stays, Modes
<1>7. fn \notin Functions /\ fn # "raise"
  BY DEF Functions, CFunctions
<1>8. World(l, cs, "run")
  BY <1>1, <1>2, <1>3, <1>5, <1>6, <1>7, StepInto
<1>9. Pushed(L[R].ci, l[R].ci) /\ Len(l[R].ci) = Len(L[R].ci) + 1
      /\ l[R].ci[Len(L[R].ci) + 1] = f /\ Len(L[R].ci) \in Nat
  BY <1>2, <1>3, <1>5, AppendInfo
<1>10. \A i \in Mine(cs, R) : cs[i].base < Len(l[R].ci)
  <2>1. Based(cs, R)
    BY <1>1, <1>2, RunnerFacts
  <2>2. QED
    BY <1>1, <1>9, <2>1 DEF Based
<1>11. QED
  BY <1>5, <1>8, <1>9, <1>10 DEF f

\* lua_callk.
LEMMA CallKStep ==
    ASSUME CoInv, NEW fn \in {"dofile", "sort"}, CallK(fn)
    PROVE  World(L', cs', ctl') /\ ctl' # "yield"
<1> DEFINE l == Push(R, Info(fn))
           allow == fn = "dofile" /\ L[R].nny = 0
<1>1. InLua /\ LuaDCall(R, l, cs, allow, "lua")
  BY DEF CallK
<1>2. fn \in CFunctions \ {"raise"}
  BY DEF CFunctions
<1>3. World(l, cs, "run") /\ l[R].ci[Len(l[R].ci)] = Info(fn)
  BY <1>1, <1>2, LibraryCall
<1>4. R \in Threads /\ Runs(cs, R)
  BY <1>1, LuaRuns, Here
<1>5. Info(fn).fn = fn /\ ~Info(fn).stat
  BY DEF Info
<1>6. CallsOn(l[R].ci, cs, R, allow, "lua", "run")
  BY <1>3, <1>5 DEF CallsOn, Protected
<1>7. allow \in BOOLEAN /\ "lua" \in Functions
  BY DEF Functions
<1> HIDE DEF l, allow
<1>8. QED
  BY <1>1, <1>3, <1>4, <1>6, <1>7, CallStep

\* luaG_errormsg.
LEMMA MessageStep ==
    ASSUME CoInv, ErrorMsg
    PROVE  World(L', cs', ctl') /\ ctl' # "yield"
<1>1. ctl = "raise" /\ cs # <<>> /\ World(L, cs, "raise")
  BY DEF ErrorMsg, CoInv, World
<1>2. R \in Threads /\ Runs(cs, R) /\ L \in [Threads -> State]
  BY <1>1, Here
<1>3. /\ Len(L[R].ci) \in Nat /\ Stack(L[R].ci, cs, R, "raise" # "run")
      /\ ErrOk(L[R].ci, cs, R, L[R].errfunc, Len(L[R].ci), Mine(cs, R))
      /\ OpenOk(L[R].ci, L[R].open) /\ L[R].status = "ok" /\ L[R].started
  BY <1>1, <1>2, RunnerFacts
<1>4. CASE LuaDCall(R, L, cs, FALSE, "handler")
  <2> DEFINE c == L[R].ci
  <2>1. Len(c) > 0 => Len(c) \in 1..Len(c)
    BY <1>3
  <2>2. Stack(c, cs, R, TRUE)
    BY <1>3
  <2>3. Len(c) > 0 => /\ ~c[Len(c)].stat
                      /\ c[Len(c)].fn = "host" => R = Main
                      /\ c[Len(c)].fn \in Protected => c[Len(c)].ypcall \/ HasTry(cs, R, Len(c))
    BY <2>1, <2>2 DEF Stack, InfosOk, StatOnTop, HostOnTop, Owned, Guarded
  <2>4. CallsOn(c, cs, R, FALSE, "handler", "raise")
    BY <2>3 DEF CallsOn
  <2>5. QED
    BY <1>1, <1>2, <1>4, <2>4, CallStep DEF Functions
<1>5. CASE ctl' = "error" /\ UNCHANGED <<L, cs>>
  <2>1. Stays(L, L, R, "error")
    BY <1>2, <1>3 DEF Stays, Modes
  <2>2. Stack(L[R].ci, cs, R, "error" # "run")
    BY <1>3
  <2>3. World(L, cs, "error")
    BY <1>1, <1>2, <1>3, <2>1, <2>2, StayWorld
  <2>4. QED
    BY <1>5, <2>3
<1>6. QED
  BY <1>4, <1>5 DEF ErrorMsg

\* What is known of the thread that runs when no error is on its way.
LEMMA RunFacts ==
    ASSUME NEW l, NEW s, World(l, s, "run"), NEW t \in Threads, Runs(s, t)
    PROVE  /\ l[t] \in State /\ l[t].ci \in Seq(Infos) /\ Len(l[t].ci) \in Nat
           /\ l[t].started /\ l[t].status = "ok" /\ Mine(s, t) # {} /\ Based(s, t)
           /\ Stack(l[t].ci, s, t, FALSE)
           /\ ErrOk(l[t].ci, s, t, l[t].errfunc, Len(l[t].ci), Mine(s, t))
           /\ OpenOk(l[t].ci, l[t].open)
BY RunnerFacts

\* The running thread gets a frame.
LEMMA ExtendWorld ==
    ASSUME NEW l, NEW s, NEW m, World(l, s, m), NEW t \in Threads, Runs(s, t),
           NEW s2, NEW f, Extended(s, s2, f), f.t = t,
           NEW l2, NEW m2, Stays(l, l2, t, m2), m2 # "yield",
           Stack(l2[t].ci, s2, t, m2 # "run"),
           ErrOk(l2[t].ci, s2, t, l2[t].errfunc, Len(l2[t].ci), Mine(s2, t)),
           OpenOk(l2[t].ci, l2[t].open)
    PROVE  World(l2, s2, m2) /\ Runs(s2, t)
<1>1. s \in Seq(Frames) /\ ActGrouped(s) /\ s[1].t = Main /\ l[t].started /\ 1 \in 1..Len(s)
  BY RunnerFacts DEF World, Runs
<1>2. /\ s2 \in Seq(Frames) /\ Runs(s2, t) /\ \A i \in 1..Len(s) : s2[i] = s[i]
      /\ \A u : u # t => Mine(s2, u) = Mine(s, u) /\ \A i \in Mine(s, u) : s2[i] = s[i]
  <2>1. /\ s2 \in Seq(Frames) /\ Runs(s2, f.t) /\ \A i \in 1..Len(s) : s2[i] = s[i]
        /\ \A u : u # f.t => Mine(s2, u) = Mine(s, u) /\ \A i \in Mine(s, u) : s2[i] = s[i]
    BY AppendGrows
  <2>2. QED
    BY <2>1
<1>3. Mine(s2, t) # {} /\ s2[1] = s[1]
  BY <1>1, <1>2, StackTypes
<1>4. ActGrouped(s2)
  <2>1. s2 = Append(s, f) /\ f \in Frames /\ Runs(s, f.t)
    BY DEF Extended
  <2>2. QED
    BY <1>1, <2>1, GroupedAppend
<1>5. Good(l2[t], s2, t, TRUE, m2 # "run")
  BY <1>1, <1>3, RunnerGood DEF Stays
<1>6. Steps(l, s, l2, s2, m2, t)
  BY <1>1, <1>2, <1>3, <1>4, <1>5 DEF Steps, Stays
<1>7. QED
  BY <1>6, StepOn

\* luaD_pcall.
LEMMA GuardWorld ==
    ASSUME NEW l, NEW s, World(l, s, "run"), NEW t \in Threads, Runs(s, t),
           NEW c, c = l[t].ci, Len(c) > 0, \A i \in Mine(s, t) : s[i].base < Len(c),
           c[Len(c)].fn \in Protected, ~c[Len(c)].ypcall, ~c[Len(c)].stat,
           NEW s2, NEW f, Extended(s, s2, f), f.t = t, f.k = "pcall", f.base = Len(c),
           f.errfunc = l[t].errfunc,
           NEW l2, Stays(l, l2, t, "run"), l2[t].ci = c, l2[t].open = l[t].open,
           l2[t].errfunc = IF c[Len(c)].fn = "xpcall" THEN Len(c) ELSE 0
    PROVE  World(l2, s2, "run") /\ Runs(s2, t) /\ HasTry(s2, t, Len(c))
<1>1. /\ Len(c) \in Nat /\ Based(s, t) /\ Stack(c, s, t, FALSE) /\ OpenOk(c, l[t].open)
      /\ ErrOk(c, s, t, l[t].errfunc, Len(c), Mine(s, t))
  BY RunFacts
<1>2. Grown(s, s2, t, Len(s2)) /\ s2[Len(s2)] = f
  <2>1. Grown(s, s2, f.t, Len(s2)) /\ s2[Len(s2)] = f
    BY AppendGrows
  <2>2. QED
    BY <2>1
<1>3. /\ Stack(c, s2, t, FALSE) /\ HasTry(s2, t, Len(c))
      /\ c[Len(c)].fn = "xpcall" => ErrOk(c, s2, t, Len(c), Len(c), Mine(s2, t))
  BY <1>1, <1>2, GrowPCall
<1>4. ErrOk(c, s2, t, l2[t].errfunc, Len(c), Mine(s2, t))
  BY <1>3 DEF ErrOk
<1>5. /\ Stack(l2[t].ci, s2, t, "run" # "run")
      /\ ErrOk(l2[t].ci, s2, t, l2[t].errfunc, Len(l2[t].ci), Mine(s2, t))
      /\ OpenOk(l2[t].ci, l2[t].open)
  BY <1>1, <1>3, <1>4
<1>6. QED
  BY <1>3, <1>5, ExtendWorld

\* lua_pcallk.
LEMMA PCallKStep ==
    ASSUME CoInv, NEW fn \in {"pcall", "xpcall"}, PCallK(fn)
    PROVE  World(L', cs', ctl') /\ ctl' # "yield"
<1> DEFINE frame == Size(R) + 1
           e == IF fn = "xpcall" THEN frame ELSE 0
<1>1. InLua /\ fn \in CFunctions \ {"raise"} /\ fn \in Protected
  BY DEF PCallK, CFunctions, Protected
<1>2. /\ World(L, cs, "run") /\ cs # <<>> /\ L[R].status = "ok" /\ L[R].started
      /\ Len(L[R].ci) > 0 /\ L[R].ci[Len(L[R].ci)].fn \in Functions
      /\ \A i \in Mine(cs, R) : cs[i].base < Len(L[R].ci)
  BY <1>1, LuaRuns
<1>3. R \in Threads /\ Runs(cs, R) /\ L \in [Threads -> State] /\ L[R] \in State /\ cs \in Seq(Frames)
  BY <1>2, Here
<1>4. /\ L[R].ci \in Seq(Infos) /\ Len(L[R].ci) \in Nat /\ Based(cs, R) /\ Stack(L[R].ci, cs, R, FALSE)
      /\ ErrOk(L[R].ci, cs, R, L[R].errfunc, Len(L[R].ci), Mine(cs, R))
      /\ OpenOk(L[R].ci, L[R].open)
  BY <1>2, <1>3, RunnerFacts
<1>5. frame = Len(L[R].ci) + 1 /\ frame \in Nat /\ e \in Nat
  BY <1>4 DEF Size
<1>6. L[R].nny \in Int /\ L[R].nny >= 0
  <2>1. Pinned(cs, R) \in Nat /\ L[R].nny = Pinned(cs, R)
    BY <1>2, <1>3, PinsFinite DEF CoInv, CountInv, Exact
  <2>2. QED
    BY <2>1
<1>7. CASE L[R].nny > 0
  <2> DEFINE l == Push(R, Info(fn))
             m == [l EXCEPT ![R].errfunc = e]
             y == [l[R] EXCEPT !.errfunc = e]
             f == Try("pcall", R, frame, L[R].nCcalls)
             s == Append(cs, f)
  <2>1. LuaDCall(R, m, s, FALSE, "lua")
    BY <1>7 DEF PCallK
  <2>2. /\ World(l, cs, "run") /\ l \in [Threads -> State]
        /\ l[R].ci[Len(l[R].ci)] = Info(fn)
        /\ l[R].errfunc = L[R].errfunc /\ l[R].open = L[R].open
        /\ l[R].status = L[R].status /\ l[R].started = L[R].started
        /\ \A t \in Threads : t # R => l[t] = L[t]
        /\ \A i \in Mine(cs, R) : cs[i].base < Len(l[R].ci)
        /\ Len(l[R].ci) = frame
    BY <1>1, <1>5, LibraryCall
  <2>3. m = [l EXCEPT ![R] = y]
    BY Zenon
  <2> HIDE DEF l
  <2>4. /\ y \in State /\ y.ci = l[R].ci /\ y.errfunc = e /\ y.open = l[R].open
        /\ y.status = l[R].status /\ y.started = l[R].started
    BY <1>3, <1>5, <2>2 DEF State
  <2> HIDE DEF y, m
  <2>5. Stays(l, m, R, "run") /\ m[R] = y
    <3>1. m \in [Threads -> State] /\ m[R] = y /\ \A u \in Threads : u # R => m[u] = l[u]
      BY <1>3, <2>2, <2>3, <2>4, Updated
    <3>2. QED
      BY <1>2, <2>2, <2>4, <3>1 DEF Stays, Modes
  <2>6. /\ f \in Frames /\ f.t = R /\ f.k = "pcall" /\ f.base = frame /\ f.errfunc = L[R].errfunc
    BY <1>3, <1>5 DEF Try, Frames, Tries, State
  <2>7. Extended(cs, s, f)
    BY <1>3, <2>6 DEF Extended
  <2> HIDE DEF f, s
  <2>8. Info(fn).fn = fn /\ ~Info(fn).stat /\ ~Info(fn).ypcall
    BY DEF Info
  <2> DEFINE c == l[R].ci
  <2>9. /\ c = l[R].ci /\ Len(c) > 0 /\ (\A i \in Mine(cs, R) : cs[i].base < Len(c))
        /\ c[Len(c)].fn \in Protected /\ ~c[Len(c)].ypcall /\ ~c[Len(c)].stat
        /\ c[Len(c)].fn = fn
        /\ f.base = Len(c) /\ f.errfunc = l[R].errfunc
        /\ m[R].ci = c /\ m[R].open = l[R].open
        /\ m[R].errfunc = IF c[Len(c)].fn = "xpcall" THEN Len(c) ELSE 0
    BY <1>1, <1>5, <2>2, <2>4, <2>5, <2>6, <2>8
  <2> HIDE DEF c
  <2>10. World(m, s, "run") /\ Runs(s, R) /\ HasTry(s, R, Len(c))
    BY <1>3, <2>2, <2>5, <2>6, <2>7, <2>9, GuardWorld
  <2>11. CallsOn(m[R].ci, s, R, FALSE, "lua", "run")
    BY <2>9, <2>10 DEF CallsOn, Protected
  <2>12. QED
    BY <1>3, <2>1, <2>10, <2>11, CallStep DEF Functions
<1>8. CASE ~(L[R].nny > 0)
  <2> DEFINE f == [Info(fn) EXCEPT !.ypcall = TRUE, !.h = L[R].errfunc]
             l == [Push(R, f) EXCEPT ![R].errfunc = e]
             d == Append(L[R].ci, f)
             y == [L[R] EXCEPT !.ci = d, !.errfunc = e]
  <2>1. LuaDCall(R, l, cs, TRUE, "lua")
    BY <1>8 DEF PCallK
  <2>2. f \in Infos /\ f.fn = fn /\ f.ypcall /\ f.h = L[R].errfunc /\ ~f.stat /\ ~f.reentry
    BY <1>1, <1>3 DEF Info, Infos, State
  <2>3. l = [L EXCEPT ![R] = y]
    BY <1>3, Zenon DEF Push
  <2> HIDE DEF f, l
  <2>4. d \in Seq(Infos) /\ Pushed(L[R].ci, d) /\ Len(d) = frame /\ d[frame] = f
    BY <1>4, <1>5, <2>2, AppendInfo
  <2>5. /\ y \in State /\ y.ci = d /\ y.errfunc = e /\ y.open = L[R].open
        /\ y.status = L[R].status /\ y.started = L[R].started
    BY <1>3, <1>5, <2>4 DEF State
  <2> HIDE DEF y
  <2>6. Stays(L, l, R, "run") /\ l[R] = y
    <3>1. l \in [Threads -> State] /\ l[R] = y /\ \A u \in Threads : u # R => l[u] = L[u]
      BY <1>3, <2>3, <2>5, Updated
    <3>2. QED
      BY <1>2, <2>5, <3>1 DEF Stays, Modes
  <2>7. R # Main /\ \A p : ~HasPin(cs, R, p)
    BY <1>2, <1>6, <1>8, Unpinned
  <2>8. \A p : ~HasTry(cs, R, p)
    <3> SUFFICES ASSUME NEW i \in Mine(cs, R), cs[i].k = "pcall" PROVE FALSE
      BY DEF HasTry
    <3>1. cs[i].base = Len(L[R].ci) \/ HasPin(cs, R, cs[i].base)
      BY <1>4 DEF Stack, FramesOk, PCallsOk
    <3>2. cs[i].base < Len(L[R].ci) /\ cs[i].base \in Nat
      BY <1>2, <1>4 DEF Based
    <3>3. QED
      BY <1>4, <2>7, <3>1, <3>2
  <2>9. L[R].ci[Len(L[R].ci)].fn \notin Protected \cup {"raise", "host", "sort"}
        /\ fn \notin Functions \cup {"raise", "host", "handler"}
    BY <1>1, <1>2 DEF Functions, Protected
  <2>10. PushesInfo(L[R].ci, cs, R, "run" # "run", f)
    BY <1>1, <1>2, <1>4, <2>2, <2>7, <2>8, <2>9 DEF PushesInfo
  <2>11. PushesOn(L[R].ci, cs, R, f)
    <3>1. ~L[R].ci[Len(L[R].ci)].stat
      <4>1. L[R].ci[Len(L[R].ci)].stat => L[R].ci[Len(L[R].ci)].fn \in Protected
        BY <1>2, <1>4 DEF Stack, InfosOk, Flagged
      <4>2. QED
        BY <2>9, <4>1
    <3>2. \A i \in Mine(cs, R) : cs[i].base # Len(L[R].ci)
      BY <1>2, <1>4 DEF Based
    <3>3. QED
      BY <2>9, <3>1, <3>2 DEF PushesOn
  <2>12. ErrOk(d, cs, R, e, Len(d), Mine(cs, R))
    <3>1. CASE fn # "xpcall"
      BY <3>1 DEF ErrOk
    <3>2. CASE fn = "xpcall"
      <4>1. e = frame /\ e \in 1..frame /\ d[e].fn = "xpcall" /\ Guard(d, cs, R, e)
        BY <1>1, <1>5, <2>2, <2>4, <3>2 DEF Guard
      <4>2. \A i \in 1..frame : ~(i > e)
        BY <1>5, <3>2
      <4>3. \A j \in Mine(cs, R) : cs[j].base < e
        BY <1>2, <1>4, <1>5, <3>2 DEF Based
      <4>4. QED
        BY <2>4, <4>1, <4>2, <4>3 DEF ErrOk
    <3>3. QED
      BY <3>1, <3>2
  <2>13. World(l, cs, "run")
    <3>1. /\ l[R].ci = Append(L[R].ci, f) /\ l[R].open = L[R].open
          /\ ErrOk(l[R].ci, cs, R, l[R].errfunc, Len(l[R].ci), Mine(cs, R))
      BY <2>5, <2>6, <2>12
    <3>2. QED
      BY <1>2, <1>3, <2>2, <2>6, <2>10, <2>11, <3>1, PushWorld
  <2>14. CallsOn(l[R].ci, cs, R, TRUE, "lua", "run")
    BY <1>1, <2>2, <2>4, <2>5, <2>6, <2>9 DEF CallsOn
  <2>15. QED
    BY <1>3, <2>1, <2>13, <2>14, CallStep DEF Functions
<1>9. QED
  BY <1>7, <1>8

-----------------------------------------------------------------------------
(* Activations begin *)

\* The thread that has run waits in a library function for the one that begins.
Waits(l, s) ==
    \A q \in Threads : Runs(s, q) =>
       /\ Len(l[q].ci) # 0 /\ l[q].ci[Len(l[q].ci)].fn \in Callers
       /\ \A i \in Mine(s, q) : s[i].base < Len(l[q].ci)
\* A frame f starts an activation of t.
Begins(l, s, l2, s2, f, t) ==
    /\ Waits(l, s) /\ t \in Threads /\ (Len(s) = 0 => t = Main)
    /\ Extended(s, s2, f) /\ f.t = t /\ f.k \in Starts
    /\ l2 \in [Threads -> State] /\ \A u \in Threads : u # t => l2[u] = l[u]
    /\ l2[t].status = "ok" /\ Good(l2[t], s2, t, TRUE, FALSE)

\* The thread that begins runs.
LEMMA StartWorld ==
    ASSUME NEW l, NEW s, World(l, s, "run"), NEW l2, NEW s2, NEW f, NEW t, Begins(l, s, l2, s2, f, t)
    PROVE  World(l2, s2, "run") /\ Runs(s2, t)
<1> USE DEF Begins
<1>1. s \in Seq(Frames) /\ ActGrouped(s) /\ (Len(s) # 0 => s[1].t = Main)
  BY DEF World
<1>2. /\ s2 \in Seq(Frames) /\ Runs(s2, t) /\ Len(s2) = Len(s) + 1 /\ s2[Len(s2)] = f
      /\ \A i \in 1..Len(s) : s2[i] = s[i]
      /\ \A u : u # t => Mine(s2, u) = Mine(s, u) /\ \A i \in Mine(s, u) : s2[i] = s[i]
  <2>1. /\ s2 \in Seq(Frames) /\ Runs(s2, f.t) /\ Len(s2) = Len(s) + 1 /\ s2[Len(s2)] = f
        /\ \A i \in 1..Len(s) : s2[i] = s[i]
        /\ \A u : u # f.t => Mine(s2, u) = Mine(s, u) /\ \A i \in Mine(s, u) : s2[i] = s[i]
    BY AppendGrows
  <2>2. QED
    BY <2>1
<1>3. ActGrouped(s2)
  <2>1. s2 = Append(s, f) /\ f \in Frames
    BY DEF Extended
  <2>2. QED
    BY <1>1, <2>1, GroupedAppend
<1>4. s2[1].t = Main /\ Len(s2) # 0
  <2>1. Len(s) \in Nat /\ (Len(s) # 0 => 1 \in 1..Len(s))
    BY <1>1
  <2>2. QED
    BY <1>1, <1>2, <2>1
<1>5. ASSUME NEW u \in Threads, u # t
      PROVE  Good(l2[u], s2, u, FALSE, FALSE) /\ Runs(s2, u) = FALSE
  <2>1. Runs(s2, u) = FALSE
    BY <1>2, <1>5 DEF Runs
  <2>2. Good(l[u], s, u, FALSE, FALSE)
    <3>1. CASE Runs(s, u)
      <4>1. Good(l[u], s, u, TRUE, FALSE) /\ l[u].status # "yield"
        BY <3>1 DEF World
      <4>2. QED
        BY <3>1, <4>1 DEF Good, Status, Waits
    <3>2. CASE ~Runs(s, u)
      <4>1. Runs(s, u) = FALSE
        BY <3>2 DEF Runs
      <4>2. QED
        BY <4>1 DEF World
    <3>3. QED
      BY <3>1, <3>2
  <2>3. Mine(s2, u) = Mine(s, u) /\ \A i \in Mine(s, u) : s2[i] = s[i]
    BY <1>2, <1>5
  <2>4. Good(l[u], s2, u, FALSE, FALSE)
    BY <2>2, <2>3, SameFrames
  <2>5. QED
    BY <1>5, <2>1, <2>4
<1>6. ASSUME NEW u \in Threads
      PROVE  /\ Good(l2[u], s2, u, Runs(s2, u), Runs(s2, u) /\ "run" # "run")
             /\ Runs(s2, u) => (l2[u].status = "yield" <=> "run" = "yield")
  <2>1. CASE u = t
    BY <1>2, <2>1
  <2>2. CASE u # t
    BY <1>5, <2>2
  <2>3. QED
    BY <2>1, <2>2
<1>7. QED
  BY <1>2, <1>3, <1>4, <1>6 DEF World, Modes

\* A thread that waits, or the main thread of an idle state.
LEMMA WaitFacts ==
    ASSUME NEW l, NEW s, World(l, s, "run"), NEW t \in Threads, ~Runs(s, t), l[t].status # "error"
    PROVE  /\ l[t] \in State /\ l[t].ci \in Seq(Infos) /\ Len(l[t].ci) \in Nat /\ Based(s, t)
           /\ Stack(l[t].ci, s, t, FALSE)
           /\ ErrOk(l[t].ci, s, t, l[t].errfunc, Len(l[t].ci), Mine(s, t))
           /\ OpenOk(l[t].ci, l[t].open) /\ Status(l[t], s, t, FALSE)
<1>1. Good(l[t], s, t, FALSE, FALSE)
  <2>1. Runs(s, t) = FALSE
    BY DEF Runs
  <2>2. QED
    BY <2>1 DEF World
<1>2. l[t] \in State /\ l[t].ci \in Seq(Infos) /\ Len(l[t].ci) \in Nat
  <2>1. l[t] \in State
    BY DEF World
  <2>2. l[t].ci \in Seq(Infos)
    BY <2>1 DEF State
  <2>3. QED
    BY <2>1, <2>2
<1>3. Based(s, t)
  BY StackTypes DEF World
<1>4. QED
  BY <1>1, <1>2, <1>3 DEF Good

\* The host calls a Lua function.
LEMMA HostWorld ==
    ASSUME NEW l, NEW s, World(l, s, "run"),
           Waits(l, s),
           NEW c, c = l[Main].ci,
           NEW s2, NEW f, Extended(s, s2, f), f.t = Main, f.k = "host", f.base = Len(c),
           f.errfunc = l[Main].errfunc,
           NEW l2, l2 \in [Threads -> State], \A u \in Threads : u # Main => l2[u] = l[u],
           l2[Main].status = l[Main].status, l2[Main].started = l[Main].started,
           l2[Main].ci = c, l2[Main].open = l[Main].open, l2[Main].errfunc = 0
    PROVE  /\ World(l2, s2, "run") /\ Runs(s2, Main)
           /\ Len(c) > 0 => c[Len(c)].fn \in Callers /\ ~c[Len(c)].stat
<1>1. Main \in Threads /\ s \in Seq(Frames)
  BY MainAssumption DEF World
<1>2. l[Main].status = "ok" /\ l[Main].started
  <2>1. Good(l[Main], s, Main, Runs(s, Main), FALSE) /\ l[Main] \in State
    BY <1>1 DEF World
  <2>2. QED
    BY <2>1 DEF Good, Status, State
<1>3. /\ Len(c) \in Nat /\ Based(s, Main) /\ Stack(c, s, Main, FALSE)
      /\ ErrOk(c, s, Main, l[Main].errfunc, Len(c), Mine(s, Main))
      /\ OpenOk(c, l[Main].open)
  <2>1. CASE Runs(s, Main)
    <3>1. /\ Len(l[Main].ci) \in Nat /\ Based(s, Main) /\ Stack(l[Main].ci, s, Main, FALSE)
          /\ ErrOk(l[Main].ci, s, Main, l[Main].errfunc, Len(l[Main].ci), Mine(s, Main))
          /\ OpenOk(l[Main].ci, l[Main].open)
      BY <1>1, <2>1, RunFacts
    <3>2. QED
      BY <3>1
  <2>2. CASE ~Runs(s, Main)
    <3>1. /\ Len(l[Main].ci) \in Nat /\ Based(s, Main) /\ Stack(l[Main].ci, s, Main, FALSE)
          /\ ErrOk(l[Main].ci, s, Main, l[Main].errfunc, Len(l[Main].ci), Mine(s, Main))
          /\ OpenOk(l[Main].ci, l[Main].open)
      BY <1>1, <1>2, <2>2, WaitFacts
    <3>2. QED
      BY <3>1
  <2>3. QED
    BY <2>1, <2>2
<1>4. /\ \A i \in Mine(s, Main) : s[i].base < Len(c)
      /\ IF Len(s) = 0 THEN Len(c) = 0 ELSE Len(c) > 0 /\ c[Len(c)].fn \in Callers
  <2>1. CASE Runs(s, Main)
    BY <1>1, <1>3, <2>1 DEF Runs, Waits
  <2>2. CASE ~Runs(s, Main)
    <3>1. Status(l[Main], s, Main, FALSE)
      BY <1>1, <1>2, <2>2, WaitFacts
    <3>2. Len(s) # 0 => 1 \in Mine(s, Main)
      BY <1>1 DEF World, Mine
    <3>3. Len(s) = 0 => Mine(s, Main) = {}
      BY DEF Mine
    <3>4. QED
      BY <1>2, <1>3, <3>1, <3>2, <3>3 DEF Status
  <2>3. QED
    BY <2>1, <2>2
<1>5. /\ Grown(s, s2, Main, Len(s2)) /\ s2[Len(s2)] = f /\ Len(s2) = Len(s) + 1
      /\ s2 \in Seq(Frames) /\ Runs(s2, Main)
  <2>1. /\ Grown(s, s2, f.t, Len(s2)) /\ s2[Len(s2)] = f /\ Len(s2) = Len(s) + 1
        /\ s2 \in Seq(Frames) /\ Runs(s2, f.t)
    BY AppendGrows
  <2>2. QED
    BY <2>1
<1>6. IF Len(s2) = 1 THEN Len(c) = 0 ELSE Len(c) > 0 /\ c[Len(c)].fn \in Callers
  BY <1>1, <1>4, <1>5
<1>7. Stack(c, s2, Main, FALSE)
  BY <1>3, <1>4, <1>5, <1>6, GrowHost
<1>8. Mine(s2, Main) # {}
  BY <1>5, StackTypes
<1>9. Good(l2[Main], s2, Main, TRUE, FALSE)
  <2>1. ErrOk(c, s2, Main, 0, Len(c), Mine(s2, Main))
    BY DEF ErrOk
  <2>2. QED
    BY <1>2, <1>3, <1>7, <1>8, <2>1, RunnerGood
<1>10. World(l2, s2, "run") /\ Runs(s2, Main)
  <2>1. f.k \in Starts /\ l2[Main].status = "ok"
    BY <1>2 DEF Starts
  <2>2. Begins(l, s, l2, s2, f, Main)
    BY <1>1, <1>9, <2>1 DEF Begins
  <2>3. QED
    BY <2>2, StartWorld
<1>11. Len(c) > 0 => ~c[Len(c)].stat
  <2>1. Len(c) > 0 => Len(c) \in 1..Len(c) /\ c[Len(c)].fn \in Callers
    BY <1>1, <1>3, <1>4
  <2>2. Len(c) > 0 => (c[Len(c)].stat => c[Len(c)].fn \in Protected)
    BY <1>3, <2>1 DEF Stack, InfosOk, Flagged
  <2>3. QED
    BY <2>1, <2>2 DEF Callers, Protected
<1>12. QED
  BY <1>3, <1>4, <1>10, <1>11

\* lua_pcallk from the host, on the main thread.
LEMMA HostCallStep ==
    ASSUME CoInv, HostCall
    PROVE  World(L', cs', ctl') /\ ctl' # "yield"
<1> DEFINE l == IF cs = <<>> THEN L ELSE Push(R, Info("host"))
           m == [l EXCEPT ![Main].errfunc = 0]
           y == [l[Main] EXCEPT !.errfunc = 0]
           f == Try("host", Main, Len(l[Main].ci), L[Main].nCcalls)
           s == Append(cs, f)
<1>1. LuaDCall(Main, m, s, FALSE, "lua")
  BY DEF HostCall
<1>2. Main \in Threads
  BY MainAssumption
<1>3. /\ World(l, cs, "run") /\ Waits(l, cs)
      /\ l[Main].nny = L[Main].nny /\ l[Main].errfunc = L[Main].errfunc
      /\ l[Main].nCcalls = L[Main].nCcalls
  <2>1. CASE cs = <<>>
    <3>1. World(L, cs, "run") /\ Len(cs) = 0
      BY <2>1 DEF CoInv, World
    <3>2. QED
      BY <2>1, <3>1 DEF Waits, Runs
  <2>2. CASE cs # <<>>
    <3>1. InLua /\ "host" \in CFunctions \ {"raise"} /\ l = Push(R, Info("host"))
      BY <2>2 DEF HostCall, CFunctions
    <3> HIDE DEF l
    <3>2. /\ World(l, cs, "run") /\ l[R].ci[Len(l[R].ci)] = Info("host")
          /\ l[R].nny = L[R].nny /\ l[R].errfunc = L[R].errfunc /\ l[R].nCcalls = L[R].nCcalls
          /\ \A t \in Threads : t # R => l[t] = L[t]
          /\ \A i \in Mine(cs, R) : cs[i].base < Len(l[R].ci)
          /\ Len(l[R].ci) = Len(L[R].ci) + 1 /\ Len(L[R].ci) \in Nat
      BY <3>1, LibraryCall
    <3>3. \A q \in Threads : Runs(cs, q) => q = R
      BY DEF Runs, R
    <3>4. Info("host").fn \in Callers
      BY DEF Info, Callers
    <3>5. Waits(l, cs)
      BY <3>2, <3>3, <3>4 DEF Waits
    <3>6. QED
      BY <1>2, <3>2, <3>5
  <2>3. QED
    BY <2>1, <2>2
<1>4. cs \in Seq(Frames) /\ l \in [Threads -> State] /\ l[Main] \in State /\ Len(l[Main].ci) \in Nat
  <2>1. cs \in Seq(Frames) /\ l \in [Threads -> State]
    BY <1>3 DEF World
  <2>2. l[Main] \in State
    BY <1>2, <2>1
  <2>3. l[Main].ci \in Seq(Infos)
    BY <2>2 DEF State
  <2>4. QED
    BY <2>1, <2>2, <2>3
<1>5. m = [l EXCEPT ![Main] = y]
  BY Zenon
<1> HIDE DEF l, m
<1>6. /\ y \in State /\ y.ci = l[Main].ci /\ y.errfunc = 0 /\ y.open = l[Main].open
      /\ y.status = l[Main].status /\ y.started = l[Main].started
  BY <1>4 DEF State
<1> HIDE DEF y
<1>7. m \in [Threads -> State] /\ m[Main] = y /\ \A u \in Threads : u # Main => m[u] = l[u]
  BY <1>2, <1>4, <1>5, <1>6, Updated
<1>8. /\ f \in Frames /\ f.t = Main /\ f.k = "host" /\ f.base = Len(l[Main].ci)
      /\ f.errfunc = l[Main].errfunc
  <2>1. L[Main].nny \in Int /\ L[Main].errfunc \in Nat /\ L[Main].nCcalls \in Counts
    BY <1>3, <1>4 DEF State
  <2>2. QED
    BY <1>2, <1>3, <1>4, <2>1 DEF Try, Frames, Tries
<1>9. Extended(cs, s, f)
  BY <1>4, <1>8 DEF Extended
<1> HIDE DEF f, s
<1> DEFINE c == l[Main].ci
<1>10. /\ c = l[Main].ci /\ f.base = Len(c) /\ m[Main].ci = c /\ m[Main].open = l[Main].open
       /\ m[Main].errfunc = 0 /\ m[Main].status = l[Main].status /\ m[Main].started = l[Main].started
  BY <1>6, <1>7, <1>8
<1> HIDE DEF c
<1>11. /\ World(m, s, "run") /\ Runs(s, Main)
       /\ Len(c) > 0 => c[Len(c)].fn \in Callers /\ ~c[Len(c)].stat
  BY <1>3, <1>7, <1>8, <1>9, <1>10, HostWorld
<1>12. CallsOn(m[Main].ci, s, Main, FALSE, "lua", "run")
  BY <1>10, <1>11 DEF CallsOn, Callers, Protected
<1>13. QED
  BY <1>1, <1>2, <1>11, <1>12, CallStep DEF Functions

\* A coroutine with no frames starts, or goes on after a yield.
Reenters(c, d, s, w, t, k) ==
    /\ c \in Seq(Infos) /\ Len(s) \in Nat /\ Mine(s, t) = {} /\ t # Main
    /\ Grown(s, w, t, k) /\ w[k].k = "resume" /\ w[k].base = 0
    /\ \/ Len(c) = 0 /\ d = <<Info("lua")>>
       \/ Len(c) > 0 /\ c[Len(c)].fn = "yield" /\ d = Front(c)

\* The calls and the frames of the coroutine fit together.
LEMMA ResumeStack ==
    ASSUME NEW s, NEW w, NEW t, NEW k, NEW c, NEW d, NEW e, NEW open, Reenters(c, d, s, w, t, k),
           Stack(c, s, t, FALSE), ErrOk(c, s, t, e, Len(c), {}), OpenOk(c, open)
    PROVE  Stack(d, w, t, FALSE) /\ ErrOk(d, w, t, e, Len(d), Mine(w, t)) /\ OpenOk(d, open)
<1> USE DEF Reenters
<1>1. Len(c) \in Nat /\ Based(s, t)
  BY DEF Based
<1>2. \A q : ~HasTry(s, t, q) /\ ~HasPin(s, t, q) /\ ~HasCall(s, t, q)
  BY DEF HasTry, HasPin, HasCall
<1>3. Stack(d, s, t, FALSE) /\ ErrOk(d, s, t, e, Len(d), {}) /\ OpenOk(d, open)
  <2>1. CASE Len(c) = 0 /\ d = <<Info("lua")>>
    <3> DEFINE f == Info("lua")
    <3>1. f \in Infos /\ f.fn = "lua" /\ ~f.reentry /\ ~f.ypcall /\ ~f.stat
      BY InfoTypes DEF Functions
    <3> HIDE DEF f
    <3>2. Pushed(c, d) /\ d[Len(c) + 1] = f /\ Len(d) = 1
      BY <2>1 DEF Pushed, f
    <3>3. PushesInfo(c, s, t, FALSE, f) /\ PushesOn(c, s, t, f)
      BY <2>1, <3>1 DEF PushesInfo, PushesOn, Functions, Protected
    <3>4. Stack(d, s, t, FALSE)
      BY <1>1, <3>2, <3>3, PushStack
    <3>5. ErrOk(d, s, t, e, Len(d), {})
      <4>1. d[Len(c) + 1] = f /\ f.fn \notin Protected /\ ErrOk(c, s, t, e, Len(c), Mine(s, t))
        BY <3>1, <3>2 DEF Protected
      <4>2. ErrOk(d, s, t, e, Len(d), Mine(s, t))
        BY <3>2, <4>1, PushHandler
      <4>3. QED
        BY <4>2
    <3>6. OpenOk(d, open)
      BY <3>2, OpenPushed
    <3>7. QED
      BY <3>4, <3>5, <3>6
  <2>2. CASE Len(c) > 0 /\ c[Len(c)].fn = "yield" /\ d = Front(c)
    <3> DEFINE p == Len(c) - 1
               m == Len(s) + 1
    <3>1. Pushed(d, c) /\ Len(d) = p
      BY Zenon, <1>1, <2>2, FrontInfos
    <3>2. p \in 0..Len(c) /\ (p > 0 => p \in 1..Len(c) /\ p + 1 = Len(c)) /\ m \in Nat /\ Len(c) \in 1..Len(c)
      BY <1>1, <2>2
    <3>3. Cut(c, d, s, s, t, p, m)
      BY <1>1, <3>1, <3>2 DEF Cut, Pushed, Below
    <3>4. p > 0 => c[p].fn \in Functions
      <4>1. c[Len(c)].fn \notin Functions
        BY <2>2 DEF Functions
      <4>2. Len(c) > 1 /\ c[Len(c) - 1].fn \in Functions
        BY <3>2, <4>1 DEF Stack, InfosOk, OnLua
      <4>3. QED
        BY <4>2
    <3>5. p > 0 => d[p] = c[p]
      BY <3>1, <3>2 DEF Pushed
    <3>6. CutsAll(c, d, s, s, t, FALSE, p, m)
      BY <3>4, <3>5 DEF CutsAll, Functions
    <3> HIDE DEF p, m
    <3>7. Stack(d, s, t, FALSE)
      BY <1>1, <3>2, <3>3, <3>6, CutStack
    <3>8. ErrOk(c, s, t, e, p, {})
      <4>1. ~Guard(c, s, t, Len(c))
        BY <2>2 DEF Guard, Protected
      <4>2. QED
        BY <1>1, <4>1, ErrDrop DEF p
    <3>9. ErrOk(d, s, t, e, p, {})
      <4>1. ErrOk(c, s, t, e, p, Mine(s, t)) /\ Mine(s, t) \subseteq Mine(s, t) /\ p = Len(d)
        BY <3>1, <3>8
      <4>2. ErrOk(d, s, t, e, p, Mine(s, t))
        BY <3>1, <4>1, PopErr
      <4>3. QED
        BY <4>2
    <3>10. Len(c) \notin open
      BY <2>2 DEF OpenOk, Functions
    <3>11. OpenOk(d, open)
      BY <3>1, <3>10, PopOpen
    <3>12. QED
      BY <3>1, <3>7, <3>9, <3>11
  <2>3. QED
    BY <2>1, <2>2
<1>4. QED
  BY <1>3, GrowResume

\* A coroutine that may be resumed waits for it, off the C stack.
LEMMA Resumable ==
    ASSUME CoInv, InLua, NEW c \in Threads, ~Empty(c), ~Refused(c)
    PROVE  /\ c # R /\ c # Main /\ Mine(cs, c) = {} /\ L[c] \in State
           /\ \/ L[c].status = "ok" /\ L[c].ci = <<>>
              \/ L[c].status = "yield" /\ Len(L[c].ci) > 0 /\ L[c].ci[Len(L[c].ci)].fn = "yield"
<1>1. /\ World(L, cs, "run") /\ L[R].status = "ok" /\ Len(L[R].ci) > 0
  BY LuaRuns
<1>2. c # R
  BY <1>1 DEF Refused
<1>3. L[c] \in State /\ L[c].ci \in Seq(Infos)
  <2>1. L[c] \in State
    BY <1>1 DEF World
  <2>2. QED
    BY <2>1 DEF State
<1>4. L[c].status \in {"ok", "yield"} /\ (L[c].status = "ok" => L[c].ci = <<>> /\ ~L[c].started)
  <2>1. L[c].status \in {"ok", "yield", "error"}
    BY <1>3 DEF State
  <2>2. QED
    BY <2>1 DEF Refused, Empty
<1>5. Status(L[c], cs, c, FALSE)
  <2>1. ~Runs(cs, c)
    BY <1>2 DEF Runs, R
  <2>2. QED
    BY <1>1, <1>4, <2>1, WaitFacts
<1>6. Len(L[c].ci) \in Nat
  BY <1>3
<1>7. QED
  BY <1>2, <1>3, <1>4, <1>5, <1>6 DEF Status

\* What lua_resume sets.
LEMMA ResumedState ==
    ASSUME NEW x \in State, NEW n \in Counts, NEW d \in Seq(Infos),
           NEW y, y = [x EXCEPT !.nCcalls = n, !.nny = 0, !.status = "ok", !.started = TRUE, !.ci = d]
    PROVE  /\ y \in State /\ y.ci = d /\ y.errfunc = x.errfunc /\ y.open = x.open
           /\ y.status = "ok" /\ y.started
<1> DEFINE a == [x EXCEPT !.nCcalls = n]
           b == [a EXCEPT !.nny = 0]
           g == [b EXCEPT !.status = "ok"]
           h == [g EXCEPT !.started = TRUE]
<1>1. a \in State /\ a.errfunc = x.errfunc /\ a.open = x.open
  BY DEF State
<1>2. y = [h EXCEPT !.ci = d]
  OBVIOUS
<1> HIDE DEF a
<1>3. b \in State /\ b.errfunc = x.errfunc /\ b.open = x.open
  BY <1>1 DEF State
<1> HIDE DEF b
<1>4. g \in State /\ g.errfunc = x.errfunc /\ g.open = x.open /\ g.status = "ok"
  BY <1>3 DEF State
<1> HIDE DEF g
<1>5. h \in State /\ h.errfunc = x.errfunc /\ h.open = x.open /\ h.status = "ok" /\ h.started
  BY <1>4 DEF State
<1> HIDE DEF h
<1>6. QED
  BY <1>2, <1>5 DEF State

\* lua_resume of a coroutine.
LEMMA ResumeStep ==
    ASSUME CoInv, NEW c \in Threads, NEW g \in {"resume", "wrap"}, Resume(c, g)
    PROVE  World(L', cs', ctl') /\ ctl' = "run"
<1> DEFINE l == Push(R, Info(g))
           x == L[c]
           n == Count(L[R].nCcalls + 1)
           f == Try("resume", c, 0, n)
           d == IF x.status = "ok" THEN <<Info("lua")>> ELSE Front(x.ci)
           y == [x EXCEPT !.nCcalls = n, !.nny = 0, !.status = "ok", !.started = TRUE, !.ci = d]
<1>1. /\ InLua /\ ~Empty(c) /\ ~Refused(c) /\ g \in CFunctions \ {"raise"}
  BY DEF Resume, CFunctions
<1>2. /\ ctl = "run" /\ L[R] \in State /\ R \in Threads /\ cs \in Seq(Frames) /\ Runs(cs, R)
  BY <1>1, LuaRuns, Here
<1>3. /\ c # R /\ c # Main /\ Mine(cs, c) = {} /\ x \in State
      /\ \/ x.status = "ok" /\ x.ci = <<>>
         \/ x.status = "yield" /\ Len(x.ci) > 0 /\ x.ci[Len(x.ci)].fn = "yield"
  BY <1>1, Resumable
<1>4. /\ World(l, cs, "run") /\ l \in [Threads -> State]
      /\ l[R].ci[Len(l[R].ci)] = Info(g) /\ l[c] = x
      /\ \A i \in Mine(cs, R) : cs[i].base < Len(l[R].ci)
      /\ Len(l[R].ci) # 0
  <2>1. /\ World(l, cs, "run") /\ l \in [Threads -> State]
        /\ l[R].ci[Len(l[R].ci)] = Info(g)
        /\ \A t \in Threads : t # R => l[t] = L[t]
        /\ \A i \in Mine(cs, R) : cs[i].base < Len(l[R].ci)
        /\ Len(l[R].ci) = Len(L[R].ci) + 1 /\ Len(L[R].ci) \in Nat
    BY <1>1, LibraryCall
  <2>2. QED
    BY <1>3, <2>1
<1>5. cs' = Append(cs, f) /\ L' = [l EXCEPT ![c] = y] /\ ctl' = "run"
  <2>1. /\ cs' = Append(cs, f) /\ ctl' = ctl
        /\ L' = [l EXCEPT ![c] = [@ EXCEPT !.nCcalls = n, !.nny = 0, !.status = "ok", !.started = TRUE,
                                           !.ci = IF L[c].status = "ok" THEN <<Info("lua")>> ELSE Front(L[c].ci)]]
    BY DEF Resume
  <2> HIDE DEF l, n
  <2>2. QED
    BY <1>2, <1>4, <2>1
<1>6. d \in Seq(Infos) /\ x.ci \in Seq(Infos)
  <2>1. x.ci \in Seq(Infos)
    BY <1>3 DEF State
  <2>2. <<Info("lua")>> \in Seq(Infos)
    BY InfoTypes DEF Functions
  <2>3. Len(x.ci) > 0 => Front(x.ci) \in Seq(Infos)
    BY <2>1, FrontInfos
  <2>4. QED
    BY <1>3, <2>1, <2>2, <2>3
<1>7. /\ \/ Len(x.ci) = 0 /\ d = <<Info("lua")>>
         \/ Len(x.ci) > 0 /\ x.ci[Len(x.ci)].fn = "yield" /\ d = Front(x.ci)
  BY <1>3
<1>8. n \in Counts
  <2>1. L[R].nCcalls \in Counts
    BY <1>2 DEF State
  <2>2. L[R].nCcalls + 1 \in Int
    BY <2>1, CountTypes
  <2>3. QED
    BY <2>2, CountTypes
<1>9. f \in Frames /\ f.t = c /\ f.k = "resume" /\ f.base = 0
  BY <1>3, <1>8 DEF Try, Frames, Tries, State
<1> HIDE DEF l, n, f, d
<1>10. /\ y \in State /\ y.ci = d /\ y.errfunc = x.errfunc /\ y.open = x.open
       /\ y.status = "ok" /\ y.started
  BY <1>3, <1>6, <1>8, ResumedState
<1> HIDE DEF y
<1>11. L' \in [Threads -> State] /\ L'[c] = y /\ \A u \in Threads : u # c => L'[u] = l[u]
  BY <1>4, <1>5, <1>10, Updated
<1>12. Extended(cs, cs', f)
  BY <1>2, <1>5, <1>9 DEF Extended
<1>13. /\ Grown(cs, cs', c, Len(cs')) /\ cs'[Len(cs')] = f /\ Runs(cs', c)
       /\ cs' \in Seq(Frames) /\ Len(cs) \in Nat
  <2>1. /\ Grown(cs, cs', f.t, Len(cs')) /\ cs'[Len(cs')] = f /\ Runs(cs', f.t)
        /\ cs' \in Seq(Frames)
    BY <1>12, AppendGrows
  <2>2. QED
    BY <1>2, <1>9, <2>1
<1>14. /\ Stack(x.ci, cs, c, FALSE) /\ ErrOk(x.ci, cs, c, x.errfunc, Len(x.ci), {})
       /\ OpenOk(x.ci, x.open)
  <2>1. ~Runs(cs, c) /\ l[c].status # "error"
    BY <1>3, <1>4 DEF Runs, R
  <2>2. /\ Stack(l[c].ci, cs, c, FALSE) /\ OpenOk(l[c].ci, l[c].open)
        /\ ErrOk(l[c].ci, cs, c, l[c].errfunc, Len(l[c].ci), Mine(cs, c))
    BY <1>4, <2>1, WaitFacts
  <2>3. QED
    BY <1>3, <1>4, <2>2
<1>15. /\ Stack(d, cs', c, FALSE) /\ ErrOk(d, cs', c, x.errfunc, Len(d), Mine(cs', c))
       /\ OpenOk(d, x.open)
  <2>1. Reenters(x.ci, d, cs, cs', c, Len(cs'))
    BY <1>3, <1>6, <1>7, <1>9, <1>13 DEF Reenters
  <2> DEFINE b == x.ci
             e == x.errfunc
             o == x.open
  <2>2. /\ Reenters(b, d, cs, cs', c, Len(cs')) /\ Stack(b, cs, c, FALSE)
        /\ ErrOk(b, cs, c, e, Len(b), {}) /\ OpenOk(b, o)
    BY <1>14, <2>1
  <2> HIDE DEF b, e, o
  <2>3. Stack(d, cs', c, FALSE) /\ ErrOk(d, cs', c, e, Len(d), Mine(cs', c)) /\ OpenOk(d, o)
    BY <2>2, ResumeStack
  <2>4. QED
    BY <2>3 DEF b, e, o
<1>16. Good(L'[c], cs', c, TRUE, FALSE)
  <2>1. Mine(cs', c) # {}
    BY <1>13, StackTypes
  <2>2. Good(y, cs', c, TRUE, FALSE)
    BY <1>10, <1>15, <2>1, RunnerGood
  <2>3. QED
    BY <1>11, <2>2
<1>17. Waits(l, cs)
  <2>1. Info(g).fn \in Callers
    BY DEF Info, Callers
  <2>2. \A q \in Threads : Runs(cs, q) => q = R
    BY DEF Runs, R
  <2>3. QED
    BY <1>4, <2>1, <2>2 DEF Waits
<1>18. Begins(l, cs, L', cs', f, c)
  <2>1. L'[c].status = "ok" /\ f.k \in Starts /\ Len(cs) # 0
    BY <1>2, <1>9, <1>10, <1>11 DEF Starts, Runs
  <2>2. QED
    BY <1>9, <1>11, <1>12, <1>16, <1>17, <2>1 DEF Begins
<1>19. QED
  BY <1>4, <1>5, <1>18, StartWorld

-----------------------------------------------------------------------------
(* Activations end *)

\* No thread goes on by itself: each waits for what has ended, or to be called.
Waiting(l, s) ==
    /\ l \in [Threads -> State] /\ s \in Seq(Frames)
    /\ ActGrouped(s) /\ (Len(s) # 0 => s[1].t = Main)
    /\ \A t \in Threads : Good(l[t], s, t, FALSE, FALSE)

\* The caller of the activation goes on.
LEMMA WaitingRuns ==
    ASSUME NEW l, NEW s, Waiting(l, s)
    PROVE  World(l, s, "run")
<1>1. ASSUME NEW t \in Threads
      PROVE  /\ Good(l[t], s, t, Runs(s, t), Runs(s, t) /\ "run" # "run")
             /\ Runs(s, t) => (l[t].status = "yield" <=> "run" = "yield")
  <2>1. Good(l[t], s, t, FALSE, FALSE)
    BY DEF Waiting
  <2>2. Runs(s, t) => Mine(s, t) # {}
    BY StackTypes DEF Waiting
  <2>3. Status(l[t], s, t, Runs(s, t)) /\ (Runs(s, t) => l[t].status # "yield")
    BY <2>1, <2>2 DEF Good, Status
  <2>4. Good(l[t], s, t, Runs(s, t), FALSE)
    BY <2>1, <2>3 DEF Good
  <2>5. QED
    BY <2>3, <2>4
<1>2. QED
  BY <1>1 DEF World, Waiting, Modes

\* The thread that has called another waits for it.
LEMMA WaitersWait ==
    ASSUME NEW l, NEW s, World(l, s, "run"), Waits(l, s)
    PROVE  Waiting(l, s)
<1>1. ASSUME NEW t \in Threads
      PROVE  Good(l[t], s, t, FALSE, FALSE)
  <2>1. CASE Runs(s, t)
    <3>1. Good(l[t], s, t, TRUE, FALSE) /\ l[t].status # "yield"
      BY <2>1 DEF World
    <3>2. QED
      BY <2>1, <3>1 DEF Good, Status, Waits
  <2>2. CASE ~Runs(s, t)
    <3>1. Runs(s, t) = FALSE
      BY <2>2 DEF Runs
    <3>2. QED
      BY <3>1 DEF World
  <2>3. QED
    BY <2>1, <2>2
<1>2. QED
  BY <1>1 DEF World, Waiting

\* The frames of the running thread t from the q-th on are gone, and t waits.
Ends(l, s, l2, w, t, q) ==
    /\ q \in 1..Len(s) /\ w = SubSeq(s, 1, q - 1) /\ \A i \in q..Len(s) : s[i].t = t
    /\ l2 \in [Threads -> State] /\ \A u \in Threads : u # t => l2[u] = l[u]
    /\ Good(l2[t], w, t, FALSE, FALSE)

\* After the end of an activation all threads wait.
LEMMA EndWaits ==
    ASSUME NEW l, NEW s, NEW m, World(l, s, m), NEW t \in Threads, Runs(s, t),
           NEW l2, NEW w, NEW q, Ends(l, s, l2, w, t, q)
    PROVE  Waiting(l2, w)
<1>1. s \in Seq(Frames) /\ ActGrouped(s) /\ s[1].t = Main /\ Len(s) \in Nat
  BY DEF World, Runs
<1>2. q \in 1..Len(s) + 1 /\ w = SubSeq(s, 1, q - 1) /\ q \in Nat
  BY <1>1 DEF Ends
<1>3. /\ w \in Seq(Frames) /\ Len(w) = q - 1 /\ \A i \in 1..q - 1 : w[i] = s[i]
      /\ \A u : (\A i \in q..Len(s) : s[i].t # u)
                => Mine(w, u) = Mine(s, u) /\ \A i \in Mine(s, u) : w[i] = s[i]
  <2>1. FirstOf(s, w, q)
    BY <1>1, <1>2 DEF FirstOf
  <2>2. QED
    BY <2>1, FirstFrames
<1>4. ActGrouped(w)
  BY <1>1, <1>2, GroupedCut
<1>5. Len(w) # 0 => w[1].t = Main
  <2>1. Len(w) # 0 => 1 \in 1..q - 1
    BY <1>2, <1>3
  <2>2. QED
    BY <1>1, <1>3, <2>1
<1>6. ASSUME NEW u \in Threads
      PROVE  Good(l2[u], w, u, FALSE, FALSE)
  <2>1. CASE u = t
    BY <2>1 DEF Ends
  <2>2. CASE u # t
    <3>1. Runs(s, u) = FALSE
      BY <2>2 DEF Runs
    <3>2. Good(l[u], s, u, FALSE, FALSE)
      BY <3>1 DEF World
    <3>3. Mine(w, u) = Mine(s, u) /\ \A i \in Mine(s, u) : w[i] = s[i]
      BY <1>3, <2>2 DEF Ends
    <3>4. l2[u] = l[u]
      BY <2>2 DEF Ends
    <3>5. QED
      BY <3>2, <3>3, <3>4, SameFrames
  <2>3. QED
    BY <2>1, <2>2
<1>7. QED
  BY <1>3, <1>4, <1>5, <1>6 DEF Waiting, Ends

\* The library function that has called what has failed goes on.
LEMMA RelabelWorld ==
    ASSUME NEW l, NEW s, Waiting(l, s), NEW t \in Threads, Runs(s, t),
           NEW fn \in Callers \cup {"raise", "failed"}, NEW m \in {"run", "raise"},
           fn = "raise" <=> m = "raise",
           NEW l2, l2 = Relabel(l, t, fn)
    PROVE  World(l2, s, m)
<1> DEFINE c == l[t].ci
           z == Len(c)
           d == [c EXCEPT ![z].fn = fn]
           y == [l[t] EXCEPT !.ci = d]
<1>1. World(l, s, "run")
  BY WaitingRuns
<1>2. /\ l[t] \in State /\ c \in Seq(Infos) /\ z \in Nat /\ l[t].status = "ok" /\ l[t].started
      /\ Based(s, t) /\ Stack(c, s, t, FALSE) /\ Mine(s, t) # {}
      /\ ErrOk(c, s, t, l[t].errfunc, z, Mine(s, t)) /\ OpenOk(c, l[t].open)
  BY <1>1, RunFacts
<1>3. /\ z > 0 /\ z \in 1..z /\ c[z].fn \in Callers /\ c[z] \in Infos
      /\ \A i \in Mine(s, t) : s[i].base < z
  <2>1. Status(l[t], s, t, FALSE)
    BY DEF Waiting, Good
  <2>2. QED
    BY <1>2, <2>1 DEF Status
<1>4. [c[z] EXCEPT !.fn = fn] \in Infos
  BY <1>3 DEF Infos, Callers, CFunctions, Functions
<1>5. /\ d \in Seq(Infos) /\ Len(d) = z /\ d[z] = [c[z] EXCEPT !.fn = fn]
      /\ \A i \in 1..z : i # z => d[i] = c[i]
  <2>1. d = [c EXCEPT ![z] = [c[z] EXCEPT !.fn = fn]]
    OBVIOUS
  <2> DEFINE g == [c[z] EXCEPT !.fn = fn]
  <2> HIDE DEF z, d, c, g
  <2>2. QED
    BY <1>2, <1>3, <1>4, <2>1 DEF z, g
<1>6. /\ d[z].fn = fn /\ d[z].reentry = c[z].reentry /\ d[z].stat = c[z].stat
      /\ d[z].ypcall = c[z].ypcall
  BY <1>3, <1>5 DEF Infos
<1>7. l2 = [l EXCEPT ![t] = y] /\ l \in [Threads -> State]
  BY DEF Relabel, Waiting
<1> HIDE DEF d
<1>8. /\ y \in State /\ y.ci = d /\ y.errfunc = l[t].errfunc /\ y.open = l[t].open
      /\ y.status = l[t].status /\ y.started = l[t].started
  BY <1>2, <1>5 DEF State
<1> HIDE DEF y, c, z
<1>9. /\ l2 \in [Threads -> State] /\ l2[t] = y /\ \A u \in Threads : u # t => l2[u] = l[u]
  BY <1>7, <1>8, Updated
<1>10. /\ Stack(d, s, t, m # "run")
       /\ \A e : ErrOk(c, s, t, e, Len(c), Mine(s, t)) => ErrOk(d, s, t, e, Len(c), Mine(s, t))
  <2>1. d[Len(c)].fn = "raise" => m # "run"
    BY <1>6 DEF z
  <2>2. d[Len(c)].fn = "host" => ~(m # "run")
    BY <1>6 DEF z
  <2>3. QED
    BY <1>2, <1>3, <1>5, <1>6, <2>1, <2>2, RelabelStack DEF z
<1>11. ErrOk(d, s, t, y.errfunc, Len(d), Mine(s, t))
  BY <1>2, <1>5, <1>8, <1>10 DEF z
<1>12. OpenOk(d, y.open)
  <2>1. ASSUME NEW i \in l[t].open
        PROVE  i \in 1..Len(d) /\ d[i].fn \in Functions
    <3>1. i \in 1..z /\ c[i].fn \in Functions
      BY <1>2, <2>1 DEF OpenOk, z
    <3>2. i # z
      BY <1>3, <3>1 DEF Callers, Functions
    <3>3. QED
      BY <1>5, <3>1, <3>2
  <2>2. QED
    BY <1>8, <2>1 DEF OpenOk
<1>13. Stays(l, l2, t, m)
  BY <1>2, <1>8, <1>9 DEF Stays, Modes
<1>14. QED
  BY <1>1, <1>8, <1>9, <1>10, <1>11, <1>12, <1>13, StayWorld

\* The caller of a failed activation reports the error or raises it.
LEMMA FailWorld ==
    ASSUME NEW l, NEW s, Waiting(l, s), Fail(l, s), ctl' # "raisemain"
    PROVE  World(L', cs', ctl') /\ ctl' # "yield"
<1>1. CASE s = <<>>
  <2>1. L' = l /\ cs' = s /\ ctl' = "run"
    BY <1>1 DEF Fail
  <2>2. QED
    BY <2>1, WaitingRuns
<1>2. CASE s # <<>>
  <2> DEFINE t == s[Len(s)].t
  <2>1. Runs(s, t) /\ t \in Threads /\ Last(s) = s[Len(s)]
    <3>1. s \in Seq(Frames) /\ Len(s) \in 1..Len(s) /\ Len(s) # 0
      BY <1>2 DEF Waiting
    <3>2. s[Len(s)] \in Frames
      BY <3>1
    <3>3. QED
      BY <3>1, <3>2, FrameTypes DEF Runs, Last
  <2> DEFINE fn == Last(l[t].ci).fn
             new == IF fn = "resume" THEN "failed" ELSE fn
  <2>2. /\ cs' = s
        /\ \/ fn \in {"wrap", "host"} /\ L' = Relabel(l, t, "raise") /\ ctl' = "raise"
           \/ fn \in {"resume", "host"} /\ L' = Relabel(l, t, new) /\ ctl' = "run"
    BY <1>2, <2>1 DEF Fail
  <2> HIDE DEF t, fn
  <2>3. CASE L' = Relabel(l, t, "raise") /\ ctl' = "raise"
    <3>1. "raise" \in Callers \cup {"raise", "failed"} /\ ctl' \in {"run", "raise"}
      BY <2>3
    <3>2. QED
      BY <2>1, <2>2, <2>3, <3>1, RelabelWorld
  <2>4. CASE fn \in {"resume", "host"} /\ L' = Relabel(l, t, new) /\ ctl' = "run"
    <3>1. new \in Callers \cup {"raise", "failed"} /\ new # "raise" /\ ctl' \in {"run", "raise"}
      BY <2>4 DEF Callers
    <3> HIDE DEF new
    <3>2. QED
      BY <2>1, <2>2, <2>4, <3>1, RelabelWorld
  <2>5. QED
    BY <2>2, <2>3, <2>4
<1>3. QED
  BY <1>1, <1>2

\* A thread without calls and frames.
LEMMA EmptyStack ==
    ASSUME NEW c, Len(c) = 0, NEW s, NEW t, Mine(s, t) = {}, NEW u
    PROVE  /\ Stack(c, s, t, u) /\ OpenOk(c, {}) /\ ErrOk(c, s, t, 0, Len(c), Mine(s, t))
           /\ \A open : OpenOk(c, open) => open = {}
<1>1. 1..Len(c) = {}
  OBVIOUS
<1>2. InfosOk(c, t, u)
  BY <1>1 DEF InfosOk, OnLua, Flagged, StatOnTop, RaiseOnTop, HostOnTop
<1>3. FramesOk(c, s, t, u)
  BY DEF FramesOk, CallsOk, PCallsOk, HostsOk, ResumesOk
<1>4. Ascending(s, t) /\ Repeated(c, s, t) /\ SavedOk(c, s, t)
  BY DEF Ascending, Repeated, SavedOk
<1>5. Owned(c, s, t, u) /\ MarkedOk(c, s, t)
  BY <1>1 DEF Owned, CallsOwned, Guarded, PinsOwned, Yieldable, MarkedOk
<1>6. OpenOk(c, {}) /\ ErrOk(c, s, t, 0, Len(c), Mine(s, t))
  BY DEF OpenOk, ErrOk
<1>7. \A open : OpenOk(c, open) => open = {}
  BY <1>1 DEF OpenOk
<1>8. QED
  BY <1>2, <1>3, <1>4, <1>5, <1>6, <1>7 DEF Stack

\* A new thread.
LEMMA NewThread ==
    /\ NewState \in State /\ NewState.ci = <<>> /\ NewState.errfunc = 0 /\ NewState.open = {}
    /\ NewState.status = "ok" /\ NewState.started
<1>1. 0 \in Counts
  BY CCallsAssumption DEF Counts
<1>2. <<>> \in Seq(Infos) /\ {} \in SUBSET Nat
  OBVIOUS
<1>3. QED
  BY <1>1, <1>2 DEF State, NewState

\* lua_newthread.
LEMMA CreateStep ==
    ASSUME CoInv, NEW c \in Threads, CoCreate(c)
    PROVE  World(L', cs', ctl') /\ ctl' = "run"
<1> DEFINE y == [NewState EXCEPT !.started = FALSE]
<1>1. /\ InLua /\ c # Main /\ (\A i \in 1..Len(cs) : cs[i].t # c)
      /\ L' = [L EXCEPT ![c] = y] /\ cs' = cs /\ ctl' = "run"
  BY DEF CoCreate, InLua
<1>2. World(L, cs, "run")
  BY <1>1, LuaRuns
<1>3. Mine(cs, c) = {} /\ Runs(cs, c) = FALSE
  <2>1. cs \in Seq(Frames)
    BY <1>2 DEF World
  <2>2. Len(cs) # 0 => Len(cs) \in 1..Len(cs)
    BY <2>1
  <2>3. QED
    BY <1>1, <2>2 DEF Mine, Runs
<1>4. /\ y \in State /\ y.ci = <<>> /\ y.errfunc = 0 /\ y.open = {}
      /\ y.status = "ok" /\ ~y.started
  BY NewThread DEF State
<1> HIDE DEF y
<1>5. L' \in [Threads -> State] /\ L'[c] = y /\ \A u \in Threads : u # c => L'[u] = L[u]
  BY <1>1, <1>2, <1>4, Updated DEF World
<1>6. Good(y, cs, c, FALSE, FALSE)
  <2>1. Len(y.ci) = 0
    BY <1>4
  <2>2. Status(y, cs, c, FALSE)
    BY <1>1, <1>3, <1>4, <2>1 DEF Status
  <2>3. QED
    BY <1>3, <1>4, <2>1, <2>2, EmptyStack DEF Good
<1>7. ASSUME NEW u \in Threads
      PROVE  /\ Good(L'[u], cs, u, Runs(cs, u), Runs(cs, u) /\ "run" # "run")
             /\ Runs(cs, u) => (L'[u].status = "yield" <=> "run" = "yield")
  <2>1. CASE u = c
    BY <1>3, <1>5, <1>6, <2>1
  <2>2. CASE u # c
    BY <1>2, <1>5, <2>2 DEF World
  <2>3. QED
    BY <2>1, <2>2
<1>8. World(L', cs, "run")
  BY <1>2, <1>5, <1>7 DEF World
<1>9. QED
  BY <1>1, <1>8

\* What a thread waits for does not depend on its nCcalls.
LEMMA CountedWaits ==
    ASSUME NEW l, NEW s, Waiting(l, s), NEW c \in Threads, NEW n \in Counts,
           NEW l2, l2 = [l EXCEPT ![c].nCcalls = n]
    PROVE  Waiting(l2, s)
<1> DEFINE y == [l[c] EXCEPT !.nCcalls = n]
<1>1. l \in [Threads -> State] /\ l[c] \in State
  BY DEF Waiting
<1>2. /\ y \in State /\ y.ci = l[c].ci /\ y.errfunc = l[c].errfunc /\ y.open = l[c].open
      /\ y.status = l[c].status /\ y.started = l[c].started
  BY <1>1 DEF State
<1>3. l2 = [l EXCEPT ![c] = y]
  OBVIOUS
<1> HIDE DEF y
<1>4. l2 \in [Threads -> State] /\ l2[c] = y /\ \A u \in Threads : u # c => l2[u] = l[u]
  BY <1>1, <1>2, <1>3, Updated
<1>5. ASSUME NEW u \in Threads
      PROVE  Good(l2[u], s, u, FALSE, FALSE)
  <2>1. Good(l[u], s, u, FALSE, FALSE)
    BY DEF Waiting
  <2>2. CASE u = c
    BY <1>2, <1>4, <2>1, <2>2 DEF Good, Status
  <2>3. CASE u # c
    BY <1>4, <2>1, <2>3
  <2>4. QED
    BY <2>2, <2>3
<1>6. QED
  BY <1>4, <1>5 DEF Waiting

\* A coroutine cannot be resumed.
LEMMA RefuseStep ==
    ASSUME CoInv, NEW c \in Threads, NEW g \in {"resume", "wrap"}, ResumeFails(c, g),
           ctl' # "raisemain"
    PROVE  World(L', cs', ctl') /\ ctl' # "yield"
<1> DEFINE l == Push(R, Info(g))
           m == IF Bare(c) THEN l ELSE [l EXCEPT ![c].nCcalls = L[R].nCcalls]
<1>1. InLua /\ g \in CFunctions \ {"raise"} /\ Fail(m, cs)
  BY DEF ResumeFails, CFunctions
<1>2. L[R].nCcalls \in Counts /\ Len(cs) # 0
  BY <1>1, LuaRuns, Here DEF State
<1>3. Waits(l, cs) /\ World(l, cs, "run")
  <2>1. /\ World(l, cs, "run") /\ l[R].ci[Len(l[R].ci)] = Info(g)
        /\ \A i \in Mine(cs, R) : cs[i].base < Len(l[R].ci)
        /\ Len(l[R].ci) = Len(L[R].ci) + 1 /\ Len(L[R].ci) \in Nat
    BY <1>1, LibraryCall
  <2>2. Info(g).fn \in Callers
    BY DEF Info, Callers
  <2>3. \A q \in Threads : Runs(cs, q) => q = R
    BY DEF Runs, R
  <2>4. QED
    BY <2>1, <2>2, <2>3 DEF Waits
<1> HIDE DEF l
<1>4. Waiting(l, cs)
  BY <1>3, WaitersWait
<1>5. Waiting(m, cs)
  BY <1>2, <1>4, CountedWaits
<1> HIDE DEF m
<1>6. QED
  BY <1>1, <1>5, FailWorld

\* The thread t has gone back to the calls below those it has made since its q-th
\* frame, which it loses.
Unwinds(l, s, l2, w, t, q, b) ==
    /\ q \in 1..Len(s) /\ w = SubSeq(s, 1, q - 1) /\ \A i \in q..Len(s) : s[i].t = t
    /\ b = s[q].base /\ b \in 0..Len(l[t].ci) /\ Len(l2[t].ci) = b
    /\ \A i \in 1..b : /\ l2[t].ci[i] = l[t].ci[i] \/ i = b
                       /\ l2[t].ci[i].fn = l[t].ci[i].fn
                       /\ l2[t].ci[i].reentry = l[t].ci[i].reentry
                       /\ l2[t].ci[i].ypcall = l[t].ci[i].ypcall
                       /\ l2[t].ci[i].h = l[t].ci[i].h
    /\ l2[t].errfunc = s[q].errfunc
    /\ \A i \in l2[t].open : i \in l[t].open /\ i <= b

\* Below that frame there are only the calls that remain.
LEMMA UnwindFacts ==
    ASSUME NEW l, NEW s, NEW m, World(l, s, m), NEW t \in Threads, Runs(s, t),
           NEW l2, NEW w, NEW q, NEW b, Unwinds(l, s, l2, w, t, q, b), s[q].k \in Tries
    PROVE  /\ q \in Mine(s, t) /\ q \in Nat /\ Based(s, t) /\ l[t].ci \in Seq(Infos)
           /\ Cut(l[t].ci, l2[t].ci, s, w, t, b, q)
           /\ \A i \in Mine(w, t) : s[i].base < b /\ s[i].base \in Nat /\ i < q /\ i \in Mine(s, t)
           /\ \A i \in Mine(s, t) : i >= q => s[i].base >= b
           /\ Mine(w, t) = Below(s, t, q) /\ \A i \in Mine(w, t) : w[i] = s[i]
           /\ OpenOk(l2[t].ci, l2[t].open)
<1> DEFINE c == l[t].ci
           d == l2[t].ci
<1>1. /\ c \in Seq(Infos) /\ Len(c) \in Nat /\ Based(s, t) /\ Stack(c, s, t, m # "run")
      /\ OpenOk(c, l[t].open)
  BY RunnerFacts
<1>2. s \in Seq(Frames) /\ Len(s) \in Nat
  BY DEF World
<1>3. q \in 1..Len(s) /\ q \in Nat /\ q \in q..Len(s)
  BY <1>2 DEF Unwinds
<1>4. q \in Mine(s, t)
  BY <1>3 DEF Unwinds, Mine
<1>5. Mine(w, t) = Below(s, t, q) /\ \A i \in Mine(w, t) : w[i] = s[i]
  <2>1. FirstOf(s, w, q)
    BY <1>2, <1>3 DEF FirstOf, Unwinds
  <2>2. QED
    BY <2>1, FirstFrames
<1>6. \A i \in Mine(s, t) : i \in Nat /\ s[i].base \in Nat
  BY <1>1, <1>2 DEF Based, Mine
<1>7. b = s[q].base /\ b \in Nat
  BY <1>4, <1>6 DEF Unwinds
<1>8. s[q].k # "call"
  BY DEF Tries
<1>9. \A i \in Mine(s, t) : IF i < q THEN s[i].base < b ELSE s[i].base >= b
  <2>1. Ascending(s, t)
    BY <1>1 DEF Stack
  <2>2. ASSUME NEW i \in Mine(s, t)
        PROVE  IF i < q THEN s[i].base < b ELSE s[i].base >= b
    <3>1. i < q => s[i].base < s[q].base
      BY <1>4, <1>8, <2>1 DEF Ascending
    <3>2. q < i => s[q].base <= s[i].base
      BY <1>4, <2>1 DEF Ascending
    <3>3. i \in Nat /\ s[i].base \in Nat
      BY <1>6
    <3>4. i < q \/ i = q \/ q < i
      BY <1>3, <3>3
    <3>5. QED
      BY <1>3, <1>7, <3>1, <3>2, <3>3, <3>4
  <2>3. QED
    BY <2>2
<1>10. \A i \in Mine(w, t) : s[i].base < b /\ s[i].base \in Nat /\ i < q /\ i \in Mine(s, t)
  BY <1>5, <1>6, <1>9 DEF Below
<1>11. \A i \in Mine(s, t) : i >= q => s[i].base >= b
  BY <1>3, <1>6, <1>9
<1>12. Cut(c, d, s, w, t, b, q)
  BY <1>1, <1>5 DEF Cut, Unwinds
<1>13. OpenOk(d, l2[t].open)
  <2>1. ASSUME NEW i \in l2[t].open
        PROVE  i \in 1..Len(d) /\ d[i].fn \in Functions
    <3>1. i \in 1..Len(c) /\ c[i].fn \in Functions /\ i <= b
      BY <1>1 DEF OpenOk, Unwinds
    <3>2. i \in 1..b /\ Len(d) = b
      BY <1>7, <3>1 DEF Unwinds
    <3>3. QED
      BY <3>1, <3>2 DEF Unwinds
  <2>2. QED
    BY <2>1 DEF OpenOk
<1>14. QED
  BY <1>1, <1>3, <1>4, <1>5, <1>10, <1>11, <1>12, <1>13

\* The protected call may have caught an error.
Caught(l, l2, t, b) == l2[t].ci[b].stat \in {l[t].ci[b].stat, TRUE}
\* luaD_pcall has returned or caught an error.
LEMMA PCallEnds ==
    ASSUME NEW l, NEW s, NEW m, World(l, s, m), NEW t \in Threads, Runs(s, t),
           NEW l2, NEW w, NEW q, NEW b, Unwinds(l, s, l2, w, t, q, b), s[q].k = "pcall",
           Caught(l, l2, t, b), Stays(l, l2, t, "run")
    PROVE  World(l2, w, "run")
<1> DEFINE c == l[t].ci
           d == l2[t].ci
           e == s[q].errfunc
<1>1. /\ q \in Mine(s, t) /\ q \in Nat /\ Based(s, t) /\ c \in Seq(Infos)
      /\ Cut(c, d, s, w, t, b, q)
      /\ \A i \in Mine(w, t) : s[i].base < b /\ s[i].base \in Nat /\ i < q /\ i \in Mine(s, t)
      /\ \A i \in Mine(s, t) : i >= q => s[i].base >= b
      /\ Mine(w, t) = Below(s, t, q) /\ \A i \in Mine(w, t) : w[i] = s[i]
      /\ OpenOk(d, l2[t].open)
  BY UnwindFacts DEF Tries
<1>2. Stack(c, s, t, m # "run") /\ s \in Seq(Frames) /\ ActGrouped(s) /\ Len(c) \in Nat
  BY RunnerFacts DEF World
<1>3. /\ b \in 1..Len(c) /\ c[b].fn \in Protected /\ ~c[b].ypcall /\ b = s[q].base
      /\ Len(d) = b /\ b \in Nat /\ b - 1 < b /\ b - 1 \in Int /\ b > 0
  <2>1. /\ s[q].base \in 1..Len(c) /\ c[s[q].base].fn \in Protected /\ ~c[s[q].base].ypcall
    BY <1>1, <1>2 DEF Stack, FramesOk, PCallsOk
  <2>2. QED
    BY <1>2, <2>1 DEF Unwinds
<1>4. ~HasTry(w, t, b)
  <2>1. \A i \in Mine(w, t) : w[i].base # b
    BY <1>1, <1>3
  <2>2. QED
    BY <2>1 DEF HasTry
<1>5. d[b].fn = c[b].fn /\ d[b].ypcall = c[b].ypcall
  <2>1. b \in 1..b
    BY <1>3
  <2>2. QED
    BY <2>1 DEF Unwinds
<1> HIDE DEF c, d, e
<1>6. CutsAll(c, d, s, w, t, FALSE, b, q)
  <2>1. \A i \in Mine(w, t) : s[i].base <= b /\ s[i].base < b
    BY <1>1, <1>3
  <2>2. c[b].fn # "raise" /\ c[b].fn # "host"
    BY <1>3 DEF Protected
  <2>3. d[b].stat # c[b].stat => d[b].stat
    BY DEF c, d, Caught
  <2>4. QED
    BY <1>1, <1>3, <1>4, <2>1, <2>2, <2>3 DEF CutsAll
<1>7. Stack(d, w, t, FALSE)
  BY <1>1, <1>2, <1>6, CutStack
<1>8. ErrOk(d, w, t, e, Len(d), Mine(w, t))
  <2> DEFINE n == b - 1
  <2>1. ErrOk(c, s, t, e, n, Below(s, t, q))
    BY <1>1, <1>2, <1>3 DEF Stack, SavedOk, e
  <2>2. n \in Int /\ n < b
    BY <1>3
  <2> HIDE DEF n
  <2>3. Mine(w, t) \subseteq Below(s, t, q) /\ Mine(w, t) \subseteq Mine(w, t)
    BY <1>1
  <2>4. ErrOk(d, w, t, e, n, Mine(w, t))
    BY <1>1, <1>6, <2>1, <2>2, <2>3, CutErr
  <2>5. ~Guard(d, w, t, b)
    BY <1>3, <1>4, <1>5 DEF Guard
  <2>6. QED
    BY <1>3, <2>4, <2>5, ErrDrop DEF n
<1>9. Lowered(s, w, t, q)
  <2>1. Len(s) \in Nat /\ q \in 1..Len(s) /\ \A i \in q..Len(s) : s[i].t = t
    BY <1>2 DEF Unwinds
  <2>2. PICK h \in 1..q : /\ s[h].k \in Starts /\ s[h].t = s[q].t
                          /\ \A j \in h + 1..q : s[j].k \notin Starts /\ s[j].t = s[q].t
    BY <1>2, <2>1 DEF ActGrouped
  <2>3. h # q /\ s[q].t = t
    BY <1>1, <2>2 DEF Starts, Mine
  <2>4. q > 1 /\ q \in 1..Len(s) + 1 /\ (q - 1 = h \/ q - 1 \in h + 1..q)
    BY <2>1, <2>2, <2>3
  <2>5. s[q - 1].t = t
    BY <2>2, <2>3, <2>4
  <2>6. QED
    BY <2>1, <2>4, <2>5 DEF Lowered, Unwinds
<1>10. l2[t].errfunc = e
  BY DEF Unwinds, e
<1>11. QED
  BY <1>1, <1>7, <1>8, <1>9, <1>10, LowerWorld DEF d

\* An activation that the host has started on the main thread has ended.
LEMMA HostEnds ==
    ASSUME NEW l, NEW s, NEW m, World(l, s, m), NEW t \in Threads, Runs(s, t),
           NEW l2, NEW w, NEW q, NEW b, Unwinds(l, s, l2, w, t, q, b), s[q].k = "host",
           b > 0 => l2[t].ci[b].stat = l[t].ci[b].stat, Stays(l, l2, t, "run")
    PROVE  Waiting(l2, w)
<1> DEFINE c == l[t].ci
           d == l2[t].ci
           e == s[q].errfunc
<1>1. /\ q \in Mine(s, t) /\ q \in Nat /\ Based(s, t) /\ c \in Seq(Infos)
      /\ Cut(c, d, s, w, t, b, q)
      /\ \A i \in Mine(w, t) : s[i].base < b /\ s[i].base \in Nat /\ i < q /\ i \in Mine(s, t)
      /\ \A i \in Mine(s, t) : i >= q => s[i].base >= b
      /\ Mine(w, t) = Below(s, t, q) /\ \A i \in Mine(w, t) : w[i] = s[i]
      /\ OpenOk(d, l2[t].open)
  BY UnwindFacts DEF Tries
<1>2. /\ Stack(c, s, t, m # "run") /\ s \in Seq(Frames) /\ Len(c) \in Nat /\ l[t].started
  BY RunnerFacts DEF World
<1>3. /\ t = Main /\ b = s[q].base /\ Len(d) = b /\ b \in Nat
      /\ IF q = 1 THEN b = 0 ELSE b \in 1..Len(c) /\ c[b].fn \in Callers
  <2>1. t = Main /\ IF q = 1 THEN s[q].base = 0
                    ELSE s[q].base \in 1..Len(c) /\ c[s[q].base].fn \in Callers
    BY <1>1, <1>2 DEF Stack, FramesOk, HostsOk
  <2>2. QED
    BY <1>2, <2>1 DEF Unwinds
<1>4. b > 0 => d[b].fn = c[b].fn
  <2>1. b > 0 => b \in 1..b
    BY <1>3
  <2>2. QED
    BY <2>1 DEF Unwinds
<1>5. Mine(w, t) # {} => b > 0
  <2>1. ASSUME NEW i \in Mine(w, t)
        PROVE  b > 0
    <3>1. i < q /\ i \in 1..Len(s) /\ i >= 1
      BY <1>1, <1>2 DEF Mine
    <3>2. QED
      BY <1>1, <1>3, <3>1
  <2>2. QED
    BY <2>1
<1> HIDE DEF c, d, e
<1>6. CutsAll(c, d, s, w, t, FALSE, b, q)
  <2>1. \A i \in Mine(w, t) : s[i].base <= b /\ s[i].base < b
    BY <1>1, <1>3
  <2>2. b > 0 => c[b].fn # "raise"
    BY <1>3 DEF Callers
  <2>3. b > 0 => d[b].stat = c[b].stat
    BY DEF c, d
  <2>4. QED
    BY <1>1, <1>3, <2>1, <2>2, <2>3 DEF CutsAll
<1>7. Stack(d, w, t, FALSE)
  BY <1>1, <1>2, <1>6, CutStack
<1>8. ErrOk(d, w, t, e, Len(d), Mine(w, t))
  <2>1. ErrOk(c, s, t, e, b, Below(s, t, q))
    BY <1>1, <1>2, <1>3 DEF Stack, SavedOk, e
  <2>2. CASE b = 0
    <3>1. e = 0
      BY <2>1, <2>2 DEF ErrOk
    <3>2. QED
      BY <3>1 DEF ErrOk
  <2>3. CASE b # 0
    <3> DEFINE n == b - 1
    <3>1. c[b].fn \notin Protected /\ d[b].fn \notin Protected
      BY <1>3, <1>4, <2>3 DEF Callers, Protected
    <3>2. ~Guard(c, s, t, b) /\ ~Guard(d, w, t, b)
      BY <3>1 DEF Guard
    <3>3. ErrOk(c, s, t, e, n, Below(s, t, q))
      BY <1>3, <2>1, <3>2, ErrDrop
    <3>4. n \in Int /\ n < b
      BY <1>3
    <3> HIDE DEF n
    <3>5. Mine(w, t) \subseteq Below(s, t, q) /\ Mine(w, t) \subseteq Mine(w, t)
      BY <1>1
    <3>6. ErrOk(d, w, t, e, n, Mine(w, t))
      BY <1>1, <1>6, <3>3, <3>4, <3>5, CutErr
    <3>7. QED
      BY <1>3, <3>2, <3>6, ErrDrop DEF n
  <2>4. QED
    BY <2>2, <2>3
<1>9. Status(l2[t], w, t, FALSE)
  <2>1. l2[t].status = "ok" /\ l2[t].started
    <3>1. l2[t] \in State
      BY DEF Stays
    <3>2. l2[t].status \in {"ok", "yield", "error"}
      BY <3>1 DEF State
    <3>3. QED
      BY <1>2, <3>2 DEF Stays
  <2>2. Mine(w, t) = {} => Len(d) = 0
    <3>1. b # 0 => Mine(w, t) # {}
      <4>1. ASSUME b # 0
            PROVE  1 \in Mine(w, t)
        <5>1. s[1].t = Main /\ 1 \in 1..Len(s)
          BY <1>2 DEF World, Runs
        <5>2. 1 \in Mine(s, t)
          BY <1>3, <5>1 DEF Mine
        <5>3. q # 1
          BY <1>3, <4>1
        <5>4. 1 < q
          BY <1>1, <5>3 DEF Mine
        <5>5. QED
          BY <1>1, <5>2, <5>4 DEF Below
      <4>2. QED
        BY <4>1
    <3>2. QED
      BY <1>3, <3>1
  <2>3. Mine(w, t) # {} => /\ Len(d) # 0 /\ d[Len(d)].fn \in Callers
                           /\ \A i \in Mine(w, t) : w[i].base < Len(d)
    BY <1>1, <1>3, <1>4, <1>5
  <2>4. QED
    BY <2>1, <2>2, <2>3 DEF Status, d
<1>10. Good(l2[t], w, t, FALSE, FALSE)
  <2>1. l2[t].errfunc = e
    BY DEF Unwinds, e
  <2>2. QED
    BY <1>1, <1>7, <1>8, <1>9, <2>1 DEF Good, d
<1>11. Ends(l, s, l2, w, t, q)
  BY <1>10 DEF Ends, Unwinds, Stays
<1>12. QED
  BY <1>11, EndWaits

\* A coroutine's activation has no frame below it.
LEMMA ResumeEnds ==
    ASSUME NEW l, NEW s, NEW m, World(l, s, m), NEW t \in Threads, Runs(s, t),
           NEW q, q \in 1..Len(s), s[q].k = "resume", s[q].t = t, NEW w, w = SubSeq(s, 1, q - 1)
    PROVE  t # Main /\ Mine(w, t) = {} /\ s[q].base = 0
<1>1. s \in Seq(Frames) /\ Stack(l[t].ci, s, t, m # "run")
  BY RunnerFacts DEF World
<1>2. q \in Mine(s, t) /\ q \in 1..Len(s) + 1 /\ q \in Nat
  BY <1>1 DEF Mine
<1>3. t # Main /\ s[q].base = 0 /\ \A j \in Mine(s, t) : j >= q
  BY <1>1, <1>2 DEF Stack, FramesOk, ResumesOk
<1>4. Mine(w, t) = Below(s, t, q)
  <2>1. FirstOf(s, w, q)
    BY <1>1, <1>2 DEF FirstOf
  <2>2. QED
    BY <2>1, FirstFrames
<1>5. \A j \in Mine(s, t) : j \in Int
  BY DEF Mine
<1>6. \A j \in Mine(s, t) : ~(j < q)
  BY <1>2, <1>3, <1>5
<1>7. QED
  BY <1>3, <1>4, <1>6 DEF Below

\* luaD_rawrunprotected returns.
LEMMA TryReturnsStep ==
    ASSUME CoInv, TryReturns
    PROVE  World(L', cs', ctl') /\ ctl' = "run"
<1> DEFINE c == L[R].ci
           q == Len(cs)
           f == cs[q]
           w == Front(cs)
           y == IF f.k = "resume" THEN [L[R] EXCEPT !.nny = f.nny, !.nCcalls = Count(f.ncc - 1)]
                ELSE [L[R] EXCEPT !.errfunc = f.errfunc, !.nCcalls = f.ncc]
<1>1. /\ ctl = "run" /\ cs # <<>> /\ f.k \in Tries /\ f.base = Len(c) /\ cs' = w /\ ctl' = "run"
      /\ World(L, cs, "run")
  BY DEF TryReturns, Done, Size, CoInv
<1>2. R \in Threads /\ Runs(cs, R) /\ L \in [Threads -> State] /\ L[R] \in State /\ cs \in Seq(Frames)
  BY <1>1, Here
<1>3. /\ c \in Seq(Infos) /\ Len(c) \in Nat /\ L[R].started /\ L[R].status = "ok"
      /\ ErrOk(c, cs, R, L[R].errfunc, Len(c), Mine(cs, R)) /\ OpenOk(c, L[R].open)
  BY <1>1, <1>2, RunFacts
<1>4. L' = [L EXCEPT ![R] = y]
  BY DEF TryReturns, Last
<1>5. /\ q \in 1..Len(cs) /\ q \in Nat /\ f \in Frames /\ f.t = R /\ w = SubSeq(cs, 1, q - 1)
      /\ \A i \in q..Len(cs) : cs[i].t = R
  <2>1. q \in 1..q /\ f.t = R /\ w = SubSeq(cs, 1, q - 1)
    BY <1>2 DEF Runs, Front
  <2>2. \A i \in q..Len(cs) : i = q
    BY <2>1
  <2>3. QED
    BY <1>2, <2>1, <2>2
<1>6. f.nny \in Int /\ f.errfunc \in Nat /\ f.ncc \in Counts /\ Count(f.ncc - 1) \in Counts
  <2>1. f.nny \in Int /\ f.errfunc \in Nat /\ f.ncc \in Counts
    BY <1>1, <1>5, FrameTypes
  <2>2. f.ncc \in Nat
    BY <2>1, CountTypes
  <2>3. f.ncc - 1 \in Int
    BY <2>2
  <2>4. QED
    BY <2>1, <2>3, CountTypes
<1>7. /\ y \in State /\ y.ci = c /\ y.open = L[R].open
      /\ y.status = "ok" /\ y.started /\ (f.k # "resume" => y.errfunc = f.errfunc)
      /\ f.k = "resume" => y.errfunc = L[R].errfunc
  BY <1>2, <1>3, <1>6 DEF State
<1> HIDE DEF y, c, q, f, w
<1>8. L' \in [Threads -> State] /\ L'[R] = y /\ \A u \in Threads : u # R => L'[u] = L[u]
  BY <1>2, <1>4, <1>7, Updated
<1>9. CASE f.k = "resume"
  <2>1. R # Main /\ Mine(w, R) = {} /\ Len(c) = 0
    BY <1>1, <1>2, <1>5, <1>9, ResumeEnds DEF f
  <2>2. y.errfunc = 0
    BY <1>3, <1>7, <1>9, <2>1 DEF ErrOk
  <2>3. Good(y, w, R, FALSE, FALSE)
    <3>1. Status(y, w, R, FALSE)
      BY <1>7, <2>1 DEF Status
    <3>2. Stack(c, w, R, FALSE) /\ ErrOk(c, w, R, 0, Len(c), Mine(w, R))
      BY <2>1, EmptyStack
    <3>3. QED
      BY <1>3, <1>7, <2>2, <3>1, <3>2 DEF Good
  <2>4. Ends(L, cs, L', w, R, q)
    BY <1>5, <1>8, <2>3 DEF Ends
  <2>5. Waiting(L', w)
    BY <1>1, <1>2, <2>4, EndWaits
  <2>6. QED
    BY <1>1, <2>5, WaitingRuns
<1>10. CASE f.k # "resume"
  <2> DEFINE b == Len(c)
  <2>1. Unwinds(L, cs, L', w, R, q, b) /\ (b > 0 => L'[R].ci[b].stat = L[R].ci[b].stat)
    <3>1. L'[R].ci = L[R].ci /\ b = Len(L[R].ci)
      BY <1>7, <1>8 DEF c
    <3>2. \A i \in L'[R].open : i \in L[R].open /\ i <= b
      BY <1>3, <1>7, <1>8 DEF OpenOk
    <3>3. b = cs[q].base /\ L'[R].errfunc = cs[q].errfunc /\ b \in 0..Len(L[R].ci)
      BY <1>1, <1>3, <1>7, <1>8, <1>10, <3>1 DEF f
    <3>4. QED
      BY <1>5, <3>1, <3>2, <3>3 DEF Unwinds
  <2>2. Stays(L, L', R, "run")
    BY <1>3, <1>7, <1>8 DEF Stays, Modes
  <2> HIDE DEF b
  <2>3. CASE f.k = "pcall"
    <3>1. L'[R].ci[b].stat \in {L[R].ci[b].stat, TRUE}
      BY <1>7, <1>8 DEF c
    <3>2. World(L', w, "run")
      BY <1>1, <1>2, <2>1, <2>2, <2>3, <3>1, PCallEnds DEF f, Caught
    <3>3. QED
      BY <1>1, <3>2
  <2>4. CASE f.k = "host"
    <3>1. Waiting(L', w)
      BY <1>1, <1>2, <2>1, <2>2, <2>4, HostEnds DEF f
    <3>2. QED
      BY <1>1, <3>1, WaitingRuns
  <2>5. QED
    BY <1>1, <1>10, <2>3, <2>4 DEF Tries
<1>11. QED
  BY <1>9, <1>10

-----------------------------------------------------------------------------
(* Errors and yields are caught *)

\* The innermost luaD_rawrunprotected is of the running thread, and all above it.
LEMMA CatcherFacts ==
    ASSUME CoInv, cs # <<>>
    PROVE  /\ Catcher \in 1..Len(cs) /\ Catcher \in Nat /\ cs[Catcher] \in Frames
           /\ cs[Catcher].k \in Tries /\ cs[Catcher].t = R /\ Catcher \in Mine(cs, R)
           /\ \A i \in Catcher..Len(cs) : cs[i].t = R
           /\ \A i \in Catcher + 1..Len(cs) : cs[i].k = "call"
           /\ cs[Catcher].base \in 0..Len(L[R].ci)
<1> DEFINE q == Catcher
<1>2. cs \in Seq(Frames) /\ R = cs[Len(cs)].t /\ R \in Threads /\ Runs(cs, R) /\ World(L, cs, ctl)
  BY Here DEF R, CoInv
<1>1. q \in 1..Len(cs) /\ CatchesAt(cs, Len(cs), q)
  <2>1. q \in 1..Len(cs) /\ (\A i \in q + 1..Len(cs) : cs[i].k = "call")
        /\ (cs[q].t = R => CatchesAt(cs, Len(cs), q))
    BY CatcherCatches DEF CoInv
  <2>2. Len(cs) \in 1..Len(cs)
    BY <1>2, <2>1
  <2>3. PICK m \in 1..Len(cs) : /\ cs[m].k \in Starts /\ cs[m].t = R
                                /\ \A j \in m + 1..Len(cs) : cs[j].t = R
    BY <1>2, <2>2 DEF World, ActGrouped
  <2> HIDE DEF q
  <2>4. m \notin q + 1..Len(cs)
    BY <2>1, <2>3 DEF Starts
  <2>5. q = m \/ q \in m + 1..Len(cs)
    BY <2>1, <2>3, <2>4
  <2>6. QED
    BY <2>1, <2>3, <2>5
<1> HIDE DEF q
<1>3. /\ cs[q].k \in Tries /\ cs[q].t = R
      /\ \A i \in q + 1..Len(cs) : cs[i].k = "call" /\ cs[i].t = R
  BY <1>1, <1>2 DEF CatchesAt
<1>4. q \in Nat /\ Len(cs) \in Nat /\ \A i \in q..Len(cs) : i = q \/ i \in q + 1..Len(cs)
  BY <1>1, <1>2
<1>5. q \in Mine(cs, R) /\ cs[q] \in Frames
  BY <1>1, <1>2, <1>3 DEF Mine
<1>6. cs[q].base \in 0..Len(L[R].ci)
  <2>1. /\ Len(L[R].ci) \in Nat /\ Based(cs, R) /\ FramesOk(L[R].ci, cs, R, ctl # "run")
    BY <1>2, RunnerFacts DEF Stack
  <2>2. cs[q].base \in Nat /\ cs[q].base <= Len(L[R].ci)
    BY <1>3, <1>5, <2>1, BasesBounded
  <2>3. QED
    BY <2>1, <2>2
<1>7. QED
  BY <1>1, <1>3, <1>4, <1>5, <1>6 DEF q

\* A yield reaches the resume of its coroutine.
LEMMA YieldReaches ==
    ASSUME CoInv, cs # <<>>, ctl = "yield"
    PROVE  /\ cs[Catcher].k = "resume" /\ \A p : ~HasPin(cs, R, p) /\ ~HasTry(cs, R, p)
           /\ Len(L[R].ci) > 0 /\ L[R].ci[Len(L[R].ci)].fn = "yield"
<1> DEFINE c == L[R].ci
           q == Catcher
<1>1. R # Main /\ \A p : ~HasPin(cs, R, p)
  BY Unpinned DEF CoInv
<1>2. q \in Mine(cs, R) /\ cs[q].k \in Tries
  BY CatcherFacts
<1> HIDE DEF q
<1>3. /\ Stack(c, cs, R, TRUE) /\ Len(c) \in Nat /\ Len(c) # 0 /\ c[Len(c)].fn = "yield"
  <2>1. R \in Threads /\ Runs(cs, R) /\ World(L, cs, "yield")
    BY Here DEF CoInv
  <2>2. /\ Stack(L[R].ci, cs, R, "yield" # "run") /\ Len(L[R].ci) \in Nat /\ Len(L[R].ci) # 0
        /\ L[R].ci[Len(L[R].ci)].fn = "yield"
    BY <2>1, RunnerFacts
  <2>3. QED
    BY <2>2
<1>4. \A j \in Mine(cs, R) : cs[j].k # "pcall" /\ cs[j].k # "host"
  BY <1>1, <1>3 DEF Stack, FramesOk, PCallsOk, HostsOk, Protected
<1>5. QED
  BY <1>1, <1>2, <1>3, <1>4 DEF HasTry, Tries, q

\* The first calls of a thread.
LEMMA FirstCalls ==
    ASSUME NEW c \in Seq(Infos), NEW b \in 0..Len(c), NEW open \in SUBSET Nat
    PROVE  /\ SubSeq(c, 1, b) \in Seq(Infos) /\ Len(SubSeq(c, 1, b)) = b
           /\ \A i \in 1..b : SubSeq(c, 1, b)[i] = c[i]
           /\ Closed(open, b) \in SUBSET Nat /\ \A i \in Closed(open, b) : i \in open /\ i <= b
BY CutFacts DEF Closed

\* The protected call is marked with the error it has caught.
LEMMA MarkedInfo ==
    ASSUME NEW d \in Seq(Infos), NEW b, b = Len(d), b > 0
    PROVE  LET e == [d EXCEPT ![b].stat = TRUE]
           IN /\ e \in Seq(Infos) /\ Len(e) = b /\ e[b].stat
              /\ \A i \in 1..b : /\ e[i] = d[i] \/ i = b
                                 /\ e[i].fn = d[i].fn /\ e[i].reentry = d[i].reentry
                                 /\ e[i].ypcall = d[i].ypcall /\ e[i].h = d[i].h
<1> DEFINE g == [d[b] EXCEPT !.stat = TRUE]
           e == [d EXCEPT ![b] = g]
<1>1. b \in 1..Len(d) /\ d[b] \in Infos
  OBVIOUS
<1>2. /\ g \in Infos /\ g.fn = d[b].fn /\ g.reentry = d[b].reentry
      /\ g.ypcall = d[b].ypcall /\ g.h = d[b].h /\ g.stat
  BY <1>1 DEF Infos
<1>3. [d EXCEPT ![b].stat = TRUE] = e
  OBVIOUS
<1> HIDE DEF g
<1>4. e \in Seq(Infos) /\ Len(e) = b /\ e[b] = g /\ \A i \in 1..b : i # b => e[i] = d[i]
  BY <1>1, <1>2
<1> HIDE DEF e
<1>5. QED
  BY <1>2, <1>3, <1>4

\* luaD_pcall after an error.
LEMMA CatchPCallStep ==
    ASSUME CoInv, CatchPCall, ctl' # "raisemain"
    PROVE  World(L', cs', ctl') /\ ctl' # "yield"
<1> DEFINE c == L[R].ci
           q == Catcher
           f == cs[q]
           b == f.base
           d == SubSeq(c, 1, b)
           o == Closed(L[R].open, b)
           w == SubSeq(cs, 1, q - 1)
           y == [L[R] EXCEPT !.ci = d, !.nny = f.nny, !.errfunc = f.errfunc, !.nCcalls = f.ncc,
                             !.open = o]
           l == [L EXCEPT ![R] = y]
<1>1. /\ ctl \in {"error", "yield"} /\ f.k \in {"pcall", "host"}
      /\ IF f.k = "host" THEN Fail(l, w)
         ELSE L' = [l EXCEPT ![R].ci[b].stat = TRUE] /\ cs' = w /\ ctl' = "run"
  BY DEF CatchPCall, PCallFails
<1>2. World(L, cs, ctl) /\ cs # <<>>
  BY <1>1 DEF CoInv, World
<1>3. R \in Threads /\ Runs(cs, R) /\ L \in [Threads -> State] /\ L[R] \in State /\ c \in Seq(Infos)
  BY <1>2, Here
<1>4. ctl # "yield"
  BY <1>1, <1>2, YieldReaches
<1>5. /\ L[R].started /\ L[R].status = "ok" /\ Stack(c, cs, R, ctl # "run")
  BY <1>2, <1>3, <1>4, RunnerFacts
<1>6. /\ q \in 1..Len(cs) /\ f \in Frames /\ f.k \in Tries /\ q \in Mine(cs, R)
      /\ \A i \in q..Len(cs) : cs[i].t = R
      /\ b \in 0..Len(c)
  BY <1>2, CatcherFacts
<1> HIDE DEF q
<1>7. f.nny \in Int /\ f.errfunc \in Nat /\ f.ncc \in Counts /\ b \in Nat
  BY <1>6, FrameTypes
<1>8. /\ d \in Seq(Infos) /\ Len(d) = b /\ (\A i \in 1..b : d[i] = c[i])
      /\ o \in SUBSET Nat /\ \A i \in o : i \in L[R].open /\ i <= b
  <2>1. L[R].open \in SUBSET Nat
    BY <1>3 DEF State
  <2>2. QED
    BY <1>3, <1>6, <2>1, FirstCalls
<1> HIDE DEF d, o
<1>9. /\ y \in State /\ y.ci = d /\ y.errfunc = f.errfunc /\ y.open = o
      /\ y.status = "ok" /\ y.started
  BY <1>3, <1>5, <1>7, <1>8 DEF State
<1> HIDE DEF y, f, w
<1>10. l \in [Threads -> State] /\ l[R] = y /\ \A u \in Threads : u # R => l[u] = L[u]
  BY <1>3, <1>9, Updated
<1>11. CASE f.k = "host"
  <2>1. Fail(l, w)
    BY <1>1, <1>11
  <2> HIDE DEF l
  <2>2. Unwinds(L, cs, l, w, R, q, b) /\ (b > 0 => l[R].ci[b].stat = L[R].ci[b].stat)
    <3>1. l[R].ci = d /\ L[R].ci = c
      BY <1>9, <1>10
    <3>2. b > 0 => b \in 1..b
      BY <1>7
    <3>3. QED
      BY <1>6, <1>8, <1>9, <1>10, <3>1, <3>2 DEF Unwinds, f, w
  <2>3. Stays(L, l, R, "run")
    BY <1>5, <1>9, <1>10 DEF Stays, Modes
  <2> HIDE DEF b
  <2>4. Waiting(l, w)
    BY <1>2, <1>3, <1>11, <2>2, <2>3, HostEnds DEF f
  <2>5. QED
    BY <2>1, <2>4, FailWorld
<1>12. CASE f.k # "host"
  <2> DEFINE g == [d EXCEPT ![b].stat = TRUE]
             z == [y EXCEPT !.ci = g]
  <2>1. f.k = "pcall" /\ L' = [l EXCEPT ![R].ci[b].stat = TRUE] /\ cs' = w /\ ctl' = "run"
    BY <1>1, <1>12
  <2>2. b > 0
    <3>1. cs[q].base \in 1..Len(c)
      BY <1>5, <1>6, <2>1 DEF Stack, FramesOk, PCallsOk, f
    <3>2. QED
      BY <3>1 DEF f
  <2> HIDE DEF l, b
  <2>3. L' = [l EXCEPT ![R] = z]
    BY <1>9, <1>10, <2>1
  <2>4. /\ g \in Seq(Infos) /\ Len(g) = b /\ g[b].stat
        /\ \A i \in 1..b : /\ g[i] = d[i] \/ i = b
                           /\ g[i].fn = d[i].fn /\ g[i].reentry = d[i].reentry
                           /\ g[i].ypcall = d[i].ypcall /\ g[i].h = d[i].h
    BY <1>8, <2>2, MarkedInfo
  <2> HIDE DEF g
  <2>5. /\ z \in State /\ z.ci = g /\ z.errfunc = f.errfunc /\ z.open = o
        /\ z.status = "ok" /\ z.started
    BY <1>9, <2>4 DEF State
  <2> HIDE DEF z
  <2>6. L' \in [Threads -> State] /\ L'[R] = z /\ \A u \in Threads : u # R => L'[u] = L[u]
    <3>1. L' \in [Threads -> State] /\ L'[R] = z /\ \A u \in Threads : u # R => L'[u] = l[u]
      BY <1>3, <1>10, <2>3, <2>5, Updated
    <3>2. QED
      BY <1>10, <3>1
  <2>7. Unwinds(L, cs, L', w, R, q, b) /\ L'[R].ci[b].stat \in {L[R].ci[b].stat, TRUE}
    <3>1. L'[R].ci = g /\ L[R].ci = c /\ b = cs[q].base
      BY <2>5, <2>6 DEF b, f
    <3>2. b \in 0..Len(c)
      BY <1>6 DEF b
    <3>3. g[b].stat \in BOOLEAN
      <4>1. b \in 1..Len(g)
        BY <1>7, <2>2, <2>4 DEF b
      <4>2. g[b] \in Infos
        BY <2>4, <4>1
      <4>3. QED
        BY <4>2 DEF Infos
    <3>4. g[b].stat = TRUE
      BY <2>4, <3>3, Zenon
    <3>5. L'[R].ci[b].stat \in {L[R].ci[b].stat, TRUE}
      BY <3>1, <3>4
    <3>6. \A i \in 1..b : /\ g[i] = c[i] \/ i = b
                         /\ g[i].fn = c[i].fn /\ g[i].reentry = c[i].reentry
                         /\ g[i].ypcall = c[i].ypcall /\ g[i].h = c[i].h
      <4>1. \A i \in 1..b : d[i] = c[i]
        BY <1>8 DEF b
      <4> HIDE DEF c
      <4>2. QED
        BY <2>4, <4>1
    <3>7. /\ q \in 1..Len(cs) /\ w = SubSeq(cs, 1, q - 1) /\ \A i \in q..Len(cs) : cs[i].t = R
          /\ L'[R].errfunc = cs[q].errfunc /\ Len(L'[R].ci) = b
          /\ \A i \in L'[R].open : i \in L[R].open /\ i <= b
      BY <1>6, <1>8, <2>4, <2>5, <2>6, <3>1 DEF w, f, b
    <3>8. Unwinds(L, cs, L', w, R, q, b)
      BY <3>1, <3>2, <3>6, <3>7 DEF Unwinds
    <3>9. QED
      BY <3>5, <3>8
  <2>8. Stays(L, L', R, "run")
    BY <1>5, <2>5, <2>6 DEF Stays, Modes
  <2>9. World(L', w, "run")
    BY <1>2, <1>3, <2>1, <2>7, <2>8, PCallEnds DEF f, Caught
  <2>10. QED
    BY <2>1, <2>9
<1>13. QED
  BY <1>11, <1>12

\* A coroutine that nothing in it protects is dead.
LEMMA DiesStep ==
    ASSUME CoInv, Dies, ctl' # "raisemain"
    PROVE  World(L', cs', ctl') /\ ctl' # "yield"
<1> DEFINE q == Catcher
           f == cs[q]
           n == Count(f.ncc - 1)
           w == SubSeq(cs, 1, q - 1)
           y == [L[R] EXCEPT !.status = "error", !.nny = f.nny, !.nCcalls = n]
           l == [L EXCEPT ![R] = y]
<1>1. /\ ctl = "error" /\ f.k = "resume"
      /\ Fail([L EXCEPT ![R].status = "error", ![R].nny = f.nny, ![R].nCcalls = n], w)
  BY DEF Dies
<1>2. World(L, cs, ctl) /\ cs # <<>>
  BY <1>1 DEF CoInv, World
<1>3. R \in Threads /\ Runs(cs, R) /\ L \in [Threads -> State] /\ L[R] \in State
  BY <1>2, Here
<1>4. L[R].started
  BY <1>2, <1>3, RunnerFacts
<1>5. /\ q \in 1..Len(cs) /\ f \in Frames /\ f.k \in Tries /\ f.t = R
      /\ \A i \in q..Len(cs) : cs[i].t = R
  BY <1>2, CatcherFacts
<1> HIDE DEF q
<1>6. f.nny \in Int /\ n \in Counts
  <2>1. f.nny \in Int /\ f.ncc \in Counts
    BY <1>5, FrameTypes
  <2> HIDE DEF f
  <2>2. f.ncc \in Nat
    BY <2>1, CountTypes
  <2>3. f.ncc - 1 \in Int
    BY <2>2
  <2>4. QED
    BY <2>1, <2>3, CountTypes
<1> HIDE DEF n, f
<1>7. y \in State /\ y.status = "error" /\ y.started
  BY <1>3, <1>4, <1>6 DEF State
<1>8. [L EXCEPT ![R].status = "error", ![R].nny = f.nny, ![R].nCcalls = n] = l
  BY <1>3
<1>9. Fail(l, w)
  BY <1>1, <1>8
<1> HIDE DEF w, y
<1>10. l \in [Threads -> State] /\ l[R] = y /\ \A u \in Threads : u # R => l[u] = L[u]
  BY <1>3, <1>7, Updated
<1> HIDE DEF l
<1>11. R # Main /\ Mine(w, R) = {}
  BY <1>1, <1>2, <1>3, <1>5, ResumeEnds DEF f, w
<1>12. Good(y, w, R, FALSE, FALSE)
  BY <1>7, <1>11 DEF Good, Status
<1>13. Ends(L, cs, l, w, R, q)
  BY <1>5, <1>10, <1>12 DEF Ends, w
<1>14. Waiting(l, w)
  BY <1>2, <1>3, <1>13, EndWaits
<1>15. QED
  BY <1>9, <1>14, FailWorld

\* Of the frames of a coroutine only that of its resume may remain.
DropsTo(c, s, w, t) ==
    /\ Len(c) \in Nat /\ Mine(w, t) \subseteq Mine(s, t)
    /\ \A i \in Mine(w, t) : w[i] = s[i] /\ s[i].k = "resume"
    /\ \A q : ~HasTry(s, t, q) /\ ~HasPin(s, t, q)

\* With no other frame of the thread gone than luaD_calls, its calls stand.
LEMMA DropStack ==
    ASSUME NEW c, NEW s, NEW w, NEW t, DropsTo(c, s, w, t), NEW u, Stack(c, s, t, u),
           Len(c) > 0 => c[Len(c)].fn # "raise"
    PROVE  /\ Stack(c, w, t, FALSE)
           /\ \A e, n, F : ErrOk(c, s, t, e, n, F) => ErrOk(c, w, t, e, n, Mine(w, t))
<1>1. \A q : ~HasTry(w, t, q) /\ ~HasPin(w, t, q)
  BY DEF DropsTo, HasTry, HasPin
<1>2. \A i \in Mine(w, t) : w[i].k = "resume"
  BY DEF DropsTo
<1>3. InfosOk(c, t, FALSE)
  <2>1. OnLua(c) /\ Flagged(c) /\ StatOnTop(c, FALSE) /\ HostOnTop(c, t, FALSE)
    BY DEF Stack, InfosOk, StatOnTop, HostOnTop
  <2>2. RaiseOnTop(c, FALSE)
    <3>1. \A i \in 1..Len(c) : c[i].fn = "raise" => i # Len(c) /\ c[i + 1].fn = "handler"
      BY DEF Stack, InfosOk, RaiseOnTop, DropsTo
    <3>2. QED
      BY <3>1 DEF RaiseOnTop
  <2>3. QED
    BY <2>1, <2>2 DEF InfosOk
<1>4. FramesOk(c, w, t, FALSE)
  <2>1. ResumesOk(w, t)
    BY DEF Stack, FramesOk, ResumesOk, DropsTo
  <2>2. QED
    BY <1>2, <2>1 DEF FramesOk, CallsOk, PCallsOk, HostsOk
<1>5. Ascending(w, t) /\ Repeated(c, w, t) /\ SavedOk(c, w, t)
  <2>1. Ascending(w, t)
    BY DEF Stack, Ascending, DropsTo
  <2>2. QED
    BY <1>2, <2>1 DEF Repeated, SavedOk
<1>6. Owned(c, w, t, FALSE)
  <2>1. CallsOwned(c, w, t)
    BY <1>2 DEF CallsOwned
  <2>2. Guarded(c, w, t, FALSE)
    BY DEF Stack, Owned, Guarded, DropsTo
  <2>3. PinsOwned(c, w, t)
    BY DEF Stack, Owned, PinsOwned, DropsTo
  <2>4. Yieldable(c, w, t)
    BY <1>1 DEF Stack, Owned, Yieldable
  <2>5. QED
    BY <2>1, <2>2, <2>3, <2>4 DEF Owned
<1>7. ASSUME NEW e, NEW n, NEW F, ErrOk(c, s, t, e, n, F)
      PROVE  ErrOk(c, w, t, e, n, Mine(w, t))
  <2>1. \A i : Guard(c, s, t, i) <=> Guard(c, w, t, i)
    BY <1>1 DEF Guard, DropsTo
  <2>2. QED
    BY <1>2, <1>7, <2>1 DEF ErrOk
<1>8. MarkedOk(c, w, t)
  BY <1>7 DEF Stack, MarkedOk
<1>9. QED
  BY <1>3, <1>4, <1>5, <1>6, <1>7, <1>8 DEF Stack

\* lua_resume after a yield.
LEMMA CatchYieldStep ==
    ASSUME CoInv, CatchYield
    PROVE  World(L', cs', ctl') /\ ctl' = "run"
<1> DEFINE q == Catcher
           f == cs[q]
           n == Count(f.ncc - 1)
           w == SubSeq(cs, 1, q - 1)
           c == L[R].ci
           y == [L[R] EXCEPT !.nny = f.nny, !.nCcalls = n]
<1>1. /\ ctl = "yield" /\ f.k = "resume" /\ cs' = w /\ ctl' = "run"
      /\ L' = [L EXCEPT ![R].nny = f.nny, ![R].nCcalls = n]
  BY DEF CatchYield
<1>2. World(L, cs, ctl) /\ cs # <<>>
  BY <1>1 DEF CoInv, World
<1>3. R \in Threads /\ Runs(cs, R) /\ L \in [Threads -> State] /\ L[R] \in State /\ c \in Seq(Infos)
  BY <1>2, Here
<1>4. /\ L[R].started /\ L[R].status = "yield" /\ Stack(c, cs, R, ctl # "run")
      /\ ErrOk(c, cs, R, L[R].errfunc, Len(c), Mine(cs, R)) /\ OpenOk(c, L[R].open)
  BY <1>1, <1>2, <1>3, RunnerFacts
<1>5. /\ q \in 1..Len(cs) /\ f \in Frames /\ f.k \in Tries /\ f.t = R
      /\ \A i \in q..Len(cs) : cs[i].t = R
  BY <1>2, CatcherFacts
<1> HIDE DEF q
<1>6. f.nny \in Int /\ n \in Counts
  <2>1. f.nny \in Int /\ f.ncc \in Counts
    BY <1>5, FrameTypes
  <2> HIDE DEF f
  <2>2. f.ncc \in Nat
    BY <2>1, CountTypes
  <2>3. f.ncc - 1 \in Int
    BY <2>2
  <2>4. QED
    BY <2>1, <2>3, CountTypes
<1> HIDE DEF n, f, w
<1>7. /\ y \in State /\ y.ci = c /\ y.errfunc = L[R].errfunc /\ y.open = L[R].open
      /\ y.status = "yield" /\ y.started
  BY <1>3, <1>4, <1>6 DEF State
<1>8. L' = [L EXCEPT ![R] = y]
  BY <1>1, <1>3
<1> HIDE DEF y
<1>9. L' \in [Threads -> State] /\ L'[R] = y /\ \A u \in Threads : u # R => L'[u] = L[u]
  BY <1>3, <1>7, <1>8, Updated
<1>10. R # Main /\ Mine(w, R) = {}
  BY <1>1, <1>2, <1>3, <1>5, ResumeEnds DEF f, w
<1>11. /\ \A p : ~HasPin(cs, R, p) /\ ~HasTry(cs, R, p)
       /\ Len(c) > 0 /\ c[Len(c)].fn = "yield"
  BY <1>1, <1>2, YieldReaches
<1> HIDE DEF c
<1>12. DropsTo(c, cs, w, R)
  BY <1>3, <1>10, <1>11 DEF DropsTo
<1>13. /\ Stack(c, w, R, FALSE)
       /\ \A e, k, F : ErrOk(c, cs, R, e, k, F) => ErrOk(c, w, R, e, k, Mine(w, R))
  BY <1>4, <1>11, <1>12, DropStack
<1>14. Good(y, w, R, FALSE, FALSE)
  <2>1. Status(y, w, R, FALSE)
    BY <1>7, <1>10, <1>11 DEF Status
  <2>2. QED
    BY <1>4, <1>7, <1>13, <2>1 DEF Good
<1>15. Ends(L, cs, L', w, R, q)
  BY <1>5, <1>9, <1>14 DEF Ends, w
<1>16. Waiting(L', w)
  BY <1>2, <1>3, <1>15, EndWaits
<1>17. QED
  BY <1>1, <1>16, WaitingRuns

\* A set of numbers up to a bound has a least and a greatest element.
LEMMA Least ==
    ASSUME NEW S \in SUBSET Nat, S # {}
    PROVE  \E m \in S : \A k \in S : m <= k
<1> DEFINE lt == OpToRel(<, Nat)
<1>1. IsWellFoundedOn(lt, Nat)
  BY NatLessThanWellFounded
<1>2. \A a, b \in Nat : a < b => <<a, b>> \in lt
  BY Zenon DEF OpToRel
<1> HIDE DEF lt
<1>3. \E m \in S : \A k \in S : ~(<<k, m>> \in lt)
  BY <1>1, WFMin
<1>4. \E m \in S : \A k \in S : ~(k < m)
  BY <1>2, <1>3
<1>5. QED
  BY <1>4

\* Max is the greatest element.
LEMMA Greatest ==
    ASSUME NEW n \in Nat, NEW S \in SUBSET (1..n), S # {}
    PROVE  Max(S) \in S /\ \A i \in S : i <= Max(S)
<1> DEFINE T == {n - i : i \in S}
<1>1. T \in SUBSET Nat /\ T # {}
  <2>1. \A i \in 1..n : n - i \in Nat
    OBVIOUS
  <2>2. \A i \in S : n - i \in Nat
    BY <2>1
  <2>3. QED
    BY <2>2
<1>2. PICK m \in T : \A k \in T : m <= k
  BY <1>1, Least
<1>3. PICK a \in S : m = n - a
  BY <1>2
<1>4. \A i \in S : n - a <= n - i /\ i \in 1..n
  BY <1>2, <1>3
<1>5. \A i \in S : a >= i
  BY <1>3, <1>4
<1>6. \E x \in S : \A y \in S : x >= y
  BY <1>5
<1>7. Max(S) \in S /\ \A y \in S : Max(S) >= y
  BY <1>6 DEF Max
<1>8. QED
  BY <1>7

\* The frames of a thread that stand below its p-th call are the first ones.
LEMMA FramesBelow ==
    ASSUME NEW s \in Seq(Frames), NEW t, NEW p \in Nat, Ascending(s, t)
    PROVE  \E m \in 1..Len(s) + 1 : \A i \in Mine(s, t) : i < m <=> s[i].base < p
<1> DEFINE S == {i \in Mine(s, t) : s[i].base >= p} \cup {Len(s) + 1}
<1>1. /\ Len(s) \in Nat
      /\ \A i \in Mine(s, t) : i \in 1..Len(s) /\ i \in Nat /\ s[i].base \in Nat
  <2>1. Based(s, t) /\ Len(s) \in Nat
    BY StackTypes
  <2>2. QED
    BY <2>1 DEF Based, Mine
<1>2. PICK m \in S : \A k \in S : m <= k
  <2>1. \A i \in S : i \in Nat
    BY <1>1
  <2>2. S \in SUBSET Nat /\ S # {}
    BY <2>1
  <2> HIDE DEF S
  <2>3. QED
    BY <2>2, Least
<1>3. m \in Nat /\ m \in 1..Len(s) + 1
  <2>1. m = Len(s) + 1 \/ m \in 1..Len(s)
    BY <1>1
  <2>2. QED
    BY <1>1, <2>1
<1>4. ASSUME NEW i \in Mine(s, t), i < m
      PROVE  s[i].base < p
  <2>1. i \in Nat /\ s[i].base \in Nat
    BY <1>1
  <2>2. ~(m <= i)
    BY <1>3, <1>4, <2>1
  <2>3. i \notin S
    BY <1>2, <2>2
  <2>4. ~(s[i].base >= p)
    BY <2>3
  <2>5. QED
    BY <2>1, <2>4
<1>5. ASSUME NEW i \in Mine(s, t), ~(i < m)
      PROVE  ~(s[i].base < p)
  <2>1. i \in Nat /\ i \in 1..Len(s) /\ s[i].base \in Nat
    BY <1>1
  <2>2. m # Len(s) + 1
    BY <1>1, <1>5, <2>1
  <2>3. m \in Mine(s, t) /\ s[m].base >= p /\ s[m].base \in Nat
    BY <1>1, <2>2
  <2> HIDE DEF S
  <2>4. i = m \/ m < i
    BY <1>3, <1>5, <2>1
  <2>5. m < i => s[m].base <= s[i].base
    BY <2>3 DEF Ascending
  <2>6. s[m].base <= s[i].base
    BY <2>3, <2>4, <2>5
  <2>7. QED
    BY <2>1, <2>3, <2>6
<1> HIDE DEF S
<1>6. \A i \in Mine(s, t) : i < m <=> s[i].base < p
  BY <1>4, <1>5
<1>7. QED
  BY <1>3, <1>6

\* The C stack is cut above the frame q of the resume of t.
ResumeAt(s, w, t, q) == /\ s \in Seq(Frames) /\ q \in 1..Len(s) /\ s[q].t = t
                        /\ s[q].k = "resume" /\ w = SubSeq(s, 1, q)
\* The calls d that remain where 'recover' goes back to the marked call p.
Recovers(c, d, s, w, t, p, q) ==
    /\ ResumeAt(s, w, t, q)
    /\ Len(c) \in Nat /\ p \in 1..Len(c) /\ c[p].ypcall /\ Len(d) = p
    /\ \A i \in 1..p : /\ d[i] = c[i] \/ i = p
                       /\ d[i].fn = c[i].fn /\ d[i].reentry = c[i].reentry
                       /\ d[i].ypcall = c[i].ypcall /\ d[i].h = c[i].h
    /\ d[p].stat

\* Of the thread only the frame of the resume is left.
LEMMA ResumeLeft ==
    ASSUME NEW s, NEW w, NEW t, NEW q, ResumeAt(s, w, t, q), ResumesOk(s, t)
    PROVE  /\ q \in Mine(s, t) /\ s[q].base = 0 /\ t # Main
           /\ Mine(w, t) = {q} /\ w[q] = s[q]
<1>1. q \in Nat /\ Len(s) \in Nat /\ q <= Len(s) /\ q > 0 /\ \A i \in Mine(s, t) : i \in Nat
  BY DEF Mine, ResumeAt
<1>2. q \in Mine(s, t) /\ s[q].k = "resume"
  BY DEF Mine, ResumeAt
<1>3. s[q].base = 0 /\ t # Main /\ \A j \in Mine(s, t) : j >= q
  BY <1>2 DEF ResumesOk
<1> DEFINE k == q + 1
<1>4. FirstOf(s, w, k)
  <2>1. k \in 1..Len(s) + 1 /\ k - 1 = q
    BY <1>1
  <2>2. QED
    BY <2>1 DEF FirstOf, ResumeAt
<1>5. \A i \in Mine(s, t) : i < k <=> i = q
  <2>1. \A i \in Nat : i >= q => (i < k <=> i = q)
    BY <1>1
  <2>2. QED
    BY <1>1, <1>3, <2>1
<1> HIDE DEF k
<1>6. Mine(w, t) = Below(s, t, k) /\ \A i \in Mine(w, t) : w[i] = s[i]
  BY <1>4, FirstFrames
<1>7. Mine(w, t) = {q}
  BY <1>2, <1>5, <1>6 DEF Below
<1>8. QED
  BY <1>2, <1>3, <1>6, <1>7

\* The calls up to the marked one fit to the frame of the resume: a frame of the
\* coroutine can only stand above the marked call, or be a luaD_call that can be
\* yielded across.
LEMMA RecoverStack ==
    ASSUME NEW c, NEW d, NEW s, NEW w, NEW t, NEW p, NEW q, Recovers(c, d, s, w, t, p, q),
           NEW u, Stack(c, s, t, u)
    PROVE  Stack(d, w, t, FALSE) /\ ErrOk(d, w, t, c[p].h, Len(d), Mine(w, t))
<1>1. /\ Len(c) \in Nat /\ p \in 1..Len(c) /\ c[p].ypcall /\ Len(d) = p /\ d[p].stat
      /\ s \in Seq(Frames) /\ s[q].k = "resume" /\ ResumeAt(s, w, t, q)
      /\ \A i \in 1..p : /\ d[i] = c[i] \/ i = p
                         /\ d[i].fn = c[i].fn /\ d[i].reentry = c[i].reentry
                         /\ d[i].ypcall = c[i].ypcall /\ d[i].h = c[i].h
  BY DEF Recovers, ResumeAt
<1>2. p \in Nat /\ p > 0 /\ p \in 0..Len(c) /\ p - 1 \in Int /\ p - 1 < p
  BY <1>1
<1>3. /\ Based(s, t) /\ \A i \in Mine(s, t) : s[i].base \in Nat
  <2>1. Based(s, t)
    BY <1>1, StackTypes
  <2>2. QED
    BY <2>1 DEF Based
<1>4. q \in Mine(s, t) /\ s[q].base = 0 /\ Mine(w, t) = {q} /\ w[q] = s[q]
  <2>1. ResumesOk(s, t)
    BY DEF Stack, FramesOk
  <2>2. QED
    BY <1>1, <2>1, ResumeLeft
<1>5. c[p].fn \in Protected
  BY <1>1 DEF Stack, InfosOk, Flagged
<1>6. \A r \in 0..p - 1 : ~HasTry(s, t, r) /\ ~HasPin(s, t, r)
  BY <1>1 DEF Stack, Owned, Yieldable
<1>7. PICK m \in 1..Len(s) + 1 : \A i \in Mine(s, t) : i < m <=> s[i].base < p
  <2>1. Ascending(s, t)
    BY DEF Stack
  <2>2. QED
    BY <1>1, <1>2, <2>1, FramesBelow
<1>8. m \in Nat
  BY <1>1, <1>7
<1> DEFINE v == SubSeq(s, 1, m - 1)
<1>9. Mine(v, t) = Below(s, t, m) /\ \A i \in Mine(v, t) : v[i] = s[i]
  <2>1. FirstOf(s, v, m)
    BY <1>1, <1>7 DEF FirstOf
  <2> HIDE DEF v
  <2>2. QED
    BY <2>1, FirstFrames
<1> HIDE DEF v
<1>10. \A i \in Mine(v, t) : i \in Mine(s, t) /\ s[i].base < p
  BY <1>7, <1>9 DEF Below
<1>11. \A i \in Mine(v, t) : s[i].base <= p /\ s[i].base # p /\ s[i].base \in 0..p - 1
  <2>1. \A b \in Nat : b < p => b <= p /\ b # p /\ b \in 0..p - 1
    BY <1>2
  <2>2. QED
    BY <1>3, <1>10, <2>1
<1>12. \A i \in Mine(s, t) : i >= m => s[i].base >= p
  <2>1. \A i \in Mine(s, t) : i \in Nat
    BY <1>1 DEF Mine
  <2>2. \A i \in Mine(s, t) : i >= m => ~(s[i].base < p)
    BY <1>7, <1>8, <2>1
  <2>3. QED
    BY <1>2, <1>3, <2>2
<1>13. Cut(c, d, s, v, t, p, m)
  BY <1>1, <1>2, <1>9 DEF Cut
<1>14. CutsAll(c, d, s, v, t, FALSE, p, m)
  <2>1. ~HasTry(v, t, p)
    BY <1>9, <1>11 DEF HasTry
  <2>2. c[p].fn # "raise"
    BY <1>5 DEF Protected
  <2>3. QED
    BY <1>1, <1>5, <1>10, <1>11, <1>12, <2>1, <2>2 DEF CutsAll
<1>15. Stack(d, v, t, FALSE)
  BY <1>3, <1>8, <1>13, <1>14, CutStack
<1>16. DropsTo(d, v, w, t)
  <2>1. q \in Mine(v, t)
    <3>1. s[q].base < p
      BY <1>2, <1>4
    <3>2. QED
      BY <1>4, <1>7, <1>9, <3>1 DEF Below
  <2>2. ASSUME NEW r
        PROVE  ~HasTry(v, t, r) /\ ~HasPin(v, t, r)
    <3>1. HasTry(v, t, r) => HasTry(s, t, r) /\ r \in 0..p - 1
      BY <1>9, <1>10, <1>11 DEF HasTry
    <3>2. HasPin(v, t, r) => HasPin(s, t, r) /\ r \in 0..p - 1
      BY <1>9, <1>10, <1>11 DEF HasPin
    <3>3. QED
      BY <1>6, <3>1, <3>2
  <2>3. v[q] = s[q]
    BY <1>9, <2>1
  <2>4. QED
    BY <1>1, <1>2, <1>4, <2>1, <2>2, <2>3 DEF DropsTo
<1>17. Len(d) > 0 => d[Len(d)].fn # "raise"
  BY <1>1, <1>2, <1>5 DEF Protected
<1>18. /\ Stack(d, w, t, FALSE)
       /\ \A e, n, F : ErrOk(d, v, t, e, n, F) => ErrOk(d, w, t, e, n, Mine(w, t))
  BY <1>15, <1>16, <1>17, DropStack
<1>19. ErrOk(d, w, t, c[p].h, Len(d), Mine(w, t))
  <2> DEFINE n == p - 1
             e == c[p].h
  <2>1. ErrOk(c, s, t, e, n, Mine(s, t))
    BY <1>1 DEF Stack, MarkedOk
  <2>2. n \in Int /\ n < p
    BY <1>2
  <2> HIDE DEF n, e
  <2>3. Mine(v, t) \subseteq Mine(s, t) /\ Mine(v, t) \subseteq Mine(v, t)
    BY <1>10
  <2>4. ErrOk(d, v, t, e, n, Mine(v, t))
    BY <1>3, <1>8, <1>13, <1>14, <2>1, <2>2, <2>3, CutErr
  <2>5. ErrOk(d, w, t, e, n, Mine(w, t))
    BY <1>18, <2>4
  <2>6. ~Guard(d, w, t, p)
    BY <1>1 DEF Guard
  <2>7. QED
    BY <1>1, <1>2, <2>5, <2>6, ErrDrop DEF n, e
<1>20. QED
  BY <1>18, <1>19

\* What recover sets.
Recovery(x, y, d, e, n, o) ==
    /\ x \in State /\ d \in Seq(Infos) /\ e \in Nat /\ n \in Counts /\ o \in SUBSET Nat
    /\ y = [x EXCEPT !.ci = d, !.nny = 0, !.errfunc = e, !.nCcalls = n, !.open = o]
LEMMA RecoveredState ==
    ASSUME NEW x, NEW y, NEW d, NEW e, NEW n, NEW o, Recovery(x, y, d, e, n, o)
    PROVE  /\ y \in State /\ y.ci = d /\ y.errfunc = e /\ y.open = o
           /\ y.status = x.status /\ y.started = x.started
<1> DEFINE a == [x EXCEPT !.ci = d]
           b == [a EXCEPT !.nny = 0]
           g == [b EXCEPT !.errfunc = e]
           h == [g EXCEPT !.nCcalls = n]
<1>1. a \in State /\ a.ci = d /\ a.status = x.status /\ a.started = x.started
  BY DEF State, Recovery
<1>2. y = [h EXCEPT !.open = o] /\ e \in Nat /\ n \in Counts /\ o \in SUBSET Nat
  BY DEF Recovery
<1> HIDE DEF a
<1>3. b \in State /\ b.ci = d /\ b.status = x.status /\ b.started = x.started
  BY <1>1 DEF State
<1> HIDE DEF b
<1>4. g \in State /\ g.ci = d /\ g.errfunc = e /\ g.status = x.status /\ g.started = x.started
  BY <1>2, <1>3 DEF State
<1> HIDE DEF g
<1>5. h \in State /\ h.ci = d /\ h.errfunc = e /\ h.status = x.status /\ h.started = x.started
  BY <1>2, <1>4 DEF State
<1> HIDE DEF h
<1>6. QED
  BY <1>2, <1>5 DEF State

\* lua_resume after an error that a marked call of the coroutine catches.
LEMMA RecoverStep ==
    ASSUME CoInv, Recover
    PROVE  World(L', cs', ctl') /\ ctl' = "run"
<1> DEFINE q == Catcher
           f == cs[q]
           w == SubSeq(cs, 1, q)
           c == L[R].ci
           p == Max(Marked(R))
           g == SubSeq(c, 1, p)
           d == [g EXCEPT ![p].stat = TRUE]
           o == Closed(L[R].open, p)
           y == [L[R] EXCEPT !.ci = d, !.nny = 0, !.errfunc = c[p].h, !.nCcalls = f.ncc, !.open = o]
<1>1. /\ ctl = "error" /\ f.k = "resume" /\ cs' = w /\ ctl' = "run" /\ Marked(R) # {}
      /\ L' = [L EXCEPT ![R] = Recovered(L[R], p, f.ncc)]
  BY DEF Recover
<1>2. World(L, cs, ctl) /\ cs # <<>>
  BY <1>1 DEF CoInv, World
<1>3. /\ R \in Threads /\ Runs(cs, R) /\ L \in [Threads -> State] /\ L[R] \in State
      /\ c \in Seq(Infos) /\ cs \in Seq(Frames) /\ Len(c) \in Nat
  BY <1>2, Here
<1>4. /\ L[R].started /\ L[R].status = "ok" /\ Stack(c, cs, R, ctl # "run") /\ OpenOk(c, L[R].open)
  BY <1>1, <1>2, <1>3, RunnerFacts
<1>5. /\ q \in 1..Len(cs) /\ f \in Frames /\ f.k \in Tries /\ f.t = R
      /\ \A i \in q..Len(cs) : cs[i].t = R
  BY <1>2, CatcherFacts
<1>6. p \in 1..Len(c) /\ c[p].ypcall
  <2> DEFINE n == Len(c)
             S == Marked(R)
  <2>1. S \in SUBSET (1..n) /\ S # {} /\ n \in Nat /\ \A i \in S : c[i].ypcall
    BY <1>1, <1>3 DEF Marked, Size
  <2> HIDE DEF S, n
  <2>2. Max(S) \in S
    BY <2>1, Greatest
  <2>3. QED
    BY <2>1, <2>2 DEF S, n
<1>7. Recovered(L[R], p, f.ncc) = y
  BY DEF Recovered
<1> HIDE DEF q, p
<1>8. /\ g \in Seq(Infos) /\ Len(g) = p /\ (\A i \in 1..p : g[i] = c[i])
      /\ o \in SUBSET Nat /\ (\A i \in o : i \in L[R].open /\ i <= p) /\ p > 0
  <2>1. L[R].open \in SUBSET Nat /\ p \in 0..Len(c) /\ p > 0
    BY <1>3, <1>6 DEF State
  <2>2. QED
    BY <1>3, <2>1, FirstCalls
<1> HIDE DEF g, o
<1>9. /\ d \in Seq(Infos) /\ Len(d) = p /\ d[p].stat
      /\ \A i \in 1..p : /\ d[i] = g[i] \/ i = p
                         /\ d[i].fn = g[i].fn /\ d[i].reentry = g[i].reentry
                         /\ d[i].ypcall = g[i].ypcall /\ d[i].h = g[i].h
  BY <1>8, MarkedInfo
<1>10. f.ncc \in Counts /\ c[p].h \in Nat
  <2>1. c[p] \in Infos
    BY <1>3, <1>6
  <2>2. QED
    BY <1>5, <2>1, FrameTypes DEF Infos
<1> HIDE DEF d, f, w
<1>11. /\ y \in State /\ y.ci = d /\ y.errfunc = c[p].h /\ y.open = o
       /\ y.status = "ok" /\ y.started
  <2> DEFINE e == c[p].h
             n == f.ncc
             x == L[R]
  <2>1. Recovery(x, y, d, e, n, o)
    BY <1>3, <1>8, <1>9, <1>10 DEF f, Recovery
  <2> HIDE DEF x, e, n, y
  <2>2. /\ y \in State /\ y.ci = d /\ y.errfunc = e /\ y.open = o
        /\ y.status = x.status /\ y.started = x.started
    BY <2>1, RecoveredState
  <2>3. QED
    BY <1>4, <2>2 DEF x, e
<1>12. L' = [L EXCEPT ![R] = y]
  BY <1>1, <1>7
<1> HIDE DEF y, c
<1>13. L' \in [Threads -> State] /\ L'[R] = y /\ \A u \in Threads : u # R => L'[u] = L[u]
  BY <1>3, <1>11, <1>12, Updated
<1>14. Recovers(c, d, cs, w, R, p, q)
  <2>1. \A i \in 1..p : /\ d[i] = c[i] \/ i = p
                        /\ d[i].fn = c[i].fn /\ d[i].reentry = c[i].reentry
                        /\ d[i].ypcall = c[i].ypcall /\ d[i].h = c[i].h
    BY <1>8, <1>9
  <2>2. QED
    BY <1>1, <1>3, <1>5, <1>6, <1>9, <2>1 DEF Recovers, ResumeAt, f, w
<1>15. Stack(d, w, R, FALSE) /\ ErrOk(d, w, R, c[p].h, Len(d), Mine(w, R))
  BY <1>4, <1>14, RecoverStack
<1>16. OpenOk(d, o)
  <2>1. ASSUME NEW i \in o
        PROVE  i \in 1..Len(d) /\ d[i].fn \in Functions
    <3>1. i \in 1..Len(c) /\ c[i].fn \in Functions /\ i <= p
      BY <1>4, <1>8, <2>1 DEF OpenOk
    <3>2. i \in 1..p
      BY <1>3, <1>6, <3>1
    <3>3. QED
      BY <1>8, <1>9, <3>1, <3>2
  <2>2. QED
    BY <2>1 DEF OpenOk
<1>17. Lowered(cs, w, R, q + 1)
  <2>1. q \in Nat /\ q >= 1 /\ Len(cs) \in Nat /\ q <= Len(cs)
    BY <1>3, <1>5
  <2>2. q + 1 \in 1..Len(cs) + 1 /\ q + 1 > 1 /\ (q + 1) - 1 = q
    BY <2>1
  <2>3. \A i \in q + 1..Len(cs) : i \in q..Len(cs)
    BY <2>1
  <2>4. QED
    BY <1>5, <2>2, <2>3 DEF Lowered, w, f
<1>18. Stays(L, L', R, "run")
  BY <1>4, <1>11, <1>13 DEF Stays, Modes
<1>19. World(L', w, "run")
  <2>1. Stack(L'[R].ci, w, R, "run" # "run")
    BY <1>11, <1>13, <1>15
  <2>2. ErrOk(L'[R].ci, w, R, L'[R].errfunc, Len(L'[R].ci), Mine(w, R)) /\ OpenOk(L'[R].ci, L'[R].open)
    BY <1>11, <1>13, <1>15, <1>16
  <2> DEFINE k == q + 1
  <2>3. Lowered(cs, w, R, k)
    BY <1>17
  <2> HIDE DEF k
  <2>4. QED
    BY <1>2, <1>3, <1>18, <2>1, <2>2, <2>3, LowerWorld
<1>20. QED
  BY <1>1, <1>19

-----------------------------------------------------------------------------
(* The invariant holds *)

\* It holds at the start.
LEMMA CoInit ==
    ASSUME Init
    PROVE  CoInv
<1>1. L = [t \in Threads |-> NewState] /\ cs = <<>> /\ ctl = "run" /\ ok = TRUE
  BY DEF Init
<1>2. /\ L \in [Threads -> State] /\ cs \in Seq(Frames) /\ ctl \in Modes
      /\ \A t \in Threads : L[t] = NewState
  BY <1>1, NewThread DEF Modes
<1>3. Len(cs) = 0 /\ ActGrouped(cs) /\ \A t : Mine(cs, t) = {} /\ ~Runs(cs, t)
  BY <1>1 DEF ActGrouped, Mine, Runs
<1>4. ASSUME NEW t \in Threads, NEW r, ~r, NEW u
      PROVE  Good(NewState, cs, t, r, u)
  <2>1. Len(NewState.ci) = 0
    BY NewThread
  <2>2. Status(NewState, cs, t, r)
    BY <1>3, <2>1, NewThread DEF Status
  <2>3. Stack(NewState.ci, cs, t, u) /\ OpenOk(NewState.ci, {})
        /\ ErrOk(NewState.ci, cs, t, 0, Len(NewState.ci), Mine(cs, t))
    BY <1>3, <2>1, EmptyStack
  <2>4. QED
    BY <2>2, <2>3, NewThread DEF Good
<1>5. World(L, cs, ctl)
  <2>1. \A t \in Threads : Good(L[t], cs, t, Runs(cs, t), Runs(cs, t) /\ ctl # "run")
    BY <1>2, <1>3, <1>4
  <2>2. QED
    BY <1>1, <1>2, <1>3, <2>1 DEF World
<1>6. QED
  BY <1>1, <1>5, CountInit DEF CoInv

\* What a step has to show.
Keeps == /\ World(L', cs', ctl') /\ ok' \in BOOLEAN
         /\ ctl' # "yield" \/ (cs' = cs /\ L'[R].nny = 0)

\* Each action preserves it: the steps of a Lua function,
LEMMA LuaFunctionSteps ==
    ASSUME CoInv,
           \/ CallLua \/ CallTM \/ FindUpval \/ TailCall \/ LuaReturns \/ Raise \/ HostCall
           \/ Yield
    PROVE  Keeps
<1>1. CASE CallLua \/ Raise
  <2>1. ctl' # "yield" /\ ok' = TRUE
    BY Zenon, <1>1 DEF CallLua, Raise, InLua
  <2>2. QED
    BY <1>1, <2>1, LuaSteps DEF Keeps
<1>2. CASE CallTM
  <2>1. ok' = TRUE
    BY Zenon, <1>2 DEF CallTM
  <2>2. QED
    BY <1>2, <2>1, CallTMStep DEF Keeps
<1>3. CASE FindUpval \/ TailCall
  <2>1. ctl' # "yield" /\ ok' = TRUE
    BY Zenon, <1>3 DEF FindUpval, TailCall, InLua
  <2>2. QED
    BY <1>3, <2>1, OpenSteps DEF Keeps
<1>4. CASE LuaReturns
  <2>1. ctl' # "yield" /\ ok' = TRUE
    BY Zenon, <1>4 DEF LuaReturns, InLua
  <2>2. QED
    BY <1>4, <2>1, LuaReturnsStep DEF Keeps
<1>5. CASE HostCall
  <2>1. ok' = TRUE
    BY Zenon, <1>5 DEF HostCall
  <2>2. QED
    BY <1>5, <2>1, HostCallStep DEF Keeps
<1>6. CASE Yield
  <2>1. ok' = TRUE /\ cs' = cs
    BY <1>6 DEF Yield
  <2>2. QED
    BY <1>6, <2>1, YieldStep DEF Keeps
<1>7. QED
  BY <1>1, <1>2, <1>3, <1>4, <1>5, <1>6

\* of the library functions that call Lua functions,
LEMMA LibrarySteps ==
    ASSUME CoInv, ctl' # "raisemain",
           \/ \E fn \in {"dofile", "sort"} : CallK(fn)
           \/ \E fn \in {"pcall", "xpcall"} : PCallK(fn)
           \/ \E c \in Threads : CoCreate(c) \/ \E f \in {"resume", "wrap"} : Resume(c, f) \/ ResumeFails(c, f)
    PROVE  Keeps
<1>1. ASSUME NEW fn \in {"dofile", "sort"}, CallK(fn)
      PROVE  Keeps
  <2>1. ok' = TRUE
    BY Zenon, <1>1 DEF CallK
  <2>2. QED
    BY <1>1, <2>1, CallKStep DEF Keeps
<1>2. ASSUME NEW fn \in {"pcall", "xpcall"}, PCallK(fn)
      PROVE  Keeps
  <2>1. ok' = TRUE
    BY Zenon, <1>2 DEF PCallK
  <2>2. QED
    BY <1>2, <2>1, PCallKStep DEF Keeps
<1>3. ASSUME NEW c \in Threads, CoCreate(c)
      PROVE  Keeps
  <2>1. ok' = TRUE
    BY Zenon, <1>3 DEF CoCreate
  <2>2. QED
    BY <1>3, <2>1, CreateStep DEF Keeps
<1>4. ASSUME NEW c \in Threads, NEW f \in {"resume", "wrap"}, Resume(c, f)
      PROVE  Keeps
  <2>1. ok' = TRUE
    BY Zenon, <1>4 DEF Resume
  <2>2. QED
    BY <1>4, <2>1, ResumeStep DEF Keeps
<1>5. ASSUME NEW c \in Threads, NEW f \in {"resume", "wrap"}, ResumeFails(c, f)
      PROVE  Keeps
  <2>1. ok' = TRUE
    BY Zenon, <1>5 DEF ResumeFails
  <2>2. QED
    BY <1>5, <2>1, RefuseStep DEF Keeps
<1>6. QED
  BY <1>1, <1>2, <1>3, <1>4, <1>5

\* and of C code.
LEMMA CSteps ==
    ASSUME CoInv, ctl' # "raisemain",
           \/ CReturns \/ TryReturns \/ ErrorMsg \/ CatchPCall \/ CatchYield \/ Recover \/ Dies
    PROVE  Keeps
<1>1. CASE CReturns
  <2>1. ctl' # "yield" /\ ok' \in BOOLEAN
    BY <1>1 DEF CReturns, InC
  <2>2. QED
    BY <1>1, <2>1, CReturnsStep DEF Keeps
<1>2. CASE TryReturns
  <2>1. ok' = TRUE
    BY Zenon, <1>2 DEF TryReturns
  <2>2. QED
    BY <1>2, <2>1, TryReturnsStep DEF Keeps
<1>3. CASE ErrorMsg
  <2>1. ok' = TRUE
    BY Zenon, <1>3 DEF ErrorMsg
  <2>2. QED
    BY <1>3, <2>1, MessageStep DEF Keeps
<1>4. CASE CatchPCall
  <2>1. ok' = TRUE
    BY Zenon, <1>4 DEF CatchPCall
  <2>2. QED
    BY <1>4, <2>1, CatchPCallStep DEF Keeps
<1>5. CASE CatchYield
  <2>1. ok' = TRUE
    BY Zenon, <1>5 DEF CatchYield
  <2>2. QED
    BY <1>5, <2>1, CatchYieldStep DEF Keeps
<1>6. CASE Recover
  <2>1. ok' = TRUE
    BY Zenon, <1>6 DEF Recover
  <2>2. QED
    BY <1>6, <2>1, RecoverStep DEF Keeps
<1>7. CASE Dies
  <2>1. ok' = TRUE
    BY Zenon, <1>7 DEF Dies
  <2>2. QED
    BY <1>7, <2>1, DiesStep DEF Keeps
<1>8. QED
  BY <1>1, <1>2, <1>3, <1>4, <1>5, <1>6, <1>7

\* As long as no error was raised on the main thread by another one there is none to
\* handle there, and every jump is caught in the thread that throws.
LEMMA NoneForeign ==
    ASSUME CoInv
    PROVE  ~ErrorMsgOnMain /\ ~FoundFailed /\ ~CatchForeign /\ ~Derailed
<1>1. ctl \notin {"raisemain", "foreign"}
  BY DEF CoInv, World, Modes
<1>2. ~ErrorMsgOnMain /\ ~CatchForeign
  BY <1>1 DEF ErrorMsgOnMain, CatchForeign
<1>3. ~Derailed
  <2> SUFFICES ASSUME Derailed PROVE FALSE
    OBVIOUS
  <2>1. cs # <<>>
    BY DEF Derailed, CoInv, CountInv
  <2>2. cs[Catcher].t = R
    BY <2>1, CatcherFacts
  <2>3. QED
    BY <2>2 DEF Derailed
<1>4. ~FoundFailed
  <2> SUFFICES ASSUME FoundFailed PROVE FALSE
    OBVIOUS
  <2>1. cs # <<>> /\ cs[Len(cs)].k \in Tries /\ cs[Len(cs)].failed
    BY DEF FoundFailed, Done, Last
  <2>2. cs[Len(cs)] \in Frames
    BY <2>1, Here
  <2>3. QED
    BY <2>1, <2>2, FrameTypes
<1>5. QED
  BY <1>2, <1>3, <1>4

\* So it is preserved by every step, until then.
LEMMA CoNext ==
    ASSUME CoInv, [Next]_vars, ctl' # "raisemain"
    PROVE  CoInv'
<1>1. CountInv'
  <2>1. MainInv
    BY DEF CoInv, World, Modes, MainInv
  <2>2. QED
    BY <2>1, CountNext DEF CoInv
<1>2. CASE Next
  <2>1. Keeps
    <3>1. ~HostRaises
      BY DEF HostRaises
    <3>2. QED
      BY <1>2, <3>1, NoneForeign, LuaFunctionSteps, LibrarySteps, CSteps DEF Next, Step
  <2>2. ctl' = "yield" => L'[R'].nny = 0
    <3>1. cs' = cs => R' = R
      BY DEF R
    <3>2. QED
      BY <2>1, <3>1 DEF Keeps
  <2>3. World(L, cs, ctl)'
    BY <2>1 DEF Keeps, World, ActGrouped, Runs, Good, Status, Stack, Mine
  <2>4. QED
    BY <1>1, <2>1, <2>2, <2>3 DEF Keeps, CoInv
<1>3. CASE UNCHANGED vars
  <2>1. L' = L /\ cs' = cs /\ ctl' = ctl /\ ok' = ok
    BY <1>3 DEF vars
  <2>2. World(L', cs', ctl') /\ ok' \in BOOLEAN
    BY <2>1 DEF CoInv
  <2>3. ctl' = "yield" => L'[R'].nny = 0
    BY <2>1 DEF CoInv, R
  <2>4. QED
    BY <1>1, <2>2, <2>3 DEF CoInv
<1>4. QED
  BY <1>2, <1>3

\* It has the types as a consequence.
LEMMA CoTypes ==
    ASSUME CoInv, foreign \in BOOLEAN
    PROVE  TypeOK
<1>1. World(L, cs, ctl) /\ CountInv /\ ok \in BOOLEAN
  BY DEF CoInv
<1>2. ctl \in {"run", "raise", "error", "yield", "raisemain", "foreign"}
  BY <1>1 DEF World, Modes
<1>3. ASSUME NEW t \in Threads
      PROVE  /\ L[t].status \in {"ok", "yield", "error"} /\ L[t].started \in BOOLEAN
             /\ L[t].nny \in Nat /\ L[t].nCcalls \in 0..CCallsMod - 1
             /\ \A i \in 1..Size(t) : L[t].ci[i].fn \in Functions \cup CFunctions
             /\ L[t].status # "error" => L[t].open \subseteq 1..Size(t) /\ L[t].errfunc \in 0..Size(t)
  <2>1. L[t] \in State
    BY <1>1 DEF World
  <2>2. L[t].nny \in Nat
    <3>1. IsStack(cs) /\ L[t].nny = Pinned(cs, t)
      BY <1>1 DEF CountInv, Exact
    <3>2. PICK S : cs \in Seq(S)
      BY <3>1 DEF IsStack
    <3>3. QED
      BY <3>1, <3>2, PinsFinite
  <2>3. \A i \in 1..Size(t) : L[t].ci[i].fn \in Functions \cup CFunctions
    <3>1. L[t].ci \in Seq(Infos)
      BY <2>1 DEF State
    <3>2. \A i \in 1..Size(t) : L[t].ci[i] \in Infos
      BY <3>1 DEF Size
    <3>3. QED
      BY <3>2 DEF Infos
  <2>4. ASSUME L[t].status # "error"
        PROVE  L[t].open \subseteq 1..Size(t) /\ L[t].errfunc \in 0..Size(t)
    <3>1. /\ ErrOk(L[t].ci, cs, t, L[t].errfunc, Len(L[t].ci), Mine(cs, t))
          /\ OpenOk(L[t].ci, L[t].open)
      BY <1>1, <2>4 DEF World, Good
    <3>2. L[t].open \subseteq 1..Size(t)
      BY <3>1 DEF OpenOk, Size
    <3>3. L[t].errfunc = 0 \/ L[t].errfunc \in 1..Size(t)
      BY <3>1 DEF ErrOk, Size
    <3>4. Size(t) \in Nat
      <4>1. L[t].ci \in Seq(Infos)
        BY <2>1 DEF State
      <4>2. QED
        BY <4>1 DEF Size
    <3>5. QED
      BY <3>2, <3>3, <3>4
  <2>5. QED
    BY <2>1, <2>2, <2>3, <2>4 DEF State, Counts
<1>4. QED
  BY <1>1, <1>2, <1>3 DEF TypeOK

CoInvUntil == ~foreign => CoInv

LEMMA CoUntil == Init => CoInvUntil
BY CoInit DEF CoInvUntil

LEMMA CoUntilNext ==
    ASSUME CoInvUntil, [Next]_vars
    PROVE  CoInvUntil'
<1>1. SUFFICES ASSUME ~foreign' PROVE CoInv'
  BY DEF CoInvUntil
<1>2. ~foreign
  BY <1>1 DEF Next, vars
<1>3. CoInv
  BY <1>2 DEF CoInvUntil
<1>4. ctl' # "raisemain"
  <2>1. CASE Next
    BY <1>1, <2>1 DEF Next
  <2>2. CASE UNCHANGED vars
    BY <1>3, <2>2 DEF vars, CoInv, World, Modes
  <2>3. QED
    BY <2>1, <2>2
<1>5. QED
  BY <1>3, <1>4, CoNext

\* The C frames of every thread stand where its calls are, and every error
\* handler that luaD_pcall, lua_pcallk or the host has saved is that of the
\* innermost protected call there (ldo.cpp: whatever luaD_throw, lua_resume and
\* recover take away), as long as the host has raised no error on the main thread
\* while another one ran.
THEOREM FramesFitCalls == Spec => [](~foreign => CoInv)
<1>1. Spec => []CoInvUntil
  BY CoUntil, CoUntilNext, PTL DEF Spec
<1>2. CoInvUntil => (~foreign => CoInv)
  BY DEF CoInvUntil
<1>3. QED
  BY <1>1, <1>2, PTL

ForeignOk == foreign \in BOOLEAN

\* The state of the threads keeps its types (lstate.h): the error handler in
\* force is a call of its thread and the open upvalues of a thread are of calls
\* it still has, whatever errors, yields and recoveries have taken off the C
\* stack, for any number of threads and any limits; until the host raises an error of
\* a coroutine on the main thread.
THEOREM CallsKeepTheirTypes == Spec => [](~foreign => TypeOK)
<1>1. Init => ForeignOk
  BY DEF Init, ForeignOk
<1>2. ForeignOk /\ [Next]_vars => ForeignOk'
  BY DEF Next, vars, ForeignOk
<1>3. ForeignOk /\ CoInv => TypeOK
  BY CoTypes DEF ForeignOk
<1>4. QED
  BY <1>1, <1>2, <1>3, FramesFitCalls, PTL DEF Spec

\* A coroutine with calls to finish has yielded or is on the C stack (ldo.cpp: lua_resume
\* marks the coroutine of an error as dead), until the host raises an error of a
\* coroutine on the main thread.
THEOREM NoneIsStranded == Spec => []NoneStranded
<1>1. (~foreign => CoInv) => NoneStranded
  <2> SUFFICES ASSUME CoInv, NEW t \in Threads, L[t].status = "ok", L[t].ci # <<>>
               PROVE  \E i \in 1..Len(cs) : cs[i].t = t
    BY DEF NoneStranded
  <2>1. Status(L[t], cs, t, Runs(cs, t)) /\ L[t].ci \in Seq(Infos)
    BY DEF CoInv, World, Good, State
  <2>2. Len(L[t].ci) # 0
    BY <2>1
  <2>3. Mine(cs, t) # {}
    BY <2>1, <2>2 DEF Status
  <2>4. QED
    BY <2>3 DEF Mine
<1>2. QED
  BY <1>1, FramesFitCalls, PTL
=============================================================================

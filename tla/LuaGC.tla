-------------------------------- MODULE LuaGC --------------------------------
(***************************************************************************)
(* The incremental mark-and-sweep collector of Lua (lgc.cpp) interleaved   *)
(* with the program it serves: three colours with two whites, the gray     *)
(* lists, weak tables, open and closed upvalues, finalizers, and a sweep   *)
(* that keeps its place in lists the program changes meanwhile.            *)
(*                                                                         *)
(* h is the heap and the global_State of one Lua state: the objects        *)
(* (kind, val, at, col) and the collector's lists and phase.  gray,        *)
(* grayagain, weak, allweak and ephemeron are kept as sets: the order of   *)
(* these lists decides no result.  allgc, finobj and tobefnz are           *)
(* sequences, because the sweep stops inside them.  The loops of the code  *)
(* are recursive functions of their rounds, of which there are no more     *)
(* than objects.  The generational mode is not modelled: gckind is         *)
(* KGC_NORMAL or KGC_EMERGENCY.                                            *)
(***************************************************************************)
EXTENDS Integers, FiniteSets, Functions, Sequences

CONSTANTS Objs,    \* addresses of collectable objects; a freed one is reused
          Main,    \* g->mainthread, which is never collected
          Nil,
          NSlots,  \* stack slots of Main that a script uses
          Casts    \* what a script makes of Objs: for each its kind, the
                   \* fields it stores into, whether it gets a __gc

VARIABLE h

Tables == {"strong", "weakvalue", "ephemeron", "allweak"}
Kinds == Tables \cup {"string", "udata", "cclosure", "lclosure", "proto", "thread",
                      "open", "closed"}    \* upvalues are open, then closed

\* Where a value may be: slot 0 of Main is the argument of a running
\* finalizer, 1..NSlots its other stack slots; slot 1 is the upvalue of a
\* closure, the value of a closed upvalue, the user value of a userdata, the
\* stack of a coroutine, the array part of a table, the cached closure of a
\* prototype and the prototype of a Lua closure, whose slot 2 is its upvalue;
\* Objs are hash keys.
Slots == 0 .. NSlots
Keys == Slots \cup Objs
Bodies == Objs \cup {Main}

\* Only tables have keys, and only tables and userdata finalizers; the fields of
\* closures and prototypes are set when they are made.
CastOf ==
  [kind : Tables, fields : SUBSET ({1} \cup Objs), gc : BOOLEAN]
  \cup [kind : {"udata"}, fields : SUBSET {1}, gc : BOOLEAN]
  \cup [kind : {"cclosure", "thread"}, fields : SUBSET {1}, gc : {FALSE}]
  \cup [kind : {"string", "proto", "lclosure", "open", "none"}, fields : {{}}, gc : {FALSE}]

ASSUME GCAssumption ==
  /\ IsFiniteSet(Objs) /\ NSlots \in Nat \ {0, 1}
  /\ Main \notin Objs \cup Slots /\ Nil \notin Bodies \cup Slots \cup (Bodies \X Slots) /\ Objs \cap Slots = {}
  /\ "header" \notin Objs \cup {Nil}
  /\ Casts \subseteq [Objs -> CastOf]

Other(w) == IF w = "white0" THEN "white1" ELSE "white0"
IsWhite(g, o) == g.col[o] \in {"white0", "white1"}
IsGray(g, o) == g.col[o] = "gray"
IsBlack(g, o) == g.col[o] = "black"
IsDead(g, o) == g.kind[o] # "free" /\ g.col[o] = Other(g.white)
Of(g, kinds) == {o \in Objs : g.kind[o] \in kinds}
Strings(g) == Of(g, {"string"})

KeepInvariant(g) == g.state \in {"propagate", "atomic"}
Full(g) == g.full # "no"

\* The value an upvalue stands for: the stack slot while it is open.
UpValue(g, u) == IF g.kind[u] = "open" THEN g.val[g.at[u][1]][g.at[u][2]]
                 ELSE g.val[u][1]

KeysOf(g, t) == {k \in Objs : g.val[t][k] # Nil}
ValuesOf(g, t) == {g.val[t][k] : k \in Objs}

-----------------------------------------------------------------------------
(* Mark. *)

Blackened == {"string", "udata", "closed"}    \* visited and turned black at once

\* What marking o goes on with at once.
Passes(g, o) ==
  IF g.kind[o] \in {"udata", "closed"} THEN {g.val[o][1]}
  ELSE IF g.kind[o] = "open" THEN {UpValue(g, o)} ELSE {}

\* reallymarkobject on each white object of V: they are marked with all white
\* objects they lead to.
Whites(g) == {o \in Bodies : IsWhite(g, o)}
Marked(g, V) ==
  LET passing == {o \in Whites(g) : g.kind[o] \in {"udata", "closed", "open"}}
      closed(S) == \A o \in passing : o \in V \/ (\E x \in S : o \in Passes(g, x)) => o \in S
      all == {o \in passing : \A S \in SUBSET passing : closed(S) => o \in S}
  IN Whites(g) \cap (V \cup UNION {Passes(g, o) : o \in all})
Paint(g, W) ==
  [g EXCEPT !.col = [o \in Bodies |->
                       IF o \notin W THEN g.col[o]
                       ELSE IF g.kind[o] \in Blackened THEN "black" ELSE "gray"],
            !.gray = @ \cup {o \in W : g.kind[o] \notin Blackened \cup {"open"}}]
Mark(g, V) == Paint(g, Marked(g, V))

MakeWhite(g, o) == [g EXCEPT !.col[o] = g.white]

\* Each object of 'tobefnz' is made white and marked again.  Linking one that
\* is still on a list to be walked makes that list circular.
MarkAgain(g, o) ==
  Mark([MakeWhite(g, o) EXCEPT !.looped = @ \/ o \in g.gray \cup g.allweak \cup g.ephemeron], {o})
MarkBeingFnz(g) ==
  LET after[n \in 0 .. Len(g.tobefnz)] ==
        IF n = 0 THEN g ELSE MarkAgain(after[n - 1], g.tobefnz[n])
  IN after[Len(g.tobefnz)]

\* iscleared marks the strings it meets and says which other objects are white.
MarkStrings(g, V) == Mark(g, V \cap Strings(g))
Clearable(g, v) == v # Nil /\ g.kind[v] # "string" /\ IsWhite(g, v)

TraverseWeakValue(g, t) ==
  LET m == Mark(g, KeysOf(g, t))
      c == m.val[t][1] # Nil \/ \E v \in ValuesOf(m, t) : Clearable(m, v)
      n == MarkStrings(m, ValuesOf(m, t))
  IN IF c THEN [n EXCEPT !.weak = @ \cup {t}] ELSE [n EXCEPT !.grayagain = @ \cup {t}]

\* The entries with unmarked keys are visited before the others, which is one
\* of the orders the hash part may have.
VisitEntries(m, t) ==
  LET cleared == {k \in KeysOf(m, t) : IsWhite(m, k)}
      prop == \E k \in cleared : IsWhite(m, m.val[t][k])
      n == Mark(m, {m.val[t][k] : k \in KeysOf(m, t) \ cleared})
  IN IF prop THEN [n EXCEPT !.ephemeron = @ \cup {t}]
     ELSE IF cleared # {} THEN [n EXCEPT !.allweak = @ \cup {t}]
     ELSE [n EXCEPT !.grayagain = @ \cup {t}]
TraverseEphemeron(g, t) ==
  VisitEntries(MarkStrings(Mark(g, {g.val[t][1]}), KeysOf(g, t)), t)

\* A prototype keeps its cached closure only if that is marked already.
TraverseProto(g, p) ==
  LET c == g.val[p][1] IN
  [g EXCEPT !.col[p] = "black",
            !.val[p][1] = IF c # Nil /\ IsWhite(g, c) THEN Nil ELSE c]

\* traversetable, traverseproto, the closures and traversestack
Traverse(g0, o) ==
  LET g == [g0 EXCEPT !.gray = @ \ {o}, !.col[o] = "gray"]
  IN CASE g.kind[o] = "weakvalue" -> TraverseWeakValue(g, o)
       [] g.kind[o] = "ephemeron" -> TraverseEphemeron(g, o)
       [] g.kind[o] = "allweak" -> [g EXCEPT !.allweak = @ \cup {o}]
       [] g.kind[o] = "thread" ->
            Mark([g EXCEPT !.grayagain = @ \cup {o}], {g.val[o][s] : s \in Slots})
       [] g.kind[o] = "proto" -> TraverseProto(g, o)
       [] OTHER -> Mark([g EXCEPT !.col[o] = "black"],
                        KeysOf(g, o) \cup {g.val[o][k] : k \in Keys})

\* While there are gray objects; each round has one gray or white object less.
PropagateAll(g) ==
  LET after[n \in 0 .. Cardinality(Bodies)] ==
        IF n = 0 THEN g
        ELSE LET m == after[n - 1]
             IN IF m.gray = {} THEN m ELSE Traverse(m, CHOOSE o \in m.gray : TRUE)
  IN after[Cardinality(Bodies)]
PropagateList(g, l) == PropagateAll([g EXCEPT !.gray = l])

RetraverseGrays(g) ==
  LET g1 == PropagateAll([g EXCEPT !.weak = {}, !.grayagain = {}, !.ephemeron = {}])
  IN PropagateList(PropagateList(PropagateList(g1, g.grayagain), g.weak), g.ephemeron)

TraverseEach(g, l) ==
  LET after[n \in 0 .. Cardinality(l)] ==
        IF n = 0 THEN [g |-> g, l |-> l]
        ELSE LET m == after[n - 1]
                 t == CHOOSE x \in m.l : TRUE
             IN [g |-> PropagateAll(TraverseEphemeron(m.g, t)), l |-> m.l \ {t}]
  IN after[Cardinality(l)].g

\* Until a round marks nothing; each but the last marks a white object.
ConvergeEphemerons(g) ==
  LET round(m) == TraverseEach([m EXCEPT !.ephemeron = {}], m.ephemeron)
      after[n \in 0 .. Cardinality(Bodies) + 1] ==
        IF n = 0 THEN [g |-> g, changed |-> TRUE]
        ELSE LET m == after[n - 1]
             IN IF ~m.changed THEN m
                ELSE LET r == round(m.g) IN [g |-> r, changed |-> r.col # m.g.col]
  IN after[Cardinality(Bodies) + 1].g

RemarkUpvals(g) == Mark(g, {UpValue(g, u) : u \in {x \in Of(g, {"open"}) : IsGray(g, x)}})

-----------------------------------------------------------------------------
(* The end of the mark phase. *)

\* A nil value removes its entry, whatever its key.
Clear(g, l, cleared(_, _)) ==
  [g EXCEPT !.val = [t \in Bodies |->
     IF t \notin l THEN g.val[t]
     ELSE [k \in Keys |-> IF cleared(t, k) THEN Nil ELSE g.val[t][k]]]]
ClearKeys(g0, l) ==
  LET g == MarkStrings(g0, UNION {KeysOf(g0, t) : t \in l})
  IN Clear(g, l, LAMBDA t, k : k \in Objs /\ g.val[t][k] # Nil /\ Clearable(g, k))
ClearValues(g0, l) ==
  LET g == MarkStrings(g0, UNION {ValuesOf(g0, t) \cup {g0.val[t][1]} : t \in l})
  IN Clear(g, l, LAMBDA t, k : Clearable(g, g.val[t][k]))

\* A list without the objects of S.
Without(s, S) ==
  LET kept[n \in 0 .. Len(s)] ==
        IF n = 0 THEN <<>>
        ELSE IF s[n] \in S THEN kept[n - 1] ELSE Append(kept[n - 1], s[n])
  IN kept[Len(s)]

SeparateToBeFnz(g) ==
  LET gone == {o \in Range(g.finobj) : IsWhite(g, o)}
  IN [g EXCEPT !.finobj = Without(@, gone),
               !.tobefnz = @ \o Without(g.finobj, Range(g.finobj) \ gone),
               !.finalized = @ \cup gone]

\* All strongly accessible objects are marked, and the values of weak tables
\* cleared.
MarkStrong(g) == ConvergeEphemerons(RetraverseGrays(PropagateAll(RemarkUpvals(Mark(g, {Main})))))
ClearAllValues(g) == ClearValues(ClearValues(g, g.weak), g.allweak)

\* What the objects due for finalizers need is marked again, and dead keys are
\* cleared.
MarkRevived(g) ==
  ConvergeEphemerons(PropagateAll(MarkBeingFnz(SeparateToBeFnz(g))))
ClearAllKeys(g) == ClearKeys(ClearKeys(g, g.ephemeron), g.allweak)

\* The values of weak tables that were revived since orig are cleared.
ClearRevived(orig, g) ==
  ClearValues(ClearValues(g, g.weak \ orig.weak), g.allweak \ orig.allweak)

Revive(g) == ClearRevived(g, ClearAllKeys(MarkRevived(g)))
Atomic(g) ==
  [Revive(ClearAllValues(MarkStrong([g EXCEPT !.state = "atomic"]))) EXCEPT !.white = Other(@)]

-----------------------------------------------------------------------------
(* Sweep. *)

Erase(g, S) ==
  [g EXCEPT !.kind = [o \in Bodies |-> IF o \in S THEN "free" ELSE g.kind[o]],
            !.val = [o \in Bodies |-> IF o \in S THEN [k \in Keys |-> Nil] ELSE g.val[o]],
            !.at = [o \in Objs |-> IF o \in S THEN Nil ELSE g.at[o]],
            !.col = [o \in Bodies |-> IF o \in S THEN "gray" ELSE g.col[o]],
            !.finalized = @ \ S]

\* An upvalue that was gray while open is visited now, or swept.
CheckUpvalColor(g, u) ==
  IF ~IsGray(g, u) THEN g
  ELSE IF KeepInvariant(g) THEN Mark([g EXCEPT !.col[u] = "black"], {g.val[u][1]})
  ELSE MakeWhite(g, u)

OpenUpvals(g, th, level) ==
  {u \in Of(g, {"open"}) : g.at[u][1] = th /\ g.at[u][2] >= level}

\* luaF_close: the open upvalues of a thread from a level up, the highest first.
CloseUpval(g, u) ==
  IF IsDead(g, u) THEN Erase(g, {u})
  ELSE CheckUpvalColor([g EXCEPT !.kind[u] = "closed", !.val[u][1] = UpValue(g, u),
                                 !.at[u] = Nil, !.allgc = <<u>> \o @], u)
CloseUpvals(g, th, level) ==
  LET after[n \in 0 .. NSlots + 1 - level] ==
        IF n = 0 THEN g
        ELSE LET m == after[n - 1]
                 U == {u \in Of(m, {"open"}) : m.at[u] = <<th, NSlots + 1 - n>>}
             IN IF U = {} THEN m ELSE CloseUpval(m, CHOOSE u \in U : TRUE)
  IN after[NSlots + 1 - level]

FreeObj(g, o) ==
  Erase(IF g.kind[o] = "thread" THEN CloseUpvals(g, o, 0) ELSE g, {o})

\* The open upvalues of a thread are swept with it.
SweepThread(g, th) ==
  LET U == OpenUpvals(g, th, 0)
      dead == {u \in U : IsDead(g, u)}
      n == Erase(g, dead)
  IN [n EXCEPT !.col = [o \in Bodies |-> IF o \in U \ dead THEN g.white ELSE n.col[o]]]

\* A sweep pointer is "header" (the head of its list), an object (its next
\* field) or Nil (the list is swept).
Place(s, p) == IF p = "header" THEN 0 ELSE CHOOSE i \in 1 .. Len(s) : s[i] = p
AtEnd(s, p) == Place(s, p) = Len(s)

List(g, l) == IF l = "allgc" THEN g.allgc ELSE g.finobj
Relist(g, l, s) == IF l = "allgc" THEN [g EXCEPT !.allgc = s] ELSE [g EXCEPT !.finobj = s]

\* sweeplist: sweep one object of list l, after pointer p.  The code sweeps up to
\* GCSWEEPMAX of them; the program may run after each one here.
SweepNext(g, l, p) ==
  LET s == List(g, l)
      o == s[Place(s, p) + 1]
  IN IF IsDead(g, o) THEN [g |-> FreeObj(Relist(g, l, Without(s, {o})), o), p |-> p]
     ELSE [g |-> MakeWhite(IF g.kind[o] = "thread" THEN SweepThread(g, o) ELSE g, o), p |-> o]
NilAtEnd(n, l) == IF AtEnd(List(n.g, l), n.p) THEN [n EXCEPT !.p = Nil] ELSE n
SweepList(g, l, p) ==
  IF AtEnd(List(g, l), p) THEN [g |-> g, p |-> Nil]
  ELSE NilAtEnd(SweepNext(g, l, p), l)

\* Until the pointer moves; each round but the last frees an object.
SweepToLive(g, l, p) ==
  LET after[n \in 0 .. Cardinality(Bodies)] ==
        IF n = 0 THEN SweepList(g, l, p)
        ELSE LET m == after[n - 1] IN IF m.p = p THEN SweepList(m.g, l, p) ELSE m
  IN after[Cardinality(Bodies)]

\* The gray lists mean nothing until restartcollection resets them: emptied here.
EnterSweep(g) ==
  LET g1 == [g EXCEPT !.state = "sweepstring", !.strings = Strings(g), !.gray = {},
                      !.grayagain = {}, !.weak = {}, !.allweak = {}, !.ephemeron = {}]
      fin == SweepToLive(g1, "finobj", "header")
      all == SweepToLive(fin.g, "allgc", "header")
  IN [all.g EXCEPT !.sweepfin = fin.p, !.sweepgc = all.p]

-----------------------------------------------------------------------------
(* The collector's steps (singlestep), one at a time between steps of the   *)
(* program.  A finalizer runs with the collector stopped (gcrunning = 0);   *)
(* a full collection, which may also be an emergency one, holds the program *)
(* until its own cycle ends.  After 'looped' no call returns.               *)

InFinalizer == h.val[Main][0] # Nil
Collecting(s) == h.state = s /\ ~h.looped /\ (InFinalizer => Full(h))
Running == ~h.looped /\ ~Full(h)

Restart ==
  /\ Collecting("pause")
  /\ h' = MarkBeingFnz(Mark([h EXCEPT !.state = "propagate", !.gray = {},
                               !.full = IF Full(h) THEN "cycle" ELSE "no"], {Main}))

Propagate(o) ==
  /\ Collecting("propagate") /\ o \in h.gray
  /\ h' = Traverse(h, o)

Swept(g) == IF g.looped THEN [h EXCEPT !.looped = TRUE] ELSE EnterSweep(g)
FinishMark ==
  /\ Collecting("propagate") /\ h.gray = {}
  /\ h' = Swept(Atomic(h))

SweepStrings(s) ==
  /\ Collecting("sweepstring") /\ s \in h.strings
  /\ h' = [(IF IsDead(h, s) THEN Erase(h, {s}) ELSE MakeWhite(h, s)) EXCEPT !.strings = @ \ {s}]

StringsSwept == /\ Collecting("sweepstring") /\ h.strings = {}
                /\ h' = [h EXCEPT !.state = "sweepudata"]

SweepUdata ==
  /\ Collecting("sweepudata")
  /\ h' = IF h.sweepfin = Nil THEN [h EXCEPT !.state = "sweep"]
          ELSE LET r == SweepList(h, "finobj", h.sweepfin)
               IN [r.g EXCEPT !.sweepfin = r.p]

Sweep ==
  /\ Collecting("sweep")
  /\ h' = IF h.sweepgc # Nil
          THEN LET r == SweepList(h, "allgc", h.sweepgc) IN [r.g EXCEPT !.sweepgc = r.p]
          ELSE [MakeWhite(SweepThread(h, Main), Main) EXCEPT
                  !.state = "pause", !.full = IF @ = "cycle" THEN "no" ELSE @]

CollectorStep == \/ Restart \/ FinishMark \/ StringsSwept \/ SweepUdata \/ Sweep
                 \/ \E o \in Bodies : Propagate(o) \/ SweepStrings(o)

\* luaC_fullgc: a mark phase under way is given up and everything swept first.
FullGC == /\ Running
          /\ h' = [(IF KeepInvariant(h) THEN EnterSweep(h) ELSE h) EXCEPT !.full = "finish"]

\* udata2finalize: the object goes back to allgc; mutant: it is on no list.
Udata2FinalizeUnlinked(g) == [g EXCEPT !.tobefnz = Tail(@)]
Udata2Finalize(g) ==
  LET n == [g EXCEPT !.tobefnz = Tail(@), !.allgc = <<Head(g.tobefnz)>> \o @]
  IN IF KeepInvariant(g) THEN n ELSE MakeWhite(n, Head(g.tobefnz))

\* GCTM: one pending finalizer is called with its object.
Finalize ==
  /\ Running /\ ~InFinalizer /\ h.tobefnz # <<>>
  /\ h' = [Udata2Finalize(h) EXCEPT !.val[Main][0] = Head(h.tobefnz)]

FinalizerReturns == Running /\ InFinalizer /\ h' = [h EXCEPT !.val[Main][0] = Nil]

-----------------------------------------------------------------------------
(* The program.  Its operands are on the stack of Main. *)

Regs == 1 .. NSlots
Reg(s) == h.val[Main][s]
OnStack == {Reg(s) : s \in Slots} \ {Nil}
Values == {v \in OnStack : h.kind[v] # "proto"}    \* a prototype is no Lua value
SetReg(g, r, v) == [g EXCEPT !.val[Main][r] = v]

Barrier(g, o, v) ==
  IF v = Nil THEN g
  ELSE IF ~(IsBlack(g, o) /\ IsWhite(g, v)) THEN g
  ELSE IF KeepInvariant(g) THEN Mark(g, {v}) ELSE MakeWhite(g, o)

BarrierBack(g, t, v) ==
  IF v = Nil THEN g
  ELSE IF ~(IsBlack(g, t) /\ IsWhite(g, v)) THEN g
  ELSE [g EXCEPT !.col[t] = "gray",
                 !.grayagain = IF KeepInvariant(g) THEN @ \cup {t} ELSE @]

NewObj(g, o, kind) == [g EXCEPT !.kind[o] = kind, !.col[o] = g.white]
Linked(g, o) == [g EXCEPT !.allgc = <<o>> \o @]

\* A new string, table, userdata, prototype, C function or coroutine.
New(r, o) ==
  /\ Running /\ h.kind[o] = "free" /\ h.cast[o].kind \notin {"none", "lclosure", "open"}
  /\ LET g == SetReg(NewObj(h, o, h.cast[o].kind), r, o)
     IN h' = IF h.cast[o].kind = "string" THEN g ELSE Linked(g, o)

\* internshrstr: a string that is dead but not swept yet is used again.
Intern(r, s) ==
  /\ Running /\ s \in Strings(h)
  /\ h' = SetReg(IF IsDead(h, s) THEN MakeWhite(h, s) ELSE h, r, s)

Move(r, v) == Running /\ h' = SetReg(h, r, v)

\* The barriers of a store into a table: one for a new key, one for the value.
\* Mutant: the key's is forgotten.
TableBarriersForValue(g, t, k, v) == BarrierBack(g, t, v)
TableBarriers(g, t, k, v) ==
  BarrierBack(IF k \in Objs /\ h.val[t][k] = Nil /\ v # Nil THEN BarrierBack(g, t, k) ELSE g,
              t, v)

Fields(o) == h.cast[o].fields \cap ({1} \cup Values)

Load(r, o, k) ==
  /\ Running /\ k \in Fields(o) /\ h' = SetReg(h, r, h.val[o][k])

\* lua_next reaches the keys of a table.
LoadKey(r, o, k) ==
  /\ Running /\ h.kind[o] \in Tables /\ k \in KeysOf(h, o)
  /\ h' = SetReg(h, r, k)

Store(o, k, v) ==
  /\ Running /\ k \in Fields(o)
  /\ h.kind[o] = "udata" /\ v # Nil => h.kind[v] \in Tables
  /\ LET g == [h EXCEPT !.val[o][k] = v]
     IN h' = IF h.kind[o] = "thread" THEN g
             ELSE IF h.kind[o] \notin Tables THEN Barrier(g, o, v)
             ELSE TableBarriers(g, o, k, v)

\* luaF_findupval: one upvalue for a stack slot; a dead one is used again.
\* Mutant: it stays dead.
FindUpvalDead(g, th, s) ==
  LET found == {u \in OpenUpvals(g, th, s) : g.at[u][2] = s}
      free == {o \in Objs : g.kind[o] = "free" /\ g.cast[o].kind = "open"}
  IN IF found # {} THEN {<<g, u>> : u \in found}
     ELSE {<<[NewObj(g, u, "open") EXCEPT !.at[u] = <<th, s>>], u>> : u \in free}
FindUpval(g, th, s) ==
  LET found == {u \in OpenUpvals(g, th, s) : g.at[u][2] = s}
      free == {o \in Objs : g.kind[o] = "free" /\ g.cast[o].kind = "open"}
  IN IF found # {}
     THEN {<<IF IsDead(g, u) THEN MakeWhite(g, u) ELSE g, u>> : u \in found}
     ELSE {<<[NewObj(g, u, "open") EXCEPT !.at[u] = <<th, s>>], u>> : u \in free}

\* OP_CLOSURE for prototype p of the running function: the cached closure if
\* its upvalue is that of the slot, a new one otherwise.
MakeClosure(r, p, th, s) ==
  LET c == h.val[p][1]
      upval == IF c = Nil THEN Nil ELSE h.val[c][2]
      cached == upval # Nil /\ h.kind[upval] = "open" /\ h.at[upval] = <<th, s>>
      new == {o \in Objs : h.kind[o] = "free" /\ h.cast[o].kind = "lclosure"}
  IN /\ Running /\ h.kind[p] = "proto"
     /\ th # Main => h.kind[th] = "thread" /\ s = 1
     /\ \/ cached /\ h' = SetReg(h, r, c)
        \/ /\ ~cached
           /\ \E o \in new : \E fu \in FindUpval(Linked(NewObj(h, o, "lclosure"), o), th, s) :
                LET g == [fu[1] EXCEPT !.val[o][1] = p, !.val[o][2] = fu[2]]
                    b == IF ~IsBlack(g, p) THEN g
                         ELSE IF c = Nil THEN Barrier(g, p, o)
                         ELSE BarrierBack(g, p, o)
                IN h' = SetReg([b EXCEPT !.val[p][1] = o], r, o)

\* OP_GETUPVAL and OP_SETUPVAL of a Lua function
GetUpval(r, c) ==
  /\ Running /\ h.kind[c] = "lclosure"
  /\ h' = SetReg(h, r, UpValue(h, h.val[c][2]))

SetUpval(c, v) ==
  /\ Running /\ h.kind[c] = "lclosure"
  /\ LET u == h.val[c][2]
         g == IF h.kind[u] = "open" THEN [h EXCEPT !.val[h.at[u][1]][h.at[u][2]] = v]
              ELSE [h EXCEPT !.val[u][1] = v]
     IN h' = Barrier(g, u, v)

\* OP_JMP or OP_RETURN: the block that owns the slots from s up ends.
Close(th, s) ==
  /\ Running /\ OpenUpvals(h, th, s) # {}
  /\ h' = CloseUpvals(h, th, s)

\* The sweep must not stand on an object that leaves its list; mutant: it may.
StandStill(g, o) == g
StepAside(g, o) ==
  IF g.sweepgc # o THEN g
  ELSE LET r == SweepToLive(g, "allgc", o) IN [r.g EXCEPT !.sweepgc = r.p]

\* luaC_checkfinalizer, when setmetatable gives o a metatable with __gc
CheckFinalizer(o) ==
  /\ Running
  /\ h.cast[o].gc /\ o \notin Range(h.finobj) \cup Range(h.tobefnz) \cup h.finalized
  /\ LET n == [StepAside(h, o) EXCEPT !.allgc = Without(@, {o}), !.finobj = <<o>> \o @]
     IN h' = IF KeepInvariant(h) THEN n ELSE MakeWhite(n, o)

ProgramStep ==
  \/ \E r \in Regs, o \in Objs : New(r, o) \/ Intern(r, o)
  \/ \E r \in Regs : \E v \in Values \cup {Nil} : Move(r, v)
  \/ \E r \in Regs, o \in OnStack :
       GetUpval(r, o) \/ \E k \in Keys : Load(r, o, k) \/ LoadKey(r, o, k)
  \/ \E o \in OnStack, v \in Values \cup {Nil} : SetUpval(o, v) \/ \E k \in Keys : Store(o, k, v)
  \/ \E r, s \in Regs, p \in OnStack, th \in OnStack \cup {Main} : MakeClosure(r, p, th, s)
  \/ \E th \in OnStack \cup {Main}, s \in Regs : Close(th, s)
  \/ \E o \in OnStack : CheckFinalizer(o)

Init ==
  \E c \in Casts :
    h = [cast |-> c, kind |-> [o \in Bodies |-> IF o = Main THEN "thread" ELSE "free"],
         val |-> [o \in Bodies |-> [k \in Keys |-> Nil]],
         at |-> [o \in Objs |-> Nil],
         col |-> [o \in Bodies |-> IF o = Main THEN "white0" ELSE "gray"],
         white |-> "white0", state |-> "pause", full |-> "no", looped |-> FALSE,
         gray |-> {}, grayagain |-> {}, weak |-> {}, allweak |-> {}, ephemeron |-> {},
         allgc |-> <<>>, finobj |-> <<>>, tobefnz |-> <<>>, finalized |-> {},
         sweepfin |-> Nil, sweepgc |-> Nil, strings |-> {}]

Next == CollectorStep \/ FullGC \/ Finalize \/ FinalizerReturns \/ ProgramStep
Spec == Init /\ [][Next]_h

-----------------------------------------------------------------------------
(* What a script can reach, in three readings: "all" follows every          *)
(* reference, those of weak tables too; "strong" is the reachability weak   *)
(* tables are defined by, where the value of an ephemeron entry counts once *)
(* its key does; "sure" is "strong" without those values.                   *)

Refs(S, how) ==
  (UNION {LET v == h.val[o]
              every == KeysOf(h, o) \cup {v[k] : k \in Keys}
              strings == {x \in every \ {Nil} : h.kind[x] = "string"}
              keyed == IF how = "strong" THEN {v[k] : k \in S \cap Objs} ELSE {}
          IN CASE h.kind[o] = "open" -> {UpValue(h, o)}
               [] h.kind[o] = "weakvalue" /\ how # "all" -> KeysOf(h, o) \cup strings
               [] h.kind[o] = "ephemeron" /\ how # "all" -> {v[1]} \cup keyed \cup strings
               [] h.kind[o] = "allweak" /\ how # "all" -> strings
               [] h.kind[o] = "proto" /\ how # "all" -> {}
               [] OTHER -> every : o \in S}) \ {Nil}
Reach(S, how) ==
  LET after[n \in 0 .. Cardinality(Bodies)] ==
        IF n = 0 THEN S ELSE LET T == after[n - 1] IN T \cup Refs(T, how)
  IN after[Cardinality(Bodies)]

Waiting == Range(h.finobj)
Due == Range(h.tobefnz)

\* The shape of the collector's state: every object is on one list of its
\* own, marked gray lists hold gray objects, and sweep pointers point into
\* the lists they sweep (lgc.cpp:758, 873).
TypeOK ==
  /\ \A o \in Objs : h.kind[o] \in Kinds \cup {"free"} /\ h.val[o] \in [Keys -> Objs \cup {Nil}]
  /\ \A o \in Objs : (h.at[o] # Nil) <=> (h.kind[o] = "open")
  /\ h.state \in {"pause", "propagate", "sweepstring", "sweepudata", "sweep"}
  /\ Of(h, Kinds \ {"string", "open"}) = Range(h.allgc) \cup Waiting \cup Due
  /\ Len(h.allgc) + Len(h.finobj) + Len(h.tobefnz)
       = Cardinality(Range(h.allgc) \cup Waiting \cup Due)
  /\ h.sweepgc \in Range(h.allgc) \cup {Nil} /\ h.sweepfin \in Waiting \cup {Nil}
  /\ \A o \in h.gray \cup h.grayagain \cup h.weak \cup h.allweak \cup h.ephemeron : IsGray(h, o)

\* Memory safety: whatever the program can still get hold of, through weak
\* tables and cached closures too, is neither freed nor about to be; neither
\* is what waits for a finalizer (lgc.cpp:719, lfunc.cpp:57).
NothingLiveIsDead ==
  \A o \in Reach({Main} \cup Waiting \cup Due, "all") : h.kind[o] # "free" /\ ~IsDead(h, o)

\* "a black object can never point to a white one" (include/lgc.h:22) while the
\* program runs between the steps of a mark phase.
BlackNeverPointsToWhite ==
  h.state = "propagate" =>
    \A o \in {x \in Objs : h.kind[x] # "free" /\ IsBlack(h, x)} :
      \A v \in Refs({o}, "strong") : ~IsWhite(h, v)

\* Objects are freed only once nothing refers to them, finalizers are called
\* only for objects no strong reference reaches, and the end of a mark phase
\* clears entries of weak tables alone, and only for such keys and values
\* (lgc.cpp:999, 845).
Lost(t, k) == h.val[t][k] # Nil /\ h'.val[t][k] # h.val[t][k] /\ h'.kind[t] = h.kind[t]

\* The gray lists are walked to their ends (lgc.cpp:566, 625): no object is
\* linked into one of them while it is on one already.
MarkingEnds == ~h.looped

\* What no reference and no pending finalizer reaches is freed in the end,
\* unless the program gets it back through a weak table or its name.  Every
\* luaC_forcestep takes a collector step before it calls a finalizer
\* (lgc.cpp:1163): the strong fairness of CollectorStep, written out because
\* CanCollect is when one is enabled.
CanCollect == ~h.looped /\ (InFinalizer => Full(h))
LiveSpec == Spec /\ ([]<>CanCollect => []<><<CollectorStep>>_h) /\ WF_h(FinalizerReturns)
Garbage(o) == h.kind[o] # "free" /\ o \notin Reach({Main} \cup Waiting \cup Due, "strong")
GarbageIsFreed == \A o \in Objs : Garbage(o) ~> ~Garbage(o)
=============================================================================

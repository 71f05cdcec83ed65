----------------------------- MODULE LuaRegistry -----------------------------
(***************************************************************************)
(* References in the registry (luaL_ref and luaL_unref of lauxlib.cpp): a  *)
(* holder keeps a value by the number of the slot it is stored in, and     *)
(* released slots form a list through the registry itself, whose head is   *)
(* slot 0.  Holders are the fields of LuaSQL's userdata and the LuaBase    *)
(* objects of NLua.                                                        *)
(*                                                                         *)
(* The two functions are split where they store into the registry: all     *)
(* users of a Lua state are serialised but for the finalizer thread of     *)
(* .NET, which may run between any two stores and only forgets (LuaBase).  *)
(***************************************************************************)
EXTENDS Integers, Sequences

CONSTANTS Holders,    \* who may hold a reference
          Forgetful,  \* the holders that a .NET finalizer takes away
          Careless,   \* the holders that may take another reference, or go,
                      \* without having released the one in force
          Values,     \* the values of Lua that references keep
          Main,       \* the main thread, LUA_RIDX_MAINTHREAD
          Globals,    \* the table of globals, LUA_RIDX_GLOBALS
          Nil,
          MaxSlot     \* bound on the size of the registry

Slots == 1..MaxSlot
NoRef == -2           \* LUA_NOREF

ASSUME RegistryAssumption ==
    /\ MaxSlot \in Nat /\ MaxSlot >= 2
    /\ Forgetful \subseteq Holders /\ Careless \subseteq Holders
    /\ Main \in Values /\ Globals \in Values
    /\ Nil \notin Values /\ Nil \notin Slots
    /\ Values \cap Slots = {}

VARIABLES
    reg,    \* the registry; reg[0] is the head of the list of free slots
    ref,    \* ref[h]: the number in the holder, which outlives its reference
    held,   \* the holders whose reference is in force
    what,   \* what[h]: the value of the reference of h in force, or Nil (history)
    call,   \* the call of luaL_ref or luaL_unref under way
    free,   \* the free slots, the head of the list last (history)
    leaked  \* slots in use whose number nobody has any more (history)

regVars == <<reg, ref, held, what, call, free, leaked>>

Idle == [op |-> "idle"]
Quiet == call.op = "idle"

-----------------------------------------------------------------------------
(* luaL_ref *)

\* What lua_rawlen may return: luaH_getn finds some border.
Borders == {b \in 0..MaxSlot - 1 : (b = 0 \/ reg[b] # Nil) /\ reg[b + 1] = Nil}

RefBegin(h, v) ==
    /\ Quiet
    /\ IF reg[0] # Nil
       THEN call' = [op |-> "pop", h |-> h, v |-> v, slot |-> reg[0]]
       ELSE \E b \in Borders : call' = [op |-> "store", h |-> h, v |-> v, slot |-> b + 1]
    /\ UNCHANGED <<reg, ref, held, what, free, leaked>>

\* t[freelist] = t[ref]
RefPop ==
    /\ call.op = "pop"
    /\ reg' = [reg EXCEPT ![0] = reg[call.slot]]
    /\ call' = [op |-> "store", h |-> call.h, v |-> call.v, slot |-> call.slot]
    /\ free' = SubSeq(free, 1, Len(free) - 1)
    /\ UNCHANGED <<ref, held, what, leaked>>

\* t[ref] = value; the holder keeps the number, and loses the one it had.
RefStore ==
    /\ call.op = "store"
    /\ reg' = [reg EXCEPT ![call.slot] = call.v]
    /\ ref' = [ref EXCEPT ![call.h] = call.slot]
    /\ what' = [what EXCEPT ![call.h] = call.v]
    /\ held' = held \cup {call.h}
    /\ leaked' = leaked \cup {ref[h] : h \in held \cap {call.h}}
    /\ call' = Idle
    /\ UNCHANGED free

-----------------------------------------------------------------------------
(* luaL_unref: t[ref] = t[freelist], then t[freelist] = ref *)

UnrefBegin(h) ==
    /\ Quiet
    /\ ref[h] >= 0
    /\ reg' = [reg EXCEPT ![ref[h]] = reg[0]]
    /\ held' = held \ {h}
    /\ what' = [what EXCEPT ![h] = Nil]
    /\ call' = [op |-> "push", slot |-> ref[h]]
    /\ UNCHANGED <<ref, free, leaked>>

\* luaL_unref of LUA_NOREF
UnrefNothing(h) == Quiet /\ ref[h] < 0 /\ UNCHANGED regVars

UnrefEnd ==
    /\ call.op = "push"
    /\ reg' = [reg EXCEPT ![0] = call.slot]
    /\ free' = Append(free, call.slot)
    /\ call' = Idle
    /\ UNCHANGED <<ref, held, what, leaked>>

-----------------------------------------------------------------------------
(* LuaBase *)

\* As it would be, had the finalizer released the slot on its own thread.
ForgetAndUnref(h) ==
    /\ h \in held
    /\ reg' = [reg EXCEPT ![ref[h]] = reg[0], ![0] = ref[h]]
    /\ held' = held \ {h}
    /\ what' = [what EXCEPT ![h] = Nil]
    /\ free' = Append(free, ref[h])
    /\ ref' = [ref EXCEPT ![h] = NoRef]
    /\ UNCHANGED <<call, leaked>>

\* The finalizer ~LuaBase: the object is gone with its reference, the slot stays.
Forget(h) ==
    /\ h \in held
    /\ held' = held \ {h}
    /\ what' = [what EXCEPT ![h] = Nil]
    /\ leaked' = leaked \cup {ref[h]}
    /\ ref' = [ref EXCEPT ![h] = NoRef]
    /\ UNCHANGED <<reg, call, free>>

-----------------------------------------------------------------------------
\* init_registry
RegInit ==
    /\ reg = [s \in 0..MaxSlot |-> IF s = 1 THEN Main ELSE IF s = 2 THEN Globals ELSE Nil]
    /\ ref = [h \in Holders |-> NoRef]
    /\ held = {}
    /\ what = [h \in Holders |-> Nil]
    /\ call = Idle
    /\ free = <<>>
    /\ leaked = {}

\* The objects of hs are gone, the next ones have no references yet.
Reset(hs) ==
    /\ Quiet
    /\ held' = held \ hs
    /\ what' = [h \in Holders |-> IF h \in hs THEN Nil ELSE what[h]]
    /\ ref' = [h \in Holders |-> IF h \in hs THEN NoRef ELSE ref[h]]
    /\ leaked' = leaked \cup {ref[h] : h \in held \cap hs}
    /\ UNCHANGED <<reg, call, free>>

\* How the registry must be used: a holder that is not careless takes a reference when
\* it has none and goes when it has none, and any holder releases one in force only.
RegNext ==
    \/ \E h \in Holders : \/ \E v \in Values : /\ h \in held => h \in Careless
                                               /\ RefBegin(h, v)
                          \/ h \in held /\ UnrefBegin(h)
    \/ \E h \in Forgetful : Forget(h)
    \/ RefPop \/ RefStore \/ UnrefEnd
    \/ \E hs \in SUBSET Holders : hs \cap held \subseteq Careless /\ Reset(hs)

RegSpec == RegInit /\ [][RegNext]_regVars

-----------------------------------------------------------------------------
(* Properties *)

\* A reference in force denotes the value it was taken for, whatever was released,
\* reused or forgotten meanwhile, and its slot is its own: not shared, not reserved,
\* and not one that somebody left behind (lauxlib.cpp:522, ObjectTranslator.cs:747).
SlotsResolve ==
    /\ \A h \in held : ref[h] \in Slots \ ({1, 2} \cup leaked) /\ reg[ref[h]] = what[h]
    /\ \A g, h \in held : g # h => ref[g] # ref[h]

\* What a slot of the list holds: the next one down.
Below(i) == IF i = 0 THEN Nil ELSE free[i]
FreeListed ==
    /\ reg[0] = Below(Len(free))
    /\ \A i \in 1..Len(free) : reg[free[i]] = Below(i - 1)

\* Between two calls the registry holds exactly the reserved values, the values in
\* force, those that were leaked, and the list of free slots, without a gap: no slot
\* is lost but by a finalizer of .NET or a careless holder, and the registry grows
\* only when no slot is free (lauxlib.cpp:522).
EverySlotAccounted ==
    LET taken == {1, 2} \cup {ref[h] : h \in held} \cup leaked
        listed == {free[i] : i \in 1..Len(free)}
    IN  Quiet => /\ FreeListed
                 /\ listed \cap taken = {}
                 /\ {s \in Slots : reg[s] \in Values} = taken
                 /\ \A s \in taken \cup listed : s > 1 => s - 1 \in taken \cup listed
=============================================================================

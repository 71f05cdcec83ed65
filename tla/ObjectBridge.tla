---------------------------- MODULE ObjectBridge ----------------------------
(***************************************************************************)
(* NLua's object translator (ObjectTranslator.cs): how .NET objects are    *)
(* represented in a Lua state.  Each object Lua has seen has an index; the *)
(* dictionary `objects` maps indices to objects and keeps them alive,      *)
(* `objectsBackMap` maps objects to indices, and the table luaNet_objects  *)
(* of the registry maps indices weakly to the userdata that scripts hold.  *)
(* A userdata stores nothing but its index; its finalizer takes the index  *)
(* out of both dictionaries.                                               *)
(*                                                                         *)
(* Lua's collector first clears the weak entries of unreachable userdata,  *)
(* and runs their finalizers later, one by one; objects are pushed in      *)
(* between, and a script may have such a userdata again, from a table with *)
(* weak keys (these are cleared one collection later) or through another   *)
(* object that waits for its finalizer.  A collection, and with it the     *)
(* finalizers of scripts, may also run inside a push, between AddObject    *)
(* and lua_newuserdata.                                                    *)
(*                                                                         *)
(* Every index is taken from nextObj for the creation of one userdata, so  *)
(* userdata are numbered 0, 1, 2, ... and Id(u) is the index of u: an int  *)
(* of the .NET runtime, which wraps around.  Objects are compared with     *)
(* Equals, so equal values are one member of Objs.                         *)
(***************************************************************************)
EXTENDS Naturals, FiniteSets

CONSTANTS
    Objs,             \* .NET objects
    Extended,         \* those created by make_object, for a Lua table
    NoObj, NoId,      \* "no object", "no index"
    Size,             \* number of values of an int, 2^32 in the program
    MaxUdata          \* bound on the number of userdata

ASSUME BridgeAssumption == /\ Extended \subseteq Objs
                           /\ NoObj \notin Objs
                           /\ Size \in Nat \ {0}
                           /\ MaxUdata \in Nat

Ids == 0..Size - 1
Id(u) == u % Size
\* The int -1: luanet_tonetobject returns it for what is no .NET object.
MinusOne == Size - 1
ASSUME NoIdAssumption == NoId \notin Nat

VARIABLES
    made,      \* the userdata begun so far are 0..made - 1; nextObj is Id(made)
    target,    \* target[u]: the object u is created for
    phase,     \* phase[u]: "coming", "live", "cleared" (finalizer to come) or
               \* "gone" (the finalizer was called)
    coming,    \* the userdata whose push a collection has interrupted, or NoId
    overtaken, \* those whose object was pushed again meanwhile (history)
    held,      \* the userdata scripts can reach
    weak,      \* luaNet_objects: weak[i] is a userdata or NoId
    objects,   \* objects[i] or NoObj
    back       \* objectsBackMap: back[o] or NoId

luaVars == <<made, target, phase, coming, overtaken, held, weak>>
vars == <<luaVars, objects, back>>

Phases == {"coming", "live", "cleared", "gone"}
Udata == 0..made - 1

\* f, extended to d.
Extend(f, d, v) == [x \in DOMAIN f \cup {d} |-> IF x = d THEN v ELSE f[x]]

\* The last of the new userdata is there at once, or its push is interrupted.  A
\* finalizer is not: Lua starts no collection meanwhile.
Created(u) ==
    \/ /\ held' = held \cup {u}
       /\ weak' = [weak EXCEPT ![Id(u)] = u]
       /\ phase' = Extend(phase, u, "live")
       /\ UNCHANGED coming
    \/ /\ coming = NoId
       /\ coming' = u
       /\ phase' = Extend(phase, u, "coming")
       /\ UNCHANGED <<held, weak>>

\* AddObject and PushNewObject, on the dictionaries obs and bk.
NewUserdata(o, obs, bk) ==
    LET i == Id(made) IN
    /\ made < MaxUdata
    /\ made'    = made + 1
    /\ target'  = Extend(target, made, o)
    /\ objects' = [obs EXCEPT ![i] = o]
    /\ back'    = [bk EXCEPT ![o] = i]
    /\ Created(made)

\* The interrupted push goes on.
PushEnds ==
    /\ coming # NoId
    /\ held' = held \cup {coming}
    /\ weak' = [weak EXCEPT ![Id(coming)] = coming]
    /\ phase' = [phase EXCEPT ![coming] = "live"]
    /\ coming' = NoId
    /\ UNCHANGED <<made, target, overtaken, objects, back>>
-----------------------------------------------------------------------------
(* PushObject *)

\* The object has a userdata that was not cleared.
PushKnown(o) ==
    /\ back[o] # NoId
    /\ weak[back[o]] # NoId
    /\ held' = held \cup {weak[back[o]]}
    /\ UNCHANGED <<made, target, phase, coming, overtaken, weak, objects, back>>

\* Its weak entry was cleared, or is not there yet, but its finalizer has not run:
\* PushObject does the finalizer's work and takes a new index.  (mutant: the cleared entry is
\* used again)
PushReusing(o) ==
    LET i == back[o] IN
    /\ i # NoId /\ weak[i] = NoId
    /\ made < MaxUdata
    /\ made'   = made + 1
    /\ target' = Extend(target, made, o)
    /\ phase'  = Extend(phase, made, "live")
    /\ held'   = held \cup {made}
    /\ weak'   = [weak EXCEPT ![i] = made]
    /\ UNCHANGED <<coming, overtaken, objects, back>>

PushCleared(o) ==
    /\ back[o] # NoId
    /\ weak[back[o]] = NoId
    /\ overtaken' = overtaken \cup {u \in {coming} \ {NoId} : Id(u) = back[o]}
    /\ NewUserdata(o, [objects EXCEPT ![back[o]] = NoObj], back)

PushNew(o) ==
    /\ o \notin Extended
    /\ back[o] = NoId
    /\ NewUserdata(o, objects, back)
    /\ UNCHANGED overtaken

\* An extended object that .NET passes to Lua while objectsBackMap misses it.
PushAgain(o) ==
    /\ o \in Extended
    /\ back[o] = NoId
    /\ \E u \in Udata : target[u] = o
    /\ NewUserdata(o, objects, back)
    /\ UNCHANGED overtaken

\* RegisterTableInternal: a fresh object, which is pushed, while no script knows it,
\* and entered once more for the field "base".
RegisterTable(o) ==
    /\ o \in Extended
    /\ \A u \in Udata : target[u] # o
    /\ made + 2 <= MaxUdata
    /\ LET i == Id(made)
           j == Id(made + 1)
       IN  /\ made'    = made + 2
           /\ target'  = Extend(Extend(target, made, o), made + 1, o)
           /\ objects' = [objects EXCEPT ![i] = o, ![j] = o]
           /\ back'    = [back EXCEPT ![o] = j]
           /\ \/ /\ held'  = held \cup {made, made + 1}
                 /\ weak'  = [weak EXCEPT ![i] = made, ![j] = made + 1]
                 /\ phase' = Extend(Extend(phase, made, "live"), made + 1, "live")
                 /\ UNCHANGED coming
              \/ /\ coming = NoId
                 /\ coming' = made + 1
                 /\ held'  = held \cup {made}
                 /\ weak'  = [weak EXCEPT ![i] = made]
                 /\ phase' = Extend(Extend(phase, made, "live"), made + 1, "coming")
    /\ UNCHANGED overtaken
-----------------------------------------------------------------------------
(* The garbage collector of Lua and the finalizers *)

Drop(u) ==
    /\ u \in held
    /\ held' = held \ {u}
    /\ UNCHANGED <<made, target, phase, coming, overtaken, weak, objects, back>>

\* A script takes a userdata back from a table with weak keys, or from another object
\* that was found with it, before or after its finalizer.
Regain(u) ==
    /\ phase[u] \in {"cleared", "gone"} /\ u \notin held
    /\ held' = held \cup {u}
    /\ UNCHANGED <<made, target, phase, coming, overtaken, weak, objects, back>>

\* The atomic phase of a collection: what became unreachable after it was marked
\* survives until the next one.
Unreachable == {u \in Udata : phase[u] = "live" /\ u \notin held}
Clear(dead) ==
    /\ dead # {}
    /\ phase' = [u \in Udata |-> IF u \in dead THEN "cleared" ELSE phase[u]]
    /\ weak'  = [i \in Ids |-> IF weak[i] \in dead THEN NoId ELSE weak[i]]
    /\ UNCHANGED <<made, target, coming, overtaken, held, objects, back>>

\* MetaFunctions.CollectObject and ObjectTranslator.CollectObject(udata).
\* (mutants: the index is not taken out of the dictionary of objects; the object
\* is taken out of the back map although another call was first; all indices of
\* the object are taken out)
FinalizeObject(u) ==
    /\ phase[u] = "cleared"
    /\ phase' = [phase EXCEPT ![u] = "gone"]
    /\ objects' = [i \in Ids |-> IF objects[i] = target[u] THEN NoObj ELSE objects[i]]
    /\ back' = [back EXCEPT ![target[u]] = NoId]
    /\ UNCHANGED <<made, target, coming, overtaken, held, weak>>

FinalizeKeeping(u) ==
    /\ phase[u] = "cleared"
    /\ phase' = [phase EXCEPT ![u] = "gone"]
    /\ back' = IF objects[Id(u)] = NoObj THEN back
               ELSE [back EXCEPT ![objects[Id(u)]] = NoId]
    /\ UNCHANGED <<made, target, coming, overtaken, held, weak, objects>>

FinalizeAnyway(u) ==
    /\ phase[u] = "cleared"
    /\ phase' = [phase EXCEPT ![u] = "gone"]
    /\ objects' = [objects EXCEPT ![Id(u)] = NoObj]
    /\ back' = [back EXCEPT ![target[u]] = NoId]
    /\ UNCHANGED <<made, target, coming, overtaken, held, weak>>

Finalize(u) ==
    /\ phase[u] = "cleared"
    /\ phase' = [phase EXCEPT ![u] = "gone"]
    /\ IF Id(u) # MinusOne /\ objects[Id(u)] # NoObj
       THEN /\ objects' = [objects EXCEPT ![Id(u)] = NoObj]
            /\ back' = [back EXCEPT ![objects[Id(u)]] = NoId]
       ELSE UNCHANGED <<objects, back>>
    /\ UNCHANGED <<made, target, coming, overtaken, held, weak>>
-----------------------------------------------------------------------------
Init ==
    /\ made = 0
    /\ target = [u \in {} |-> NoObj]
    /\ phase = [u \in {} |-> "live"]
    /\ coming = NoId
    /\ overtaken = {}
    /\ held = {}
    /\ weak = [i \in Ids |-> NoId]
    /\ objects = [i \in Ids |-> NoObj]
    /\ back = [o \in Objs |-> NoId]

PushObject(o) == PushKnown(o) \/ PushCleared(o) \/ PushNew(o) \/ PushAgain(o)

Next ==
    \/ \E o \in Objs : PushObject(o) \/ RegisterTable(o)
    \/ \E u \in Udata : Drop(u) \/ Regain(u) \/ Finalize(u)
    \/ PushEnds
    \/ \E dead \in SUBSET Unreachable : Clear(dead)

Spec == Init /\ [][Next]_vars

\* Collections go on (a running script allocates memory), the finalizers they call run,
\* and an interrupted push goes on after them.
FairSpec ==
    /\ Spec
    /\ WF_vars(Clear(Unreachable))
    /\ WF_vars(\E u \in Udata : Finalize(u))
    /\ WF_vars(PushEnds)
-----------------------------------------------------------------------------
(* Properties *)

TypeOK ==
    /\ made \in 0..MaxUdata
    /\ target \in [Udata -> Objs]
    /\ phase \in [Udata -> Phases]
    /\ coming \in Udata \cup {NoId}
    /\ overtaken \subseteq Udata /\ held \subseteq Udata
    /\ weak \in [Ids -> Udata \cup {NoId}]
    /\ \A i \in Ids : weak[i] # NoId => Id(weak[i]) = i
    /\ objects \in [Ids -> Objs \cup {NoObj}]
    /\ back \in [Objs -> Ids \cup {NoId}]

\* A userdata that scripts hold resolves to the object it was created for: no
\* finalizer of an older userdata, run late, took it out of the dictionary.  One that
\* was cleared and regained, or overtaken by a push inside its own, may resolve to
\* nothing, but never to another object.
Resolves ==
    \A u \in held :
        /\ Id(u) # MinusOne
        /\ objects[Id(u)] \in {target[u], NoObj}
        /\ phase[u] = "live" /\ u \notin overtaken => objects[Id(u)] = target[u]

\* An object that is not extended has one userdata at a time, what is the same object
\* in .NET is equal in Lua; except for those that were cleared and regained, and those
\* that were overtaken.
OneUserdata ==
    \A u, v \in {w \in held \ overtaken : phase[w] = "live"} :
        target[u] = target[v] /\ target[u] \notin Extended => u = v

\* An object that scripts no longer hold is released in the end.
ObjectsAreReleased ==
    \A o \in Objs : <>[](\A u \in held : target[u] # o)
                    => <>[](\A i \in Ids : objects[i] # o)
=============================================================================

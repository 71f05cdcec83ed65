------------------------- MODULE ObjectBridgeProofs -------------------------
(***************************************************************************)
(* Proofs about ObjectBridge, for as many objects and userdata as the      *)
(* program creates before nextObj wraps around (NoWrap).                   *)
(***************************************************************************)
EXTENDS ObjectBridge, TLAPS

NoWrap == MaxUdata < Size

\* Until the wrap, the number of a userdata is its index.
LEMMA IdIsNumber ==
    ASSUME NoWrap, NEW u \in 0..MaxUdata
    PROVE  Id(u) = u /\ u \in Ids
<1>1. u \in Nat /\ Size \in Nat /\ 0 <= u /\ u < Size
  BY BridgeAssumption DEF NoWrap
<1>2. u % Size = u
  BY <1>1
<1>3. QED
  BY <1>1, <1>2 DEF Id, Ids

\* The strengthening: a live userdata is the weak entry of its index; the index
\* denotes its object, unless it was overtaken, and never another one; and the
\* interrupted push is the only one that is not done.
LiveEntry == \A u \in Udata : phase[u] = "live" =>
                /\ weak[Id(u)] = u
                /\ u \notin overtaken => objects[Id(u)] = target[u]
OwnOnly   == \A u \in Udata : objects[Id(u)] \in {target[u], NoObj}
OneComing == /\ \A u \in Udata : phase[u] = "coming" <=> u = coming
             /\ coming # NoId /\ coming \notin overtaken => objects[Id(coming)] = target[coming]
Inv == TypeOK /\ LiveEntry /\ OwnOnly /\ OneComing

LEMMA InvInit == ASSUME Init PROVE Inv
<1>1. Udata = {}
  BY DEF Init, Udata
<1>2. TypeOK
  BY <1>1, BridgeAssumption, NoIdAssumption DEF Init, TypeOK, Ids
<1>3. QED
  BY <1>1, <1>2 DEF Init, Inv, LiveEntry, OwnOnly, OneComing

LEMMA NumbersAreIndices ==
    ASSUME NoWrap, TypeOK
    PROVE  \A u \in Udata : u \in Nat /\ u < made /\ Id(u) = u /\ u \in Ids /\ u # NoId /\ u # made
<1>1. made \in Nat /\ made <= MaxUdata /\ MaxUdata \in Nat
  BY BridgeAssumption DEF TypeOK
<1>2. \A u \in Udata : u \in Nat /\ u < made /\ u \in 0..MaxUdata /\ u # made
  BY <1>1 DEF Udata
<1>3. QED
  BY <1>2, IdIsNumber, NoIdAssumption

\* One more userdata, for an object whose index, if it has one in bk, is not that
\* of a live userdata.
LEMMA InvNewUserdata ==
    ASSUME NoWrap, Inv, NEW o \in Objs, NEW obs, NEW d \in Ids,
           \/ obs = objects /\ overtaken' = overtaken
           \/ /\ obs = [objects EXCEPT ![d] = NoObj] /\ weak[d] = NoId
              /\ overtaken' = overtaken \cup {u \in {coming} \ {NoId} : Id(u) = d},
           NewUserdata(o, obs, back)
    PROVE  Inv'
<1>1. made \in Nat /\ made < MaxUdata /\ made \in 0..MaxUdata /\ MaxUdata \in Nat
  BY BridgeAssumption DEF Inv, TypeOK, NewUserdata
<1>2. Id(made) = made /\ made \in Ids /\ made # NoId
  BY <1>1, IdIsNumber, NoIdAssumption
<1>3. \A u \in Udata : Id(u) = u /\ u \in Ids /\ u # made /\ u # NoId
  BY NumbersAreIndices DEF Inv
<1>4. Udata' = Udata \cup {made} /\ made' = made + 1
  BY <1>1 DEF Udata, NewUserdata
<1>5. target' = [u \in Udata \cup {made} |-> IF u = made THEN o ELSE target[u]]
  BY DEF NewUserdata, Extend, Inv, TypeOK
<1>6. /\ objects' = [obs EXCEPT ![made] = o]
      /\ back' = [back EXCEPT ![o] = made]
  BY <1>2 DEF NewUserdata
<1>7. \E s \in {"live", "coming"} :
         /\ phase' = [u \in Udata \cup {made} |-> IF u = made THEN s ELSE phase[u]]
         /\ s = "live" => /\ held' = held \cup {made} /\ weak' = [weak EXCEPT ![made] = made]
                          /\ coming' = coming
         /\ s = "coming" => UNCHANGED <<held, weak>> /\ coming = NoId /\ coming' = made
  BY <1>2 DEF NewUserdata, Created, Extend, Inv, TypeOK
<1>8. PICK s \in {"live", "coming"} :
         /\ phase' = [u \in Udata \cup {made} |-> IF u = made THEN s ELSE phase[u]]
         /\ s = "live" => /\ held' = held \cup {made} /\ weak' = [weak EXCEPT ![made] = made]
                          /\ coming' = coming
         /\ s = "coming" => UNCHANGED <<held, weak>> /\ coming = NoId /\ coming' = made
  BY <1>7
<1>9. obs \in [Ids -> Objs \cup {NoObj}] /\ overtaken \subseteq overtaken' /\ overtaken' \subseteq Udata
  BY DEF Inv, TypeOK
<1>10. TypeOK'
  <2>1. made' \in 0..MaxUdata
    BY <1>1, <1>4
  <2>2. target' \in [Udata' -> Objs] /\ phase' \in [Udata' -> Phases]
    BY <1>4, <1>5, <1>8 DEF Inv, TypeOK, Phases
  <2>3. held' \subseteq Udata' /\ weak' \in [Ids -> Udata' \cup {NoId}]
    BY <1>4, <1>8 DEF Inv, TypeOK
  <2>4. \A i \in Ids : weak'[i] # NoId => Id(weak'[i]) = i
    BY <1>2, <1>8 DEF Inv, TypeOK
  <2>5. objects' \in [Ids -> Objs \cup {NoObj}] /\ back' \in [Objs -> Ids \cup {NoId}]
    BY <1>2, <1>6, <1>9 DEF Inv, TypeOK
  <2>6. coming' \in Udata' \cup {NoId} /\ overtaken' \subseteq Udata'
    BY <1>4, <1>8, <1>9 DEF Inv, TypeOK
  <2>7. QED
    BY <2>1, <2>2, <2>3, <2>4, <2>5, <2>6 DEF TypeOK
<1>11. /\ \A u \in Udata : objects'[u] = obs[u] /\ obs[u] \in {objects[u], NoObj}
       /\ objects'[made] = o
       /\ \A u \in Udata : target'[u] = target[u] /\ phase'[u] = phase[u]
       /\ target'[made] = o /\ phase'[made] = s
  BY <1>2, <1>3, <1>5, <1>6, <1>8, <1>9 DEF Inv, TypeOK
<1>12. LiveEntry'
  <2> SUFFICES ASSUME NEW u \in Udata', phase'[u] = "live"
               PROVE  weak'[Id(u)] = u /\ (u \notin overtaken' => objects'[Id(u)] = target'[u])
    BY DEF LiveEntry
  <2>1. CASE u = made
    BY <2>1, <1>2, <1>8, <1>11 DEF Inv, TypeOK
  <2>2. CASE u # made
    <3>1. u \in Udata /\ phase[u] = "live" /\ Id(u) = u /\ u \in Ids /\ u # NoId
      BY <2>2, <1>3, <1>4, <1>11
    <3>2. weak[u] = u /\ (u \notin overtaken => objects[u] = target[u])
      BY <3>1 DEF Inv, LiveEntry
    <3>3. obs[u] = objects[u]
      BY <3>1, <3>2 DEF Inv, TypeOK
    <3>4. weak'[u] = weak[u]
      BY <2>2, <3>1, <1>8 DEF Inv, TypeOK
    <3>5. QED
      BY <3>1, <3>2, <3>3, <3>4, <1>9, <1>11
  <2>3. QED
    BY <2>1, <2>2
<1>13. OwnOnly'
  BY <1>2, <1>3, <1>4, <1>11 DEF Inv, OwnOnly
<1>14. OneComing'
  <2>1. \A u \in Udata' : phase'[u] = "coming" <=> u = coming'
    BY <1>2, <1>3, <1>4, <1>8, <1>11 DEF Inv, OneComing, TypeOK
  <2>2. ASSUME coming' # NoId, coming' \notin overtaken' PROVE objects'[Id(coming')] = target'[coming']
    <3>1. CASE s = "coming"
      BY <3>1, <1>2, <1>8, <1>11
    <3>2. CASE s = "live"
      <4>1. coming' = coming /\ coming \in Udata /\ Id(coming) = coming /\ coming \in Ids
        BY <3>2, <2>2, <1>3, <1>8 DEF Inv, TypeOK
      <4>2. objects[coming] = target[coming]
        BY <2>2, <4>1, <1>9 DEF Inv, OneComing
      <4>3. obs[coming] = objects[coming]
        BY <2>2, <4>1 DEF Inv, TypeOK
      <4>4. QED
        BY <4>1, <4>2, <4>3, <1>11
    <3>3. QED
      BY <3>1, <3>2
  <2>3. QED
    BY <2>1, <2>2 DEF OneComing
<1>15. QED
  BY <1>10, <1>12, <1>13, <1>14 DEF Inv

LEMMA InvPush ==
    ASSUME NoWrap, Inv, NEW o \in Objs, PushObject(o)
    PROVE  Inv'
<1>1. CASE PushKnown(o)
  <2>1. back[o] \in Ids /\ weak[back[o]] \in Udata
    BY <1>1 DEF PushKnown, Inv, TypeOK
  <2>2. QED
    BY <1>1, <2>1 DEF PushKnown, Inv, TypeOK, LiveEntry, OwnOnly, OneComing, Udata
<1>2. CASE PushCleared(o)
  <2>1. back[o] \in Ids
    BY <1>2 DEF PushCleared, Inv, TypeOK
  <2>2. QED
    BY <1>2, <2>1, InvNewUserdata DEF PushCleared
<1>3. CASE PushNew(o) \/ PushAgain(o)
  <2>1. NewUserdata(o, objects, back) /\ overtaken' = overtaken
    BY <1>3 DEF PushNew, PushAgain
  <2>2. 0 \in Ids
    BY BridgeAssumption DEF Ids
  <2>3. QED
    BY <2>1, <2>2, InvNewUserdata
<1>4. QED
  BY <1>1, <1>2, <1>3 DEF PushObject

LEMMA InvPushEnds == ASSUME NoWrap, Inv, PushEnds PROVE Inv'
<1>1. /\ coming \in Udata /\ Id(coming) = coming /\ coming \in Ids /\ coming # NoId
      /\ Udata' = Udata /\ NoId \notin Udata
  BY NumbersAreIndices DEF PushEnds, Inv, TypeOK, Udata
<1>2. /\ held' = held \cup {coming} /\ weak' = [weak EXCEPT ![coming] = coming]
      /\ phase' = [phase EXCEPT ![coming] = "live"] /\ coming' = NoId
      /\ UNCHANGED <<made, target, overtaken, objects, back>>
  BY <1>1 DEF PushEnds
<1>3. TypeOK'
  BY <1>1, <1>2 DEF Inv, TypeOK, Phases
<1>4. LiveEntry'
  <2> SUFFICES ASSUME NEW u \in Udata, phase'[u] = "live"
               PROVE  weak'[Id(u)] = u /\ (u \notin overtaken' => objects'[Id(u)] = target'[u])
    BY <1>1 DEF LiveEntry
  <2>1. CASE u = coming
    BY <2>1, <1>1, <1>2 DEF Inv, OneComing, TypeOK
  <2>2. CASE u # coming
    BY <2>2, <1>1, <1>2, NumbersAreIndices DEF Inv, TypeOK, LiveEntry
  <2>3. QED
    BY <2>1, <2>2
<1>5. OwnOnly' /\ OneComing'
  BY <1>1, <1>2 DEF Inv, TypeOK, OwnOnly, OneComing
<1>6. QED
  BY <1>3, <1>4, <1>5 DEF Inv

LEMMA InvRegister ==
    ASSUME NoWrap, Inv, NEW o \in Objs, RegisterTable(o)
    PROVE  Inv'
<1> DEFINE m == made + 1
<1>1. made \in 0..MaxUdata /\ m \in 0..MaxUdata /\ made + 2 \in 0..MaxUdata /\ made # m /\ m # NoId
  BY BridgeAssumption, NoIdAssumption DEF Inv, TypeOK, RegisterTable
<1>2. Id(made) = made /\ made \in Ids /\ Id(m) = m /\ m \in Ids
  BY <1>1, IdIsNumber
<1>3. \A u \in Udata : Id(u) = u /\ u \in Ids /\ u # made /\ u # m /\ u # NoId
  BY <1>1, NumbersAreIndices DEF Inv
<1>4. Udata' = Udata \cup {made, m} /\ made' = made + 2
  <2>1. made \in Nat /\ made' = made + 2
    BY <1>1 DEF RegisterTable
  <2>2. 0..(made + 2) - 1 = (0..made - 1) \cup {made, made + 1}
    BY <2>1
  <2>3. QED
    BY <2>1, <2>2 DEF Udata
<1>5. target' = [u \in Udata \cup {made, m} |-> IF u \in {made, m} THEN o ELSE target[u]]
  BY <1>1 DEF RegisterTable, Extend, Inv, TypeOK
<1>6. /\ objects' = [objects EXCEPT ![made] = o, ![m] = o]
      /\ back' = [back EXCEPT ![o] = m] /\ overtaken' = overtaken
  BY <1>2 DEF RegisterTable
<1>7. \E s \in {"live", "coming"} :
         /\ phase' = [u \in Udata \cup {made, m} |-> IF u = m THEN s
                                                     ELSE IF u = made THEN "live" ELSE phase[u]]
         /\ s = "live" => /\ held' = held \cup {made, m}
                          /\ weak' = [weak EXCEPT ![made] = made, ![m] = m]
                          /\ coming' = coming
         /\ s = "coming" => /\ held' = held \cup {made}
                            /\ weak' = [weak EXCEPT ![made] = made]
                            /\ coming = NoId /\ coming' = m
  BY <1>1, <1>2 DEF RegisterTable, Extend, Inv, TypeOK
<1>8. PICK s \in {"live", "coming"} :
         /\ phase' = [u \in Udata \cup {made, m} |-> IF u = m THEN s
                                                     ELSE IF u = made THEN "live" ELSE phase[u]]
         /\ s = "live" => /\ held' = held \cup {made, m}
                          /\ weak' = [weak EXCEPT ![made] = made, ![m] = m]
                          /\ coming' = coming
         /\ s = "coming" => /\ held' = held \cup {made}
                            /\ weak' = [weak EXCEPT ![made] = made]
                            /\ coming = NoId /\ coming' = m
  BY <1>7
<1> HIDE DEF m
<1>9. TypeOK'
  <2>1. made' \in 0..MaxUdata
    BY <1>1, <1>4
  <2>2. target' \in [Udata' -> Objs] /\ phase' \in [Udata' -> Phases]
    BY <1>4, <1>5, <1>8 DEF Inv, TypeOK, Phases
  <2>3. held' \subseteq Udata' /\ weak' \in [Ids -> Udata' \cup {NoId}]
    BY <1>4, <1>8 DEF Inv, TypeOK
  <2>4. \A i \in Ids : weak'[i] # NoId => Id(weak'[i]) = i
    BY <1>2, <1>8 DEF Inv, TypeOK
  <2>5. objects' \in [Ids -> Objs \cup {NoObj}] /\ back' \in [Objs -> Ids \cup {NoId}]
    BY <1>2, <1>6 DEF Inv, TypeOK
  <2>6. coming' \in Udata' \cup {NoId} /\ overtaken' \subseteq Udata'
    BY <1>4, <1>6, <1>8 DEF Inv, TypeOK
  <2>7. QED
    BY <2>1, <2>2, <2>3, <2>4, <2>5, <2>6 DEF TypeOK
<1>10. /\ \A u \in Udata : objects'[u] = objects[u] /\ target'[u] = target[u] /\ phase'[u] = phase[u]
       /\ objects'[made] = o /\ objects'[m] = o /\ target'[made] = o /\ target'[m] = o
       /\ phase'[made] = "live" /\ phase'[m] = s
  BY <1>1, <1>2, <1>3, <1>5, <1>6, <1>8 DEF Inv, TypeOK
<1>11. LiveEntry'
  <2> SUFFICES ASSUME NEW u \in Udata', phase'[u] = "live"
               PROVE  weak'[Id(u)] = u /\ (u \notin overtaken' => objects'[Id(u)] = target'[u])
    BY DEF LiveEntry
  <2>1. CASE u \in {made, m}
    BY <2>1, <1>1, <1>2, <1>8, <1>10 DEF Inv, TypeOK
  <2>2. CASE u \notin {made, m}
    <3>1. u \in Udata /\ phase[u] = "live" /\ Id(u) = u /\ u \in Ids
      BY <2>2, <1>3, <1>4, <1>10
    <3>2. weak[u] = u /\ (u \notin overtaken => objects[u] = target[u])
      BY <3>1 DEF Inv, LiveEntry
    <3>3. weak'[u] = weak[u]
      BY <2>2, <3>1, <1>8 DEF Inv, TypeOK
    <3>4. QED
      BY <3>1, <3>2, <3>3, <1>6, <1>10
  <2>3. QED
    BY <2>1, <2>2
<1>12. OwnOnly'
  BY <1>2, <1>3, <1>4, <1>10 DEF Inv, OwnOnly
<1>13. OneComing'
  <2>1. \A u \in Udata' : phase'[u] = "coming" <=> u = coming'
    <3>1. coming \in Udata \cup {NoId} /\ made # NoId
      BY <1>1, NoIdAssumption DEF Inv, TypeOK
    <3>2. QED
      BY <3>1, <1>1, <1>3, <1>4, <1>8, <1>10 DEF Inv, OneComing
  <2>2. ASSUME coming' # NoId, coming' \notin overtaken' PROVE objects'[Id(coming')] = target'[coming']
    <3>1. CASE s = "coming"
      BY <3>1, <1>2, <1>8, <1>10
    <3>2. CASE s = "live"
      <4>1. coming' = coming /\ coming \in Udata /\ Id(coming) = coming
        BY <3>2, <2>2, <1>3, <1>8 DEF Inv, TypeOK
      <4>2. QED
        BY <2>2, <4>1, <1>6, <1>10 DEF Inv, OneComing
    <3>3. QED
      BY <3>1, <3>2
  <2>3. QED
    BY <2>1, <2>2 DEF OneComing
<1>14. QED
  BY <1>9, <1>11, <1>12, <1>13 DEF Inv

LEMMA InvClear ==
    ASSUME NoWrap, Inv, NEW dead \in SUBSET Unreachable, Clear(dead)
    PROVE  Inv'
<1>1. /\ Udata' = Udata /\ dead \subseteq Udata /\ NoId \notin dead
      /\ \A u \in dead : phase[u] = "live"
  BY NumbersAreIndices DEF Clear, Udata, Unreachable, Inv
<1>2. TypeOK'
  BY <1>1 DEF Inv, TypeOK, Clear, Phases
<1>3. LiveEntry'
  <2> SUFFICES ASSUME NEW u \in Udata, phase'[u] = "live"
               PROVE  weak'[Id(u)] = u /\ (u \notin overtaken' => objects'[Id(u)] = target'[u])
    BY <1>1 DEF LiveEntry
  <2>1. u \notin dead /\ phase[u] = "live"
    BY <1>1 DEF Clear
  <2>2. weak[Id(u)] = u /\ Id(u) \in Ids
    BY <2>1, NumbersAreIndices DEF Inv, LiveEntry
  <2>3. QED
    BY <2>1, <2>2 DEF Clear, Inv, LiveEntry
<1>4. OwnOnly' /\ OneComing'
  <2>1. \A u \in Udata : phase'[u] = "coming" <=> phase[u] = "coming"
    BY <1>1 DEF Clear
  <2>2. QED
    BY <1>1, <2>1 DEF Clear, Inv, TypeOK, OwnOnly, OneComing
<1>5. QED
  BY <1>2, <1>3, <1>4 DEF Inv

LEMMA InvFinalize ==
    ASSUME NoWrap, Inv, NEW u \in Udata, Finalize(u)
    PROVE  Inv'
<1>1. UNCHANGED <<weak, held, target, made, coming, overtaken>> /\ Udata' = Udata
  BY DEF Finalize, Udata
<1>2. \A v \in Udata : Id(v) = v /\ v \in Ids
  BY NumbersAreIndices DEF Inv
<1>3. phase' = [phase EXCEPT ![u] = "gone"] /\ phase[u] = "cleared"
  BY DEF Finalize
<1>4. /\ objects' = objects \/ objects' = [objects EXCEPT ![u] = NoObj]
      /\ back' \in [Objs -> Ids \cup {NoId}]
  BY <1>2 DEF Finalize, Inv, TypeOK
<1>5. TypeOK'
  BY <1>1, <1>3, <1>4 DEF Inv, TypeOK, Phases, Ids
<1>6. /\ \A v \in Udata : v # u => objects'[v] = objects[v] /\ phase'[v] = phase[v]
      /\ phase'[u] = "gone" /\ objects'[u] \in {objects[u], NoObj}
  BY <1>2, <1>3, <1>4 DEF Inv, TypeOK
<1>7. LiveEntry' /\ OwnOnly'
  BY <1>1, <1>2, <1>6 DEF Inv, LiveEntry, OwnOnly
<1>8. OneComing'
  <2>1. coming \in Udata \cup {NoId} /\ coming # u
    BY <1>3 DEF Inv, TypeOK, OneComing
  <2>2. \A v \in Udata : phase'[v] = "coming" <=> v = coming'
    BY <1>1, <1>3, <1>6, <2>1 DEF Inv, OneComing
  <2>3. coming # NoId /\ coming \notin overtaken => objects'[Id(coming)] = target[coming]
    BY <1>2, <1>6, <2>1 DEF Inv, OneComing
  <2>4. QED
    BY <1>1, <2>2, <2>3 DEF OneComing
<1>9. QED
  BY <1>5, <1>7, <1>8 DEF Inv

LEMMA InvNext == ASSUME NoWrap, Inv, [Next]_vars PROVE Inv'
<1>1. ASSUME NEW o \in Objs, PushObject(o) PROVE Inv'
  BY <1>1, InvPush
<1>2. ASSUME NEW o \in Objs, RegisterTable(o) PROVE Inv'
  BY <1>2, InvRegister
<1>3. ASSUME NEW u \in Udata, Drop(u) \/ Regain(u) PROVE Inv'
  BY <1>3 DEF Drop, Regain, Inv, TypeOK, LiveEntry, OwnOnly, OneComing, Udata
<1>4. ASSUME NEW u \in Udata, Finalize(u) PROVE Inv'
  BY <1>4, InvFinalize
<1>5. ASSUME NEW dead \in SUBSET Unreachable, Clear(dead) PROVE Inv'
  BY <1>5, InvClear
<1>6. CASE PushEnds
  BY <1>6, InvPushEnds
<1>7. CASE UNCHANGED vars
  BY <1>7 DEF vars, luaVars, Inv, TypeOK, LiveEntry, OwnOnly, OneComing, Udata
<1>8. QED
  BY <1>1, <1>2, <1>3, <1>4, <1>5, <1>6, <1>7 DEF Next

\* Until nextObj wraps, every userdata a script holds resolves to the object it
\* was created for, whenever the finalizers of older userdata run, unless it was
\* cleared and regained or overtaken inside its own push; then it may resolve to
\* nothing, but to no other object (ObjectTranslator.cs: PushObject, CollectObject).
THEOREM HeldResolves == ASSUME NoWrap PROVE Spec => []Resolves
<1>1. Init => Inv
  BY InvInit
<1>2. Inv /\ [Next]_vars => Inv'
  BY InvNext
<1>3. Inv => Resolves
  <2> SUFFICES ASSUME Inv, NEW u \in held
               PROVE  /\ Id(u) # MinusOne /\ objects[Id(u)] \in {target[u], NoObj}
                      /\ phase[u] = "live" /\ u \notin overtaken => objects[Id(u)] = target[u]
    BY DEF Resolves
  <2>1. u \in Udata /\ made <= MaxUdata /\ made \in Nat
    BY BridgeAssumption DEF Inv, TypeOK
  <2>2. Id(u) = u /\ u < made /\ u \in Nat
    BY <2>1, NumbersAreIndices DEF Inv
  <2>3. Id(u) # MinusOne
    BY <2>1, <2>2, BridgeAssumption DEF MinusOne, NoWrap
  <2>4. QED
    BY <2>1, <2>3 DEF Inv, LiveEntry, OwnOnly
<1>4. QED
  BY <1>1, <1>2, <1>3, PTL DEF Spec

\* The translator's state stays well-typed until nextObj wraps.
THEOREM BridgeTypeCorrect == ASSUME NoWrap PROVE Spec => []TypeOK
<1>1. Init => Inv
  BY InvInit
<1>2. Inv /\ [Next]_vars => Inv'
  BY InvNext
<1>3. Inv => TypeOK
  BY DEF Inv
<1>4. QED
  BY <1>1, <1>2, <1>3, PTL DEF Spec
-----------------------------------------------------------------------------
(* One userdata for an object *)

\* The dictionaries agree on what is not extended: the back map holds the only
\* index under which the object can be found.
OneIndex == \A o \in Objs \ Extended, i \in Ids : objects[i] = o => back[o] = i

LEMMA OneIndexNewUserdata ==
    ASSUME NoWrap, Inv, OneIndex, NEW o \in Objs, NEW obs,
           obs \in [Ids -> Objs \cup {NoObj}],
           \A i \in Ids : obs[i] # NoObj => obs[i] = objects[i],
           o \notin Extended => \A i \in Ids : obs[i] # o,
           NewUserdata(o, obs, back)
    PROVE  OneIndex'
<1>1. made \in 0..MaxUdata
  BY BridgeAssumption DEF Inv, TypeOK, NewUserdata
<1>2. Id(made) = made /\ made \in Ids
  BY <1>1, IdIsNumber
<1>3. objects' = [obs EXCEPT ![made] = o] /\ back' = [back EXCEPT ![o] = made]
  BY <1>2 DEF NewUserdata
<1>4. SUFFICES ASSUME NEW p \in Objs \ Extended, NEW i \in Ids, objects'[i] = p
               PROVE  back'[p] = i
  BY DEF OneIndex
<1>5. CASE i = made
  BY <1>2, <1>3, <1>4, <1>5 DEF Inv, TypeOK
<1>6. CASE i # made
  <2>1. obs[i] = p
    BY <1>2, <1>3, <1>4, <1>6
  <2>2. objects[i] = p /\ p # o
    BY <2>1, <1>4, BridgeAssumption
  <2>3. back[p] = i
    BY <2>2 DEF OneIndex
  <2>4. QED
    BY <2>2, <2>3, <1>3 DEF Inv, TypeOK
<1>7. QED
  BY <1>5, <1>6

LEMMA OneIndexPush ==
    ASSUME NoWrap, Inv, OneIndex, NEW o \in Objs, PushObject(o)
    PROVE  OneIndex'
<1>1. CASE PushKnown(o)
  BY <1>1 DEF PushKnown, OneIndex
<1>2. CASE PushCleared(o)
  <2> DEFINE obs == [objects EXCEPT ![back[o]] = NoObj]
  <2>1. back[o] \in Ids /\ NewUserdata(o, obs, back)
    BY <1>2 DEF PushCleared, Inv, TypeOK
  <2>2. obs \in [Ids -> Objs \cup {NoObj}]
    BY <2>1 DEF Inv, TypeOK
  <2>3. \A i \in Ids : obs[i] # NoObj => obs[i] = objects[i]
    BY <2>1 DEF Inv, TypeOK
  <2>4. o \notin Extended => \A i \in Ids : obs[i] # o
    <3> SUFFICES ASSUME o \notin Extended, NEW i \in Ids, obs[i] = o PROVE FALSE
      OBVIOUS
    <3>1. i # back[o] /\ objects[i] = o
      BY <2>1, BridgeAssumption DEF Inv, TypeOK
    <3>2. QED
      BY <3>1 DEF OneIndex
  <2> HIDE DEF obs
  <2>5. QED
    BY <2>1, <2>2, <2>3, <2>4, OneIndexNewUserdata
<1>3. CASE PushNew(o) \/ PushAgain(o)
  <2>1. NewUserdata(o, objects, back) /\ objects \in [Ids -> Objs \cup {NoObj}]
    BY <1>3 DEF PushNew, PushAgain, Inv, TypeOK
  <2>2. o \notin Extended => \A i \in Ids : objects[i] # o
    BY <1>3, NoIdAssumption DEF PushNew, PushAgain, OneIndex, Ids
  <2>3. QED
    BY <2>1, <2>2, OneIndexNewUserdata
<1>4. QED
  BY <1>1, <1>2, <1>3 DEF PushObject

LEMMA OneIndexRegister ==
    ASSUME NoWrap, Inv, OneIndex, NEW o \in Objs, RegisterTable(o)
    PROVE  OneIndex'
<1>1. made \in 0..MaxUdata /\ made + 1 \in 0..MaxUdata /\ o \in Extended
  BY BridgeAssumption DEF Inv, TypeOK, RegisterTable
<1>2. Id(made) = made /\ made \in Ids /\ Id(made + 1) = made + 1 /\ made + 1 \in Ids
  BY <1>1, IdIsNumber
<1>3. /\ objects' = [objects EXCEPT ![made] = o, ![made + 1] = o]
      /\ back' = [back EXCEPT ![o] = made + 1]
  BY <1>2 DEF RegisterTable
<1>4. QED
  BY <1>1, <1>2, <1>3 DEF Inv, TypeOK, OneIndex

\* The finalizer that takes an index out of the one dictionary takes its object
\* out of the other.
LEMMA OneIndexFinalize ==
    ASSUME NoWrap, Inv, OneIndex, NEW u \in Udata, Finalize(u)
    PROVE  OneIndex'
<1>1. Id(u) = u /\ u \in Ids
  BY IdIsNumber, BridgeAssumption DEF Udata, Inv, TypeOK
<1>2. CASE UNCHANGED <<objects, back>>
  BY <1>2 DEF OneIndex
<1>3. CASE /\ objects[u] # NoObj
           /\ objects' = [objects EXCEPT ![u] = NoObj]
           /\ back' = [back EXCEPT ![objects[u]] = NoId]
  <2> SUFFICES ASSUME NEW p \in Objs \ Extended, NEW i \in Ids, objects'[i] = p
               PROVE  back'[p] = i
    BY DEF OneIndex
  <2>1. i # u /\ objects[i] = p
    BY <1>1, <1>3, BridgeAssumption DEF Inv, TypeOK
  <2>2. back[p] = i /\ objects[u] # p
    BY <2>1, <1>1 DEF OneIndex
  <2>3. QED
    BY <2>2, <1>3 DEF Inv, TypeOK
<1>4. QED
  BY <1>1, <1>2, <1>3 DEF Finalize

LEMMA OneIndexNext == ASSUME NoWrap, Inv, OneIndex, [Next]_vars PROVE OneIndex'
<1>1. ASSUME NEW o \in Objs, PushObject(o) PROVE OneIndex'
  BY <1>1, OneIndexPush
<1>2. ASSUME NEW o \in Objs, RegisterTable(o) PROVE OneIndex'
  BY <1>2, OneIndexRegister
<1>3. ASSUME NEW u \in Udata, Finalize(u) PROVE OneIndex'
  BY <1>3, OneIndexFinalize
<1>4. CASE UNCHANGED <<objects, back>>
  BY <1>4 DEF OneIndex
<1>5. QED
  BY <1>1, <1>2, <1>3, <1>4 DEF Next, Drop, Regain, Clear, PushEnds, vars

\* Until nextObj wraps, two userdata that scripts hold are of different objects,
\* unless the object is an extended one, or one of the two was regained or overtaken:
\* what is the same object in .NET is equal in Lua (ObjectTranslator.cs: PushObject).
THEOREM ObjectsAreEqual == ASSUME NoWrap PROVE Spec => []OneUserdata
<1>1. Init => Inv /\ OneIndex
  BY InvInit, BridgeAssumption DEF Init, OneIndex
<1>2. Inv /\ OneIndex /\ [Next]_vars => (Inv /\ OneIndex)'
  BY InvNext, OneIndexNext
<1>3. Inv /\ OneIndex => OneUserdata
  <2> SUFFICES ASSUME Inv, OneIndex, NEW u \in held \ overtaken, NEW v \in held \ overtaken,
                      phase[u] = "live", phase[v] = "live",
                      target[u] = target[v], target[u] \notin Extended
               PROVE  u = v
    BY DEF OneUserdata
  <2>1. u \in Udata /\ v \in Udata
    BY DEF Inv, TypeOK
  <2>2. Id(u) = u /\ u \in Ids /\ Id(v) = v /\ v \in Ids
    BY <2>1, NumbersAreIndices DEF Inv
  <2>3. objects[u] = target[u] /\ objects[v] = target[u] /\ target[u] \in Objs
    BY <2>1, <2>2 DEF Inv, LiveEntry, TypeOK
  <2>4. QED
    BY <2>2, <2>3 DEF OneIndex
<1>4. QED
  BY <1>1, <1>2, <1>3, PTL DEF Spec
=============================================================================

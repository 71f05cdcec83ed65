-------------------------- MODULE LuaSqlMysqlProofs ---------------------------
(***************************************************************************)
(* What is proved of the registry of references and of those who use it.   *)
(*                                                                         *)
(* The registry keeps what its users rely on, for any holders, values and  *)
(* size: whoever uses luaL_ref and luaL_unref as RegNext says finds its    *)
(* value in a slot of its own, and no slot is lost.  The invariant         *)
(* accounts for every slot while a call is under way: it is reserved, in   *)
(* force, leaked, on the list, or the one slot that the call has taken off *)
(* the list and not stored to yet, or not yet put on it.                   *)
(*                                                                         *)
(* LuaSQL's driver for MySQL and the values held by .NET use the registry  *)
(* as LuaRegistry asks, for any sets of connections, cursors and wrappers: *)
(* Spec implements RegSpec, and what is proved of RegSpec holds of Spec.   *)
(* The invariant follows a reference through a method: it is in force, or  *)
(* due to be taken by a call in todo or under way, or due to be released.  *)
(***************************************************************************)
EXTENDS LuaSqlMysql, SequenceTheorems, TLAPS

Taken == {1, 2} \cup {ref[h] : h \in held} \cup leaked
Listed == {free[i] : i \in 1..Len(free)}
Pending == {s \in Slots : call.op \in {"store", "push"} /\ s = call.slot}
Used == Taken \cup Listed \cup Pending

Calls == {Idle} \cup [op : {"pop", "store"}, h : Holders, v : Values, slot : Slots]
                \cup [op : {"push"}, slot : Slots]

RegType ==
    /\ reg \in [0..MaxSlot -> Values \cup Slots \cup {Nil}]
    /\ ref \in [Holders -> Slots \cup {NoRef}]
    /\ held \subseteq Holders
    /\ what \in [Holders -> Values \cup {Nil}]
    /\ call \in Calls
    /\ free \in Seq(Slots)
    /\ leaked \subseteq Slots

\* Every reference in force has a slot of its own with its value.
Resolved ==
    \A h \in held : /\ ref[h] \in Slots \ ({1, 2} \cup leaked)
                    /\ what[h] \in Values
                    /\ reg[ref[h]] = what[h]

Distinct == \A g, h \in held : g # h => ref[g] # ref[h]

\* The reserved and the leaked slots keep a value.
Kept == \A s \in {1, 2} \cup leaked : reg[s] \in Values

\* The list has no slot twice and none that is in use.
ListApart ==
    /\ \A i, j \in 1..Len(free) : i # j => free[i] # free[j]
    /\ \A i \in 1..Len(free) : free[i] \notin Taken

\* What each step of a call may rely on.
CallSound ==
    /\ call.op = "pop" => Len(free) > 0 /\ call.slot = free[Len(free)]
    /\ call.op \in {"store", "push"} => call.slot \notin Taken \cup Listed
    /\ call.op = "push" => reg[call.slot] = Below(Len(free))

\* Values are in slots that are taken, and the slots in use have no gap.
NoGap ==
    /\ \A s \in Slots : reg[s] \in Values => s \in Taken
    /\ \A s \in Slots : reg[s] # Nil => s \in Used
    /\ \A s \in Used : s > 1 => s - 1 \in Used

RegInv ==
    RegType /\ Resolved /\ Distinct /\ Kept /\ ListApart /\ FreeListed /\ CallSound /\ NoGap

-----------------------------------------------------------------------------
LEMMA Reserved == 1 \in Slots /\ 2 \in Slots /\ MaxSlot \in Nat
BY RegistryAssumption DEF Slots

LEMMA RegInvInit == ASSUME RegInit PROVE RegInv
<1>1. Len(free) = 0 /\ free \in Seq(Slots)
  BY DEF RegInit
<1>2. RegType
  BY <1>1, RegistryAssumption, Reserved DEF RegInit, RegType, Calls, Slots, NoRef, Idle
<1>3. Resolved /\ Distinct /\ Kept /\ ListApart /\ CallSound
  BY <1>1, RegistryAssumption, Reserved
     DEF RegInit, Resolved, Distinct, Kept, ListApart, CallSound, Idle, Slots
<1>4. FreeListed
  BY <1>1, RegistryAssumption, Reserved DEF RegInit, FreeListed, Below, Slots
<1>5. NoGap
  BY <1>1, RegistryAssumption, Reserved
     DEF RegInit, NoGap, Used, Taken, Listed, Pending, Idle, Slots
<1>6. QED
  BY <1>2, <1>3, <1>4, <1>5 DEF RegInv

\* The head of the list is the last of free.
LEMMA HeadOfList ==
    ASSUME RegInv
    PROVE  /\ Len(free) \in Nat
           /\ reg[0] = Nil => Len(free) = 0
           /\ reg[0] # Nil => Len(free) > 0 /\ reg[0] = free[Len(free)] /\ reg[0] \in Slots
BY RegistryAssumption DEF RegInv, RegType, FreeListed, Below

\* luaL_ref chooses the head of the list, or the slot above some border.
LEMMA RegInvRefBegin ==
    ASSUME RegInv, NEW h \in Holders, NEW v \in Values, RefBegin(h, v)
    PROVE  RegInv'
<1> USE DEF RegInv
<1>1. UNCHANGED <<reg, ref, held, what, free, leaked>> /\ Quiet /\ Taken' = Taken /\ Listed' = Listed
  BY DEF RefBegin, Taken, Listed
<1>2. Resolved' /\ Distinct' /\ Kept' /\ ListApart' /\ FreeListed'
  BY <1>1 DEF Resolved, Distinct, Kept, ListApart, FreeListed, Below
<1>3. CASE reg[0] # Nil
  <2>1. call' = [op |-> "pop", h |-> h, v |-> v, slot |-> reg[0]]
    BY <1>3 DEF RefBegin
  <2>2. reg[0] \in Slots /\ Len(free) > 0 /\ reg[0] = free[Len(free)]
    BY <1>3, HeadOfList
  <2>3. RegType'
    BY <1>1, <2>1, <2>2 DEF RegType, Calls
  <2>4. CallSound'
    BY <1>1, <2>1, <2>2 DEF CallSound
  <2>5. Used' = Used
    BY <1>1, <2>1 DEF Used, Pending, Quiet
  <2>6. NoGap'
    BY <1>1, <2>5 DEF NoGap
  <2>7. QED
    BY <1>2, <2>3, <2>4, <2>6
<1>4. CASE reg[0] = Nil
  <2>1. PICK b \in Borders : call' = [op |-> "store", h |-> h, v |-> v, slot |-> b + 1]
    BY <1>4 DEF RefBegin
  <2>2. /\ b \in 0..MaxSlot - 1 /\ b \in Int /\ b + 1 \in Slots
        /\ b = 0 \/ reg[b] # Nil
        /\ reg[b + 1] = Nil
    BY <2>1, Reserved DEF Borders, Slots
  <2>3. Len(free) = 0
    BY <1>4, HeadOfList
  <2>4. b + 1 \notin Taken
    BY <2>2, RegistryAssumption, Reserved DEF Taken, Kept, Resolved
  <2>5. b + 1 \notin Listed
    BY <2>3 DEF Listed
  <2>6. RegType'
    BY <1>1, <2>1, <2>2 DEF RegType, Calls
  <2>7. CallSound'
    BY <1>1, <2>1, <2>4, <2>5 DEF CallSound
  <2>8. Used' = Used \cup {b + 1}
    BY <1>1, <2>1, <2>2 DEF Used, Pending, Quiet
  <2>9. b # 0 /\ b \in Slots /\ b \in Used
    BY <2>2, RegistryAssumption, Reserved DEF Kept, NoGap, Slots
  <2>10. NoGap'
    BY <1>1, <2>2, <2>8, <2>9 DEF NoGap
  <2>11. QED
    BY <1>2, <2>6, <2>7, <2>10
<1>5. QED
  BY <1>3, <1>4

\* A sequence without its last element.
LEMMA ShorterList ==
    ASSUME NEW S, NEW s \in Seq(S), Len(s) > 0
    PROVE  /\ SubSeq(s, 1, Len(s) - 1) \in Seq(S)
           /\ Len(SubSeq(s, 1, Len(s) - 1)) = Len(s) - 1
           /\ \A i \in 1..Len(s) - 1 : SubSeq(s, 1, Len(s) - 1)[i] = s[i]
<1>1. PICK m : m = Len(s) - 1
  OBVIOUS
<1>2. m \in Int /\ m >= 0 /\ Len(s) \in Nat
  BY <1>1, LenProperties
<1>3. \A i \in 1..m : s[i] \in S
  BY <1>1, <1>2, LenProperties
<1>4. /\ SubSeq(s, 1, m) \in Seq(S)
      /\ Len(SubSeq(s, 1, m)) = IF 1 <= m THEN m - 1 + 1 ELSE 0
      /\ \A i \in 1..m - 1 + 1 : SubSeq(s, 1, m)[i] = s[1 + i - 1]
  BY <1>2, <1>3, SubSeqProperties
<1>5. QED
  BY <1>1, <1>2, <1>4

\* The head is taken off the list.
LEMMA RegInvRefPop == ASSUME RegInv, RefPop PROVE RegInv'
<1> USE DEF RegInv
<1> DEFINE n == Len(free)
<1>1. /\ UNCHANGED <<ref, held, what, leaked>> /\ Taken' = Taken
      /\ call.op = "pop" /\ call \in [op : {"pop", "store"}, h : Holders, v : Values, slot : Slots]
      /\ call' = [op |-> "store", h |-> call.h, v |-> call.v, slot |-> call.slot]
  BY DEF RefPop, Taken, RegType, Calls, Idle
<1>2. n \in Nat /\ n > 0 /\ call.slot = free[n] /\ call.slot \in Slots
  BY <1>1, HeadOfList DEF CallSound
<1>3. /\ free' \in Seq(Slots) /\ Len(free') = n - 1
      /\ \A i \in 1..n - 1 : free'[i] = free[i]
      /\ \A i \in 1..n - 1 : i \in 1..n /\ free[i] \in Slots
      /\ \A i \in 1..n : free[i] \in Slots
  BY <1>2, ShorterList, LenProperties DEF RefPop, RegType
<1>4. reg' = [reg EXCEPT ![0] = Below(n - 1)]
  <2>1. reg[free[n]] = Below(n - 1)
    BY <1>2 DEF FreeListed
  <2>2. QED
    BY <1>2, <2>1 DEF RefPop
<1>5. \A s \in Slots : reg'[s] = reg[s]
  BY <1>4, Reserved DEF RegType, Slots
<1>6. reg'[0] = Below(n - 1) /\ Below(n - 1) \in Slots \cup {Nil}
  BY <1>2, <1>3, <1>4, Reserved DEF RegType, Below
<1>7. RegType'
  BY <1>1, <1>3, <1>4, <1>6 DEF RegType, Calls
<1>8. Listed = Listed' \cup {call.slot} /\ call.slot \notin Listed' /\ call.slot \notin Taken
  <2>1. n \in 1..n /\ \A i \in 1..n : i # n => i \in 1..n - 1
    BY <1>2
  <2>2. \A i \in 1..n - 1 : free[i] # call.slot
    BY <1>2, <1>3 DEF ListApart
  <2>3. call.slot \notin Taken
    BY <1>2, <2>1 DEF ListApart
  <2>4. call.slot \notin Listed' /\ \A s : s \in Listed' => s \in Listed
    BY <1>3, <2>2 DEF Listed
  <2>5. call.slot \in Listed /\ \A s \in Listed : s = call.slot \/ s \in Listed'
    BY <1>2, <1>3, <2>1 DEF Listed
  <2>6. QED
    BY <2>3, <2>4, <2>5
<1>9. Resolved' /\ Distinct' /\ Kept'
  <2>1. Resolved' /\ Distinct'
    BY <1>1, <1>5 DEF Resolved, Distinct
  <2>2. Kept'
    BY <1>1, <1>5, Reserved DEF Kept, RegType
  <2>3. QED
    BY <2>1, <2>2
<1>10. ListApart'
  BY <1>1, <1>2, <1>3 DEF ListApart
<1>11. FreeListed'
  <2>1. \A i \in 1..n - 1 : reg'[free'[i]] = IF i - 1 = 0 THEN Nil ELSE free[i - 1]
    BY <1>2, <1>3, <1>5 DEF FreeListed, Below
  <2>2. \A i \in 1..n - 1 : i - 1 # 0 => free'[i - 1] = free[i - 1]
    BY <1>2, <1>3
  <2>3. n - 1 # 0 => free'[n - 1] = free[n - 1]
    BY <1>2, <1>3
  <2>4. reg'[0] = IF n - 1 = 0 THEN Nil ELSE free'[n - 1]
    BY <1>6, <2>3 DEF Below
  <2>5. QED
    BY <1>3, <2>1, <2>2, <2>4 DEF FreeListed, Below
<1>12. CallSound'
  BY <1>1, <1>2, <1>8 DEF CallSound
<1>13. Used' = Used
  BY <1>1, <1>2, <1>8 DEF Used, Pending
<1>14. NoGap'
  BY <1>1, <1>5, <1>13 DEF NoGap
<1>15. QED
  BY <1>7, <1>9, <1>10, <1>11, <1>12, <1>14

\* The value is stored, and the slot is the holder's; one it had is leaked.
LEMMA RegInvRefStore == ASSUME RegInv, RefStore PROVE RegInv'
<1> USE DEF RegInv
<1> DEFINE h == call.h
           t == call.slot
<1>1. /\ UNCHANGED free /\ Listed' = Listed /\ call' = Idle
      /\ call.op = "store" /\ h \in Holders /\ call.v \in Values /\ t \in Slots
  BY DEF RefStore, Listed, RegType, Calls, Idle
<1>2. t \notin Taken /\ t \notin Listed
  BY <1>1 DEF CallSound
<1>3. /\ held' = held \cup {h}
      /\ ref' = [ref EXCEPT ![h] = t]
      /\ what' = [what EXCEPT ![h] = call.v]
      /\ reg' = [reg EXCEPT ![t] = call.v]
      /\ leaked' = leaked \cup {ref[g] : g \in held \cap {h}}
  BY DEF RefStore
<1>4. ref'[h] = t /\ what'[h] = call.v /\ \A g \in held : g # h => ref'[g] = ref[g] /\ what'[g] = what[g]
  BY <1>1, <1>3 DEF RegType
<1>5. reg'[t] = call.v /\ \A s \in 0..MaxSlot : s # t => reg'[s] = reg[s]
  BY <1>1, <1>3, Reserved DEF RegType, Slots
<1> HIDE DEF h, t
<1>6. \A g \in held : ref[g] # t /\ ref[g] \in Slots /\ reg[ref[g]] \in Values
  BY <1>2 DEF Taken, Resolved
<1>7. \A s \in leaked' : s \in leaked \/ (h \in held /\ s = ref[h])
  BY <1>3
<1>8. leaked \subseteq leaked' /\ (h \in held => ref[h] \in leaked')
  BY <1>3
<1>9. Taken' = Taken \cup {t}
  <2>1. \A s \in Taken' : s \in Taken \cup {t}
    BY <1>3, <1>4, <1>7 DEF Taken
  <2>2. \A s \in Taken \cup {t} : s \in Taken'
    BY <1>3, <1>4, <1>8 DEF Taken
  <2>3. QED
    BY <2>1, <2>2
<1>10. RegType'
  <2>1. leaked' \subseteq Slots
    BY <1>6, <1>7 DEF RegType
  <2>2. QED
    BY <1>1, <1>3, <2>1 DEF RegType, Calls
<1>11. t \notin leaked' /\ t \notin {1, 2}
  BY <1>2, <1>6, <1>7 DEF Taken
<1>12. Resolved'
  <2> SUFFICES ASSUME NEW g \in held'
               PROVE  /\ ref'[g] \in Slots \ ({1, 2} \cup leaked')
                      /\ what'[g] \in Values
                      /\ reg'[ref'[g]] = what'[g]
    BY DEF Resolved
  <2>1. CASE g = h
    BY <1>1, <1>4, <1>5, <1>11, <2>1
  <2>2. CASE g # h
    <3>1. g \in held /\ ref'[g] = ref[g] /\ what'[g] = what[g] /\ ref[g] # t
      BY <1>3, <1>4, <1>6, <2>2
    <3>2. ref[g] \in Slots \ ({1, 2} \cup leaked) /\ what[g] \in Values /\ reg[ref[g]] = what[g]
      BY <3>1 DEF Resolved
    <3>3. ref[g] \notin leaked'
      BY <1>7, <2>2, <3>1, <3>2 DEF Distinct
    <3>4. reg'[ref[g]] = reg[ref[g]]
      BY <1>5, <3>1, <3>2, Reserved DEF Slots
    <3>5. QED
      BY <3>1, <3>2, <3>3, <3>4
  <2>3. QED
    BY <2>1, <2>2
<1>13. Distinct'
  BY <1>3, <1>4, <1>6 DEF Distinct
<1>14. Kept'
  <2>1. \A s \in {1, 2} \cup leaked' : s # t /\ s \in 0..MaxSlot /\ reg[s] \in Values
    <3>1. \A s \in {1, 2} \cup leaked : s \in 0..MaxSlot /\ reg[s] \in Values
      BY Reserved DEF Kept, RegType, Slots
    <3>2. h \in held => ref[h] \in 0..MaxSlot /\ reg[ref[h]] \in Values
      BY <1>6, Reserved DEF Slots
    <3>3. QED
      BY <1>7, <1>11, <3>1, <3>2
  <2>2. \A s \in {1, 2} \cup leaked' : reg'[s] \in Values
    BY <1>5, <2>1
  <2>3. QED
    BY <2>2 DEF Kept
<1>15. ListApart'
  BY <1>1, <1>2, <1>9 DEF ListApart, Listed
<1>16. FreeListed'
  <2>1. \A i \in 1..Len(free) : free[i] \in 0..MaxSlot /\ free[i] # t
    BY <1>2, LenProperties, Reserved DEF Listed, RegType, Slots
  <2>2. 0 \in 0..MaxSlot /\ t # 0
    BY <1>1, Reserved DEF Slots
  <2>3. QED
    BY <1>1, <1>5, <2>1, <2>2 DEF FreeListed, Below
<1>17. CallSound'
  BY <1>1 DEF CallSound, Idle
<1>18. Used' = Used
  BY <1>1, <1>9 DEF Used, Pending, Idle, t
<1>19. NoGap'
  BY <1>1, <1>5, <1>9, <1>18, Reserved DEF NoGap, Used, Slots
<1>20. QED
  BY <1>10, <1>12, <1>13, <1>14, <1>15, <1>16, <1>17, <1>19

\* The slot leaves its holder and holds what the list holds.
LEMMA RegInvUnrefBegin ==
    ASSUME RegInv, NEW h \in held, UnrefBegin(h)
    PROVE  RegInv'
<1> USE DEF RegInv
<1> DEFINE t == ref[h]
<1>1. /\ UNCHANGED <<ref, free, leaked>> /\ Listed' = Listed /\ Quiet
      /\ held' = held \ {h} /\ what' = [what EXCEPT ![h] = Nil]
      /\ reg' = [reg EXCEPT ![t] = reg[0]]
      /\ call' = [op |-> "push", slot |-> t]
  BY DEF UnrefBegin, Listed
<1>2. t \in Slots /\ t \notin {1, 2} \cup leaked /\ \A g \in held : g # h => ref[g] # t
  BY DEF Resolved, Distinct
<1>3. t \in Taken /\ t \notin Listed
  BY DEF Taken, Listed, ListApart
<1>4. reg'[t] = reg[0] /\ \A s \in 0..MaxSlot : s # t => reg'[s] = reg[s]
  BY <1>1, <1>2, Reserved DEF RegType, Slots
<1>5. Taken' = Taken \ {t}
  BY <1>1, <1>2 DEF Taken
<1>6. reg[0] \in Slots \cup {Nil}
  BY HeadOfList
<1>7. RegType'
  BY <1>1, <1>2, <1>6 DEF RegType, Calls
<1>8. Resolved' /\ Distinct'
  BY <1>1, <1>2, <1>4, Reserved DEF Resolved, Distinct, RegType, Slots
<1>9. Kept'
  BY <1>1, <1>2, <1>4, Reserved DEF Kept, RegType, Slots
<1>10. ListApart'
  BY <1>1, <1>5 DEF ListApart
<1>11. FreeListed'
  <2>1. \A i \in 1..Len(free) : free[i] \in 0..MaxSlot /\ free[i] # t
    BY <1>3, LenProperties, Reserved DEF Listed, RegType, Slots
  <2>2. 0 \in 0..MaxSlot /\ t # 0
    BY <1>2, Reserved DEF Slots
  <2>3. QED
    BY <1>1, <1>4, <2>1, <2>2 DEF FreeListed, Below
<1>12. CallSound'
  BY <1>1, <1>3, <1>4, <1>5 DEF CallSound, FreeListed, Below
<1>13. Used' = Used
  BY <1>1, <1>2, <1>3, <1>5 DEF Used, Pending, Quiet
<1>14. NoGap'
  <2>1. reg'[t] \notin Values
    BY <1>4, <1>6, RegistryAssumption
  <2>2. t \in Used
    BY <1>3 DEF Used
  <2>3. QED
    BY <1>4, <1>5, <1>13, <2>1, <2>2, Reserved DEF NoGap, Slots
<1>15. QED
  BY <1>7, <1>8, <1>9, <1>10, <1>11, <1>12, <1>14

\* The slot is the new head of the list.
LEMMA RegInvUnrefEnd == ASSUME RegInv, UnrefEnd PROVE RegInv'
<1> USE DEF RegInv
<1> DEFINE t == call.slot
           n == Len(free)
<1>1. /\ UNCHANGED <<ref, held, what, leaked>> /\ Taken' = Taken /\ call' = Idle
      /\ call.op = "push" /\ t \in Slots
      /\ reg' = [reg EXCEPT ![0] = t] /\ free' = Append(free, t)
  BY DEF UnrefEnd, Taken, RegType, Calls, Idle
<1>2. t \notin Taken /\ t \notin Listed /\ reg[t] = Below(n)
  BY <1>1 DEF CallSound
<1>3. /\ n \in Nat /\ free' \in Seq(Slots) /\ Len(free') = n + 1
      /\ free'[n + 1] = t
      /\ \A i \in 1..n : free'[i] = free[i] /\ free[i] \in Slots
      /\ \A i \in 1..n + 1 : i \in 1..n \/ i = n + 1
  BY <1>1, AppendProperties, LenProperties DEF RegType
<1>4. reg'[0] = t /\ \A s \in Slots : reg'[s] = reg[s]
  BY <1>1, Reserved DEF RegType, Slots
<1>5. Listed' = Listed \cup {t}
  <2>1. n + 1 \in 1..n + 1 /\ \A i \in 1..n : i \in 1..n + 1
    BY <1>3
  <2>2. QED
    BY <1>3, <2>1 DEF Listed
<1>6. RegType'
  BY <1>1, <1>3 DEF RegType, Calls
<1>7. Resolved' /\ Distinct' /\ Kept'
  <2>1. Resolved' /\ Distinct'
    BY <1>1, <1>4 DEF Resolved, Distinct
  <2>2. Kept'
    BY <1>1, <1>4, Reserved DEF Kept, RegType
  <2>3. QED
    BY <2>1, <2>2
<1>8. ListApart'
  <2>1. \A i \in 1..n : free[i] # t
    BY <1>2 DEF Listed
  <2>2. QED
    BY <1>1, <1>2, <1>3, <2>1 DEF ListApart
<1>9. FreeListed'
  <2>1. reg'[0] = free'[Len(free')] /\ Len(free') # 0
    BY <1>3, <1>4
  <2>2. ASSUME NEW i \in 1..n + 1
        PROVE  reg'[free'[i]] = IF i - 1 = 0 THEN Nil ELSE free'[i - 1]
    <3>1. CASE i \in 1..n
      <4>1. reg'[free'[i]] = IF i - 1 = 0 THEN Nil ELSE free[i - 1]
        BY <1>3, <1>4, <3>1 DEF FreeListed, Below
      <4>2. i - 1 = 0 \/ i - 1 \in 1..n
        BY <1>3, <3>1
      <4>3. QED
        BY <1>3, <4>1, <4>2
    <3>2. CASE i = n + 1
      <4>1. i - 1 = n /\ (n = 0 \/ n \in 1..n)
        BY <1>3, <3>2
      <4>2. reg'[free'[i]] = IF n = 0 THEN Nil ELSE free[n]
        BY <1>1, <1>2, <1>3, <1>4, <3>2 DEF Below
      <4>3. QED
        BY <1>3, <4>1, <4>2
    <3>3. QED
      BY <1>3, <3>1, <3>2
  <2>3. QED
    BY <1>3, <2>1, <2>2 DEF FreeListed, Below
<1>10. CallSound'
  BY <1>1 DEF CallSound, Idle
<1>11. Used' = Used
  BY <1>1, <1>5 DEF Used, Pending, Idle
<1>12. NoGap'
  BY <1>1, <1>4, <1>11 DEF NoGap
<1>13. QED
  BY <1>6, <1>7, <1>8, <1>9, <1>10, <1>12

\* A finalizer only moves a slot from those in force to those leaked.
LEMMA RegInvForget ==
    ASSUME RegInv, NEW h \in Forgetful, Forget(h)
    PROVE  RegInv'
<1> USE DEF RegInv
<1>1. /\ UNCHANGED <<reg, free, call>> /\ Listed' = Listed /\ h \in held /\ h \in Holders
      /\ held' = held \ {h} /\ leaked' = leaked \cup {ref[h]}
      /\ ref' = [ref EXCEPT ![h] = NoRef] /\ what' = [what EXCEPT ![h] = Nil]
  BY DEF Forget, Listed, RegType
<1>2. \A g \in held : g # h => ref'[g] = ref[g] /\ what'[g] = what[g] /\ ref[g] # ref[h]
  BY <1>1 DEF RegType, Distinct
<1>3. ref[h] \in Slots /\ reg[ref[h]] \in Values
  BY <1>1 DEF Resolved
<1>4. Taken' = Taken
  BY <1>1, <1>2 DEF Taken
<1>5. RegType'
  BY <1>1, <1>3 DEF RegType
<1>6. Resolved' /\ Distinct' /\ Kept'
  BY <1>1, <1>2, <1>3 DEF Resolved, Distinct, Kept
<1>7. ListApart' /\ FreeListed' /\ CallSound'
  BY <1>1, <1>4 DEF ListApart, FreeListed, Below, CallSound
<1>8. NoGap'
  BY <1>1, <1>4 DEF NoGap, Used, Pending
<1>9. QED
  BY <1>5, <1>6, <1>7, <1>8

\* Holders that go leave the slots of references in force behind.
LEMMA RegInvReset ==
    ASSUME RegInv, NEW hs \in SUBSET Holders, Reset(hs)
    PROVE  RegInv'
<1> USE DEF RegInv
<1>1. /\ UNCHANGED <<reg, call, free>> /\ Listed' = Listed
      /\ held' = held \ hs
      /\ leaked' = leaked \cup {ref[h] : h \in held \cap hs}
      /\ ref' \in [Holders -> Slots \cup {NoRef}] /\ what' \in [Holders -> Values \cup {Nil}]
      /\ \A h \in Holders : h \notin hs => ref'[h] = ref[h] /\ what'[h] = what[h]
  BY DEF Reset, RegType, Listed
<1>2. held \subseteq Holders /\ \A h \in held : ref[h] \in Slots /\ reg[ref[h]] \in Values
  BY DEF RegType, Resolved
<1>3. /\ \A s \in leaked' : s \in leaked \/ \E h \in held \cap hs : s = ref[h]
      /\ leaked \subseteq leaked' /\ \A h \in held \cap hs : ref[h] \in leaked'
  BY <1>1
<1>4. \A h \in held' : h \in held /\ h \notin hs /\ ref'[h] = ref[h] /\ what'[h] = what[h]
  BY <1>1, <1>2
<1>5. Taken' = Taken
  <2>1. \A s \in Taken' : s \in Taken
    BY <1>3, <1>4 DEF Taken
  <2>2. \A h \in held : ref[h] \in Taken'
    BY <1>1, <1>2, <1>3 DEF Taken
  <2>3. \A s \in Taken : s \in Taken'
    BY <1>3, <2>2 DEF Taken
  <2>4. QED
    BY <2>1, <2>3
<1>6. RegType'
  <2>1. leaked' \subseteq Slots
    BY <1>2, <1>3 DEF RegType
  <2>2. QED
    BY <1>1, <1>2, <2>1 DEF RegType
<1>7. Resolved'
  <2>1. \A h \in held' : ref[h] \notin leaked'
    BY <1>3, <1>4 DEF Resolved, Distinct
  <2>2. QED
    BY <1>1, <1>4, <2>1 DEF Resolved
<1>8. Distinct'
  BY <1>4 DEF Distinct
<1>9. Kept'
  BY <1>1, <1>2, <1>3 DEF Kept
<1>10. ListApart' /\ FreeListed' /\ CallSound' /\ NoGap'
  BY <1>1, <1>5 DEF ListApart, FreeListed, Below, CallSound, NoGap, Used, Pending
<1>11. QED
  BY <1>6, <1>7, <1>8, <1>9, <1>10

LEMMA RegInvNext == RegInv /\ [RegNext]_regVars => RegInv'
<1> SUFFICES ASSUME RegInv, [RegNext]_regVars PROVE RegInv'
  OBVIOUS
<1>1. ASSUME NEW h \in Holders, NEW v \in Values, RefBegin(h, v) PROVE RegInv'
  BY <1>1, RegInvRefBegin
<1>2. ASSUME NEW h \in Holders, h \in held, UnrefBegin(h) PROVE RegInv'
  BY <1>2, RegInvUnrefBegin
<1>3. ASSUME NEW h \in Forgetful, Forget(h) PROVE RegInv'
  BY <1>3, RegInvForget
<1>4. CASE RefPop
  BY <1>4, RegInvRefPop
<1>5. CASE RefStore
  BY <1>5, RegInvRefStore
<1>6. CASE UnrefEnd
  BY <1>6, RegInvUnrefEnd
<1>7. ASSUME NEW hs \in SUBSET Holders, Reset(hs) PROVE RegInv'
  BY <1>7, RegInvReset
<1>8. CASE UNCHANGED regVars
  BY <1>8 DEF regVars, RegInv, RegType, Resolved, Distinct, Kept, ListApart, FreeListed,
              Below, CallSound, NoGap, Used, Taken, Listed, Pending
<1>9. QED
  BY <1>1, <1>2, <1>3, <1>4, <1>5, <1>6, <1>7, <1>8 DEF RegNext

LEMMA RegInvAlways == RegSpec => []RegInv
BY RegInvInit, RegInvNext, PTL DEF RegSpec

-----------------------------------------------------------------------------
(* Theorems *)

\* Every reference in force finds its value, whatever is released and taken again
\* and whatever .NET forgets between two stores, in a slot that no other reference
\* in force has and that is neither reserved nor leaked (lauxlib.cpp:522).
THEOREM ReferencesResolve == RegSpec => []SlotsResolve
<1>1. RegInv => SlotsResolve
  BY DEF RegInv, Resolved, Distinct, SlotsResolve
<1>2. QED
  BY <1>1, RegInvAlways, PTL

\* Between two calls every slot up to the last one used is reserved, in force,
\* leaked or on the list of free slots, which the registry itself spells.
THEOREM RegistryAccounted == RegSpec => []EverySlotAccounted
<1>1. ASSUME RegInv PROVE EverySlotAccounted
  <2>1. SUFFICES ASSUME Quiet
                 PROVE  /\ FreeListed
                        /\ Listed \cap Taken = {}
                        /\ {s \in Slots : reg[s] \in Values} = Taken
                        /\ \A s \in Taken \cup Listed : s > 1 => s - 1 \in Taken \cup Listed
    BY DEF EverySlotAccounted, Listed, Taken
  <2>2. FreeListed /\ Listed \cap Taken = {}
    BY <1>1 DEF RegInv, ListApart, Listed
  <2>3. \A s \in Taken : s \in Slots /\ reg[s] \in Values
    BY <1>1, Reserved DEF RegInv, RegType, Resolved, Kept, Taken
  <2>4. \A s \in Slots : reg[s] \in Values => s \in Taken
    BY <1>1 DEF RegInv, NoGap
  <2>5. Used = Taken \cup Listed
    BY <2>1 DEF Used, Pending, Quiet
  <2>6. QED
    BY <1>1, <2>2, <2>3, <2>4, <2>5 DEF RegInv, NoGap
<1>2. QED
  BY <1>1, RegInvAlways, PTL

-----------------------------------------------------------------------------
(***************************************************************************)
(* From here on, the driver for MySQL and the values held by .NET.         *)
(***************************************************************************)
Ops == [op : {"ref"}, h : Holders, v : Values] \cup [op : {"unref"}, h : Holders]

\* The calls that are due, and the holders they are about.
Due == {todo[i] : i \in 1..Len(todo)}
Takers    == {h \in Holders : \E v \in Values : Take(h, v) \in Due}
Releasers == {h \in Holders : Release(h) \in Due}

Taking == call.op \in {"pop", "store"}
Coming(h) == h \in Takers \/ (Taking /\ call.h = h)
Going(h)  == h \in Releasers

\* h has a reference once the calls that are due are made.
Stays(h) == (h \in held \/ Coming(h)) /\ ~Going(h)

\* No two calls are about the same holder.
DueApart ==
    /\ \A i, j \in 1..Len(todo) : i # j => todo[i].h # todo[j].h
    /\ Taking => \A o \in Due : o.h # call.h

\* A reference is taken by a holder that has none, or is careless.
TakesFresh == \A h \in held : Coming(h) => h \in Careless

\* An object that is in use has its reference.
UsersHold ==
    /\ \A c \in Conns : conn[c] = "open" <=> Stays(EnvOf(c))
    /\ \A q \in Curs : cur[q] = "open" <=> Stays(ConnOf(q))
    /\ \A w \in Wrappers : wrap[w] = "live" <=> Stays(w)

Columns(q) == {NamesOf(q), TypesOf(q)}

\* The column tables of a cursor come together and go with it, unless it was closed
\* while they were being made.
ColumnsHold ==
    \A q \in Curs : IF cur[q] = "open"
                    THEN /\ Stays(NamesOf(q)) <=> Stays(TypesOf(q))
                         /\ \A h \in CursorFields(q) : ~Going(h)
                    ELSE \A h \in Columns(q) : Stays(h) <=> q \in Overtaken

\* A number that is released or asked for is that of a reference in force, or LUA_NOREF.
NumbersFresh ==
    /\ \A h \in Holders : Going(h) => h \in held \/ ref[h] = NoRef
    /\ \A q \in Curs : cur[q] = "open" => \A h \in CursorFields(q) : h \in held \/ ref[h] = NoRef
    /\ \A q \in Curs : life[q] = "none" => \A h \in CursorFields(q) : ref[h] = NoRef

\* A cursor refers to the connection it was created for.
ParentHeld ==
    \A q \in Curs : cur[q] = "open" =>
       /\ ConnOf(q) \in held => what[ConnOf(q)] = parent[q]
       /\ \A v \in Values : Take(ConnOf(q), v) \in Due => v = parent[q]
       /\ Taking /\ call.h = ConnOf(q) => call.v = parent[q]

\* What is open waits for its finalizer; a cursor being described is not freed.
Alive == {"due", "late", "separated"}
LifeSound ==
    /\ \A c \in Conns : conn[c] = "open" => life[c] \in Alive
    /\ \A q \in Curs : cur[q] = "open" => life[q] \in Alive
    /\ \A q \in Curs : cur[q] = "stale" => life[q] # "none"
    /\ \A q \in Curs : q = describing => cur[q] \in {"open", "stale"} /\ life[q] \notin {"none", "freed"}

DriverInv ==
    /\ TypeOK /\ todo \in Seq(Ops)
    /\ DueApart /\ TakesFresh /\ UsersHold /\ ColumnsHold /\ NumbersFresh /\ ParentHeld
    /\ CursorKeepsConnection /\ LifeSound

IInv == RegInv /\ DriverInv
-----------------------------------------------------------------------------
(* The holders and the calls *)

LEMMA FieldsApart ==
    /\ Wrappers \subseteq Holders
    /\ \A c \in Conns : /\ EnvOf(c) \in Holders \ Wrappers
                        /\ \A d \in Conns : EnvOf(c) = EnvOf(d) => c = d
                        /\ \A q \in Curs : EnvOf(c) \notin CursorFields(q)
    /\ \A q \in Curs : /\ CursorFields(q) = {ConnOf(q), NamesOf(q), TypesOf(q)}
                       /\ ConnOf(q) # NamesOf(q) /\ ConnOf(q) # TypesOf(q) /\ NamesOf(q) # TypesOf(q)
                       /\ CursorFields(q) \subseteq Holders \ Wrappers
                       /\ \A r \in Curs : CursorFields(q) \cap CursorFields(r) # {} => q = r
<1>1. \A c \in Conns : \A d \in Conns : EnvOf(c) = EnvOf(d) => c = d
  BY DEF EnvOf
<1>2. \A c \in Conns : \A q \in Curs : EnvOf(c) \notin CursorFields(q)
  BY DEF EnvOf, CursorFields, ConnOf, NamesOf, TypesOf
<1>3. \A q \in Curs : \A r \in Curs : CursorFields(q) \cap CursorFields(r) # {} => q = r
  BY DEF CursorFields, ConnOf, NamesOf, TypesOf
<1>4. \A q \in Curs : /\ CursorFields(q) = {ConnOf(q), NamesOf(q), TypesOf(q)}
                      /\ ConnOf(q) # NamesOf(q) /\ ConnOf(q) # TypesOf(q) /\ NamesOf(q) # TypesOf(q)
  BY DEF CursorFields, ConnOf, NamesOf, TypesOf
<1>5. /\ Wrappers \subseteq Holders
      /\ \A c \in Conns : EnvOf(c) \in Holders \ Wrappers
      /\ \A q \in Curs : CursorFields(q) \subseteq Holders \ Wrappers
  BY MysqlAssumption
<1>6. QED
  BY <1>1, <1>2, <1>3, <1>4, <1>5

\* Only column tables are careless.
LEMMA CarelessColumns ==
    /\ \A q \in Curs : Columns(q) \subseteq Careless /\ Columns(q) \subseteq CursorFields(q)
    /\ \A h \in Careless : \E q \in Curs : h \in Columns(q)
BY MysqlAssumption, FieldsApart DEF Columns

LEMMA CallParts ==
    /\ \A h, v : Take(h, v).op = "ref" /\ Take(h, v).h = h /\ Take(h, v).v = v
    /\ \A h : Release(h).op = "unref" /\ Release(h).h = h
BY DEF Take, Release

LEMMA CallsDiffer ==
    /\ \A h, v, g, u : Take(h, v) = Take(g, u) => h = g /\ v = u
    /\ \A h, g : Release(h) = Release(g) => h = g
    /\ \A h, v, g : Take(h, v) # Release(g)
<1>1. \A h, v, g, u : Take(h, v) = Take(g, u) => h = g /\ v = u
  BY CallParts
<1>2. \A h, g : Release(h) = Release(g) => h = g
  BY CallParts
<1>3. \A h, v, g : Take(h, v) # Release(g)
  BY DEF Take, Release
<1>4. QED
  BY <1>1, <1>2, <1>3

LEMMA CallTypes ==
    /\ \A h \in Holders, v \in Values : Take(h, v) \in Ops
    /\ \A h \in Holders : Release(h) \in Ops
    /\ \A o \in Ops : \/ o.op = "ref" /\ o.h \in Holders /\ o.v \in Values /\ o = Take(o.h, o.v)
                      \/ o.op = "unref" /\ o.h \in Holders /\ o = Release(o.h)
<1>1. \A h \in Holders, v \in Values : Take(h, v) \in Ops
  BY DEF Take, Ops
<1>2. \A h \in Holders : Release(h) \in Ops
  BY DEF Release, Ops
<1>3. ASSUME NEW o \in Ops
      PROVE  \/ o.op = "ref" /\ o.h \in Holders /\ o.v \in Values /\ o = Take(o.h, o.v)
             \/ o.op = "unref" /\ o.h \in Holders /\ o = Release(o.h)
  <2>1. CASE o \in [op : {"ref"}, h : Holders, v : Values]
    BY <2>1 DEF Take
  <2>2. CASE o \in [op : {"unref"}, h : Holders]
    BY <2>2 DEF Release
  <2>3. QED
    BY <2>1, <2>2 DEF Ops
<1>4. QED
  BY <1>1, <1>2, <1>3

\* Between two methods no reference is on its way.
LEMMA AtRest ==
    ASSUME Ready
    PROVE  /\ Due = {} /\ ~Taking
           /\ \A h : ~Coming(h) /\ ~Going(h) /\ (Stays(h) <=> h \in held)
<1>1. Due = {} /\ ~Taking
  BY DEF Ready, Due, Taking, Quiet
<1>2. QED
  BY <1>1 DEF Coming, Going, Stays, Takers, Releasers

\* The calls that a method makes.
LEMMA OneCall ==
    ASSUME NEW a \in Ops, todo' = <<a>>, ~Taking'
    PROVE  todo' \in Seq(Ops) /\ Len(todo') <= 3 /\ Due' = {a} /\ DueApart'
<1>1. Len(todo') = 1 /\ todo'[1] = a /\ todo' \in Seq(Ops)
  OBVIOUS
<1>2. QED
  BY <1>1 DEF Due, DueApart

LEMMA TwoCalls ==
    ASSUME NEW a \in Ops, NEW b \in Ops, todo' = <<a, b>>, ~Taking', a.h # b.h
    PROVE  todo' \in Seq(Ops) /\ Len(todo') <= 3 /\ Due' = {a, b} /\ DueApart'
<1>1. Len(todo') = 2 /\ todo'[1] = a /\ todo'[2] = b /\ todo' \in Seq(Ops)
  OBVIOUS
<1>2. Due' = {a, b}
  BY <1>1 DEF Due
<1>3. QED
  BY <1>1, <1>2 DEF DueApart

LEMMA ThreeCalls ==
    ASSUME NEW a \in Ops, NEW b \in Ops, NEW d \in Ops, todo' = <<a, b, d>>, ~Taking',
           a.h # b.h, a.h # d.h, b.h # d.h
    PROVE  /\ todo' \in Seq(Ops) /\ Len(todo') <= 3 /\ DueApart'
           /\ Due' = {a, b, d}
<1>1. /\ todo' \in Seq(Ops) /\ Len(todo') = 3
      /\ todo'[1] = a /\ todo'[2] = b /\ todo'[3] = d
  OBVIOUS
<1>2. Due' = {a, b, d}
  BY <1>1 DEF Due
<1>3. QED
  BY <1>1, <1>2 DEF DueApart
-----------------------------------------------------------------------------
(* The methods *)

LEMMA RestFacts ==
    ASSUME DriverInv, Ready
    PROVE  /\ \A c \in Conns : conn[c] = "open" <=> EnvOf(c) \in held
           /\ \A q \in Curs : cur[q] = "open" <=> ConnOf(q) \in held
           /\ \A w \in Wrappers : wrap[w] = "live" <=> w \in held
           /\ \A q \in Curs : cur[q] = "open" =>
                 /\ NamesOf(q) \in held <=> TypesOf(q) \in held
                 /\ \A h \in CursorFields(q) : h \in held \/ ref[h] = NoRef
                 /\ what[ConnOf(q)] = parent[q]
           /\ \A q \in Curs : cur[q] # "open" => \A h \in Columns(q) : h \in held <=> q \in Overtaken
           /\ \A q \in Curs : life[q] = "none" => \A h \in CursorFields(q) : ref[h] = NoRef
<1>1. \A h : ~Coming(h) /\ ~Going(h) /\ (Stays(h) <=> h \in held)
  BY AtRest
<1>2. /\ \A c \in Conns : conn[c] = "open" <=> EnvOf(c) \in held
      /\ \A q \in Curs : cur[q] = "open" <=> ConnOf(q) \in held
      /\ \A w \in Wrappers : wrap[w] = "live" <=> w \in held
  BY <1>1 DEF DriverInv, UsersHold
<1>3. /\ \A q \in Curs : cur[q] = "open" => (NamesOf(q) \in held <=> TypesOf(q) \in held)
      /\ \A q \in Curs : cur[q] # "open" => \A h \in Columns(q) : h \in held <=> q \in Overtaken
  BY <1>1 DEF DriverInv, ColumnsHold
<1>4. /\ \A q \in Curs : cur[q] = "open" => \A h \in CursorFields(q) : h \in held \/ ref[h] = NoRef
      /\ \A q \in Curs : life[q] = "none" => \A h \in CursorFields(q) : ref[h] = NoRef
  BY <1>1 DEF DriverInv, NumbersFresh
<1>5. \A q \in Curs : cur[q] = "open" => what[ConnOf(q)] = parent[q]
  BY <1>2 DEF DriverInv, ParentHeld
<1>6. QED
  BY <1>2, <1>3, <1>4, <1>5

\* A method sets the fields of the userdata, and then its calls are due.
LEMMA Method ==
    ASSUME IInv, Ready, UNCHANGED regVars,
           todo' \in Seq(Ops), DueApart', TypeOK', CursorKeepsConnection', LifeSound',
           Takers' \cap held \subseteq Careless,
           \A h \in Releasers' : h \in held \/ ref[h] = NoRef,
           \A c \in Conns : conn'[c] = "open" <=> EnvOf(c) \in (held \cup Takers') \ Releasers',
           \A q \in Curs : cur'[q] = "open" <=> ConnOf(q) \in (held \cup Takers') \ Releasers',
           \A w \in Wrappers : wrap'[w] = "live" <=> w \in (held \cup Takers') \ Releasers',
           \A q \in Curs : cur'[q] = "open" =>
              /\ NamesOf(q) \in held \cup Takers' <=> TypesOf(q) \in held \cup Takers'
              /\ CursorFields(q) \cap Releasers' = {}
              /\ \A h \in CursorFields(q) : h \in held \/ ref[h] = NoRef
              /\ ConnOf(q) \in held => what[ConnOf(q)] = parent'[q]
              /\ \A v \in Values : Take(ConnOf(q), v) \in Due' => v = parent'[q],
           \A q \in Curs : cur'[q] # "open" =>
              \A h \in Columns(q) : h \in (held \cup Takers') \ Releasers' <=> q \in Overtaken',
           \A q \in Curs : life'[q] = "none" => \A h \in CursorFields(q) : ref[h] = NoRef
    PROVE  IInv'
<1>1. /\ ~Taking' /\ held' = held /\ ref' = ref /\ what' = what
      /\ RegInv'
  <2>1. UNCHANGED regVars => (RegInv => RegInv')
    BY RegInvNext
  <2>2. ~Taking'
    BY DEF Taking, regVars, Ready, Quiet
  <2>3. QED
    BY <2>1, <2>2 DEF IInv, regVars
<1>2. \A h : /\ Coming(h)' <=> h \in Takers'
             /\ Going(h)' <=> h \in Releasers'
             /\ Stays(h)' <=> h \in (held \cup Takers') \ Releasers'
  BY <1>1 DEF Coming, Going, Stays
<1>3. TakesFresh' /\ UsersHold'
  BY <1>1, <1>2 DEF TakesFresh, UsersHold
<1>4. ColumnsHold'
  <2> SUFFICES ASSUME NEW q \in Curs
               PROVE  IF cur'[q] = "open"
                      THEN /\ Stays(NamesOf(q))' <=> Stays(TypesOf(q))'
                           /\ \A h \in CursorFields(q) : ~Going(h)'
                      ELSE \A h \in Columns(q) : Stays(h)' <=> q \in Overtaken'
    BY DEF ColumnsHold
  <2>1. {NamesOf(q), TypesOf(q)} \subseteq CursorFields(q)
    BY FieldsApart
  <2>2. CASE cur'[q] = "open"
    BY <1>2, <2>1, <2>2
  <2>3. CASE cur'[q] # "open"
    BY <1>2, <2>3
  <2>4. QED
    BY <2>2, <2>3
<1>5. NumbersFresh'
  BY <1>1, <1>2 DEF NumbersFresh
<1>6. ParentHeld'
  BY <1>1 DEF ParentHeld
<1>7. QED
  BY <1>1, <1>3, <1>4, <1>5, <1>6 DEF IInv, DriverInv

LEMMA InvConnect == ASSUME IInv, NEW c \in Conns, Connect(c) PROVE IInv'
<1>1. /\ Ready /\ UNCHANGED regVars /\ life[c] = "none" /\ conn' = [conn EXCEPT ![c] = "open"]
      /\ \E s \in {"due", "late"} : life' = [life EXCEPT ![c] = s]
      /\ reachable' = reachable \cup {c} /\ todo' = <<Take(EnvOf(c), Env)>>
      /\ UNCHANGED <<env, cur, parent, result, describing, wrap, phase>>
  BY DEF Connect, Script, Made
<1>2. DriverInv /\ TypeOK /\ EnvOf(c) \in Holders \ Wrappers /\ Env \in Values /\ c \notin Curs
  BY FieldsApart, MysqlAssumption DEF IInv, DriverInv
<1>3. todo' \in Seq(Ops) /\ Len(todo') <= 3 /\ Due' = {Take(EnvOf(c), Env)} /\ DueApart'
  BY <1>1, <1>2, OneCall, CallTypes DEF Taking, Ready, Quiet, regVars
<1>4. /\ TypeOK' /\ life'[c] \in {"due", "late"}
      /\ \A x \in Conns \cup Curs : x # c => life'[x] = life[x]
  BY <1>1, <1>2, <1>3 DEF TypeOK
<1>5. CursorKeepsConnection' /\ LifeSound'
  BY <1>1, <1>2, <1>4 DEF CursorKeepsConnection, LifeSound, Alive, DriverInv, TypeOK
<1>6. Takers' = {EnvOf(c)} /\ Releasers' = {}
  BY <1>2, <1>3, CallsDiffer DEF Takers, Releasers
<1>7. \A q \in Curs : /\ EnvOf(c) \notin {ConnOf(q), NamesOf(q), TypesOf(q)}
                      /\ \A v \in Values : Take(ConnOf(q), v) \notin Due'
                      /\ EnvOf(c) \notin Columns(q)
  BY <1>3, FieldsApart, CallsDiffer DEF Columns
<1>8. \A d \in Conns : EnvOf(d) = EnvOf(c) <=> d = c
  BY FieldsApart
<1>9. \A d \in Conns : conn'[d] = "open" <=> EnvOf(d) \in (held \cup Takers') \ Releasers'
  BY <1>1, <1>2, <1>6, <1>8, RestFacts DEF TypeOK
<1>10. EnvOf(c) \notin held
  BY <1>1, <1>2, RestFacts DEF DriverInv, LifeSound, Alive
<1>11. \A q \in Curs : /\ q \in Overtaken' <=> q \in Overtaken
                       /\ life'[q] = life[q]
  BY <1>1, <1>2, <1>4 DEF Overtaken
<1>12. QED
  BY <1>1, <1>2, <1>3, <1>4, <1>5, <1>6, <1>7, <1>9, <1>10, <1>11, RestFacts, Method

\* conn_gc: the connection gives up the environment.
LEMMA ShutDownParts ==
    ASSUME IInv, Ready, UNCHANGED regVars, NEW c \in Conns, conn[c] = "open", ShutDown(c),
           life' = life \/ life' = [life EXCEPT ![c] = "called"],
           UNCHANGED <<env, cur, parent, result, describing, wrap, reachable, phase>>
    PROVE  IInv'
<1>1. conn' = [conn EXCEPT ![c] = "closed"] /\ todo' = <<Release(EnvOf(c))>>
  BY DEF ShutDown
<1>2. DriverInv /\ TypeOK /\ EnvOf(c) \in Holders \ Wrappers /\ c \notin Curs
  BY FieldsApart, MysqlAssumption DEF IInv, DriverInv
<1>3. todo' \in Seq(Ops) /\ Len(todo') <= 3 /\ Due' = {Release(EnvOf(c))} /\ DueApart'
  BY <1>1, <1>2, OneCall, CallTypes DEF Taking, Ready, Quiet, regVars
<1>4. /\ TypeOK' /\ life'[c] \in {life[c], "called"}
      /\ \A x \in Conns \cup Curs : x # c => life'[x] = life[x]
  BY <1>1, <1>2, <1>3 DEF TypeOK
<1>5. life[c] \in Alive
  BY <1>2 DEF DriverInv, LifeSound
<1>6. CursorKeepsConnection' /\ LifeSound'
  BY <1>1, <1>2, <1>4, <1>5 DEF CursorKeepsConnection, LifeSound, Alive, DriverInv, TypeOK
<1>7. Takers' = {} /\ Releasers' = {EnvOf(c)}
  BY <1>2, <1>3, CallsDiffer DEF Takers, Releasers
<1>8. \A q \in Curs : /\ EnvOf(c) \notin {ConnOf(q), NamesOf(q), TypesOf(q)}
                      /\ \A v \in Values : Take(ConnOf(q), v) \notin Due'
                      /\ EnvOf(c) \notin Columns(q)
                      /\ CursorFields(q) = {ConnOf(q), NamesOf(q), TypesOf(q)}
  BY <1>3, FieldsApart, CallsDiffer DEF Columns
<1>9. \A d \in Conns : EnvOf(d) = EnvOf(c) <=> d = c
  BY FieldsApart
<1>10. \A d \in Conns : conn'[d] = "open" <=> EnvOf(d) \in (held \cup Takers') \ Releasers'
  BY <1>1, <1>2, <1>7, <1>9, RestFacts DEF TypeOK
<1>11. \A q \in Curs : /\ q \in Overtaken' <=> q \in Overtaken
                       /\ life'[q] = life[q]
  BY <1>1, <1>2, <1>4 DEF Overtaken
<1>12. EnvOf(c) \in held
  BY <1>2, RestFacts
<1>13. QED
  BY <1>1, <1>2, <1>3, <1>4, <1>6, <1>7, <1>8, <1>10, <1>11, <1>12, RestFacts, Method

LEMMA InvConnClose == ASSUME IInv, NEW c \in Conns, ConnClose(c) PROVE IInv'
BY ShutDownParts DEF ConnClose, UsableConn, Script

\* create_cursor: the cursor takes a reference to its connection.
LEMMA InvExecute == ASSUME IInv, NEW c \in Conns, NEW q \in Curs, Execute(c, q) PROVE IInv'
<1>1. /\ Ready /\ UNCHANGED regVars /\ conn[c] = "open" /\ life[q] = "none"
      /\ cur' = [cur EXCEPT ![q] = "open"] /\ parent' = [parent EXCEPT ![q] = c]
      /\ \E s \in {"due", "late"} : life' = [life EXCEPT ![q] = s]
      /\ result' = result \cup {q} /\ reachable' = reachable \cup {q}
      /\ todo' = <<Take(ConnOf(q), c)>>
      /\ UNCHANGED <<env, conn, describing, wrap, phase>>
  BY DEF Execute, UsableConn, Script, Made
<1>2. DriverInv /\ TypeOK /\ ConnOf(q) \in Holders \ Wrappers /\ c \in Values /\ q \notin Conns
  BY FieldsApart, MysqlAssumption DEF IInv, DriverInv
<1>3. todo' \in Seq(Ops) /\ Len(todo') <= 3 /\ Due' = {Take(ConnOf(q), c)} /\ DueApart'
  BY <1>1, <1>2, OneCall, CallTypes DEF Taking, Ready, Quiet, regVars
<1>4. /\ TypeOK' /\ life'[q] \in {"due", "late"}
      /\ \A x \in Conns \cup Curs : x # q => life'[x] = life[x]
  BY <1>1, <1>2, <1>3 DEF TypeOK
<1>5. life[c] \in Alive /\ cur[q] # "open" /\ cur[q] # "stale" /\ q # describing /\ q \notin Overtaken
  BY <1>1, <1>2 DEF DriverInv, LifeSound, Alive, Overtaken
<1>6. CursorKeepsConnection' /\ LifeSound'
  BY <1>1, <1>2, <1>4, <1>5 DEF CursorKeepsConnection, LifeSound, Alive, DriverInv, TypeOK
<1>7. Takers' = {ConnOf(q)} /\ Releasers' = {}
  BY <1>2, <1>3, CallsDiffer DEF Takers, Releasers
<1>8. /\ \A r \in Curs : /\ ConnOf(q) \notin {NamesOf(r), TypesOf(r)}
                         /\ ConnOf(q) \notin Columns(r)
                         /\ Columns(r) = {NamesOf(r), TypesOf(r)}
                         /\ CursorFields(r) = {ConnOf(r), NamesOf(r), TypesOf(r)}
                         /\ ConnOf(r) = ConnOf(q) <=> r = q
      /\ \A d \in Conns : EnvOf(d) # ConnOf(q)
  BY FieldsApart DEF Columns
<1>9. \A r \in Curs, v \in Values : Take(ConnOf(r), v) \in Due' => r = q /\ v = c
  BY <1>3, <1>8, CallsDiffer
<1>10. ConnOf(q) \notin held
  BY <1>1, <1>2, <1>5, RestFacts
<1>11. /\ \A r \in Curs : r # q => cur'[r] = cur[r] /\ parent'[r] = parent[r] /\ life'[r] = life[r]
       /\ cur'[q] = "open" /\ parent'[q] = c
  BY <1>1, <1>2, <1>4 DEF TypeOK
<1>12. \A r \in Curs : cur'[r] = "open" =>
              /\ NamesOf(r) \in held \cup Takers' <=> TypesOf(r) \in held \cup Takers'
              /\ CursorFields(r) \cap Releasers' = {}
              /\ \A h \in CursorFields(r) : h \in held \/ ref[h] = NoRef
              /\ ConnOf(r) \in held => what[ConnOf(r)] = parent'[r]
              /\ \A v \in Values : Take(ConnOf(r), v) \in Due' => v = parent'[r]
  <2> TAKE r \in Curs
  <2>1. CASE r = q
    BY <1>1, <1>2, <1>5, <1>7, <1>8, <1>9, <1>10, <1>11, <2>1, RestFacts
  <2>2. CASE r # q
    BY <1>1, <1>2, <1>7, <1>8, <1>9, <1>11, <2>2, RestFacts
  <2>3. QED
    BY <2>1, <2>2
<1>13. \A r \in Curs : cur'[r] # "open" => r # q /\ cur[r] # "open" /\ (r \in Overtaken' <=> r \in Overtaken)
  BY <1>1, <1>2, <1>11 DEF Overtaken
<1>14. /\ \A r \in Curs : cur'[r] # "open" =>
             \A h \in Columns(r) : h \in (held \cup Takers') \ Releasers' <=> r \in Overtaken'
       /\ \A r \in Curs : life'[r] = "none" => \A h \in CursorFields(r) : ref[h] = NoRef
  BY <1>1, <1>2, <1>4, <1>7, <1>8, <1>11, <1>13, RestFacts
<1>15. /\ \A d \in Conns : conn'[d] = "open" <=> EnvOf(d) \in (held \cup Takers') \ Releasers'
       /\ \A r \in Curs : cur'[r] = "open" <=> ConnOf(r) \in (held \cup Takers') \ Releasers'
       /\ \A w \in Wrappers : wrap'[w] = "live" <=> w \in (held \cup Takers') \ Releasers'
       /\ Takers' \cap held \subseteq Careless /\ Releasers' = {}
  BY <1>1, <1>2, <1>7, <1>8, <1>10, <1>11, RestFacts
<1>16. QED
  BY <1>1, <1>3, <1>4, <1>6, <1>12, <1>14, <1>15, Method

\* create_colinfo ends: both tables, once, unless it was interrupted.
LEMMA ColumnsKept ==
    ASSUME IInv, Ready, UNCHANGED regVars, NEW q \in Curs, cur[q] \in {"open", "stale"},
           todo' = KeepColumns(q), life[q] \notin {"none", "freed"},
           cur[q] = "stale" => q = describing, describing' \in {describing, Nil},
           describing' = Nil \/ cur[q] = "open", describing \in {Nil, q} \/ describing' = describing,
           UNCHANGED <<env, conn, cur, parent, result, life, wrap, reachable, phase>>
    PROVE  IInv'
<1> DEFINE a == Take(TypesOf(q), TypeTable[q])
           b == Take(NamesOf(q), NameTable[q])
<1>1. todo' = <<a, b>>
  BY DEF KeepColumns
<1>2. /\ DriverInv /\ TypeOK /\ ~Taking'
      /\ NamesOf(q) \in Holders \ Wrappers /\ TypesOf(q) \in Holders \ Wrappers
      /\ TypeTable[q] \in Values /\ NameTable[q] \in Values /\ NamesOf(q) # TypesOf(q)
      /\ Nil \notin Curs
  BY FieldsApart, MysqlAssumption, RegistryAssumption
     DEF IInv, DriverInv, Taking, Ready, Quiet, regVars
<1>3. a \in Ops /\ b \in Ops /\ a.h # b.h
  BY <1>2, CallTypes, CallParts
<1> HIDE DEF a, b
<1>4. todo' \in Seq(Ops) /\ Len(todo') <= 3 /\ Due' = {a, b} /\ DueApart'
  BY <1>1, <1>2, <1>3, TwoCalls
<1>5. TypeOK' /\ CursorKeepsConnection' /\ LifeSound'
  BY <1>2, <1>4 DEF TypeOK, CursorKeepsConnection, DriverInv, LifeSound
<1>6. Takers' = Columns(q) /\ Releasers' = {}
  BY <1>2, <1>4, CallsDiffer DEF Takers, Releasers, a, b, Columns
<1>7. /\ \A r \in Curs : /\ ConnOf(r) \notin Takers'
                         /\ Columns(r) = {NamesOf(r), TypesOf(r)}
                         /\ r = q => Columns(r) \subseteq Takers'
                         /\ r # q => Columns(r) \cap Takers' = {}
      /\ \A d \in Conns : EnvOf(d) \notin Takers'
      /\ \A w \in Wrappers : w \notin Takers'
  BY <1>2, <1>6, FieldsApart DEF Columns
<1>8. \A r \in Curs, v \in Values : Take(ConnOf(r), v) \notin Due'
  BY <1>4, <1>6, <1>7, CallsDiffer DEF a, b, Columns
<1>9. Takers' \cap held \subseteq Careless
  BY <1>6, CarelessColumns
<1>10. \A r \in Curs : cur[r] # "open" => (r \in Overtaken' <=> r \in Overtaken \/ r = q)
  BY <1>2 DEF Overtaken
<1>11. \A r \in Curs : cur[r] # "open" =>
          \A h \in Columns(r) : h \in (held \cup Takers') \ Releasers' <=> r \in Overtaken'
  <2> TAKE r \in Curs
  <2> HAVE cur[r] # "open"
  <2>1. CASE r = q
    BY <1>6, <1>7, <1>10, <2>1
  <2>2. CASE r # q
    BY <1>2, <1>6, <1>7, <1>10, <2>2, RestFacts
  <2>3. QED
    BY <2>1, <2>2
<1>12. \A r \in Curs : cur[r] = "open" =>
              /\ NamesOf(r) \in held \cup Takers' <=> TypesOf(r) \in held \cup Takers'
              /\ CursorFields(r) \cap Releasers' = {}
              /\ \A h \in CursorFields(r) : h \in held \/ ref[h] = NoRef
              /\ ConnOf(r) \in held => what[ConnOf(r)] = parent[r]
              /\ \A v \in Values : Take(ConnOf(r), v) \in Due' => v = parent[r]
  BY <1>2, <1>6, <1>7, <1>8, RestFacts
<1>13. /\ \A d \in Conns : conn[d] = "open" <=> EnvOf(d) \in (held \cup Takers') \ Releasers'
       /\ \A r \in Curs : cur[r] = "open" <=> ConnOf(r) \in (held \cup Takers') \ Releasers'
       /\ \A w \in Wrappers : wrap[w] = "live" <=> w \in (held \cup Takers') \ Releasers'
  BY <1>2, <1>6, <1>7, RestFacts
<1>14. QED
  BY <1>2, <1>4, <1>5, <1>6, <1>9, <1>11, <1>12, <1>13, RestFacts, Method

LEMMA InvColumnInfo == ASSUME IInv, NEW q \in Curs, ColumnInfo(q) PROVE IInv'
<1>1. cur[q] = "open" /\ life[q] \notin {"none", "freed"} /\ describing' = describing
  BY DEF ColumnInfo, UsableCur, IInv, DriverInv, LifeSound, Alive, sqlVars
<1>2. QED
  BY <1>1, ColumnsKept DEF ColumnInfo, UsableCur, Script, sqlVars

LEMMA InvColumnInfoEnds == ASSUME IInv, ColumnInfoEnds PROVE IInv'
<1>1. PICK q \in Curs : q = describing
  BY DEF ColumnInfoEnds, IInv, DriverInv, TypeOK
<1>2. cur[q] \in {"open", "stale"} /\ life[q] \notin {"none", "freed"}
  BY <1>1 DEF IInv, DriverInv, LifeSound
<1>3. QED
  BY <1>1, <1>2, ColumnsKept DEF ColumnInfoEnds

\* cur_nullify: the cursor gives up what it refers to.  Its conn field holds a
\* reference in force; the others do, or hold LUA_NOREF.
LEMMA NullifyParts ==
    ASSUME IInv, Ready, UNCHANGED regVars, NEW q \in Curs, cur[q] = "open", Nullify(q),
           life' = life \/ life' = [life EXCEPT ![q] = "called"],
           UNCHANGED <<env, conn, parent, describing, wrap, reachable, phase>>
    PROVE  IInv'
<1> DEFINE a == Release(ConnOf(q))
           b == Release(NamesOf(q))
           d == Release(TypesOf(q))
<1>1. /\ result' = result \ {q} /\ todo' = <<a, b, d>>
      /\ cur' = [cur EXCEPT ![q] = IF describing = q THEN "stale" ELSE "closed"]
  BY DEF Nullify
<1>2. DriverInv /\ TypeOK /\ ~Taking' /\ q \notin Conns
  BY MysqlAssumption DEF IInv, DriverInv, Taking, Ready, Quiet, regVars
<1>3. a \in Ops /\ b \in Ops /\ d \in Ops /\ a.h # b.h /\ a.h # d.h /\ b.h # d.h
  BY FieldsApart, CallTypes, CallParts
<1>4. \A h : Release(h) \in {a, b, d} <=> h \in CursorFields(q)
  BY FieldsApart, CallsDiffer
<1>5. \A h, v : Take(h, v) \notin {a, b, d}
  BY CallsDiffer
<1> HIDE DEF a, b, d
<1>6. todo' \in Seq(Ops) /\ Len(todo') <= 3 /\ Due' = {a, b, d} /\ DueApart'
  BY <1>1, <1>2, <1>3, ThreeCalls
<1>7. /\ life'[q] \in {life[q], "called"} /\ life' \in [Conns \cup Curs -> {"none", "due", "late", "separated", "called", "freed"}]
      /\ \A x \in Conns \cup Curs : x # q => life'[x] = life[x]
  BY <1>2 DEF TypeOK
<1>8. /\ cur'[q] \in {"stale", "closed"} /\ (cur'[q] = "stale" <=> describing = q)
      /\ \A r \in Curs : r # q => cur'[r] = cur[r]
  BY <1>1, <1>2 DEF TypeOK
<1>9. life[q] \in Alive
  BY <1>2 DEF DriverInv, LifeSound
<1>10. TypeOK'
  BY <1>1, <1>2, <1>6, <1>7, <1>8 DEF TypeOK
<1>11. CursorKeepsConnection'
  BY <1>2, <1>7, <1>8, MysqlAssumption DEF CursorKeepsConnection, DriverInv, TypeOK
<1>12. LifeSound'
  BY <1>2, <1>7, <1>8, <1>9 DEF LifeSound, Alive, DriverInv
<1>13. Takers' = {} /\ Releasers' = CursorFields(q)
  BY <1>4, <1>5, <1>6, FieldsApart DEF Takers, Releasers
<1>14. /\ \A c \in Conns : EnvOf(c) \notin Releasers'
       /\ \A w \in Wrappers : w \notin Releasers'
       /\ \A r \in Curs : r # q => CursorFields(r) \cap Releasers' = {}
       /\ \A r \in Curs : /\ CursorFields(r) = {ConnOf(r), NamesOf(r), TypesOf(r)}
                          /\ Columns(r) \subseteq CursorFields(r)
  BY <1>13, FieldsApart DEF Columns
<1>15. \A h \in Releasers' : h \in held \/ ref[h] = NoRef
  BY <1>2, <1>13, RestFacts
<1>16. /\ \A e \in Conns : conn'[e] = "open" <=> EnvOf(e) \in (held \cup Takers') \ Releasers'
       /\ \A w \in Wrappers : wrap'[w] = "live" <=> w \in (held \cup Takers') \ Releasers'
  BY <1>2, <1>13, <1>14, RestFacts
<1>17. \A r \in Curs : cur'[r] = "open" <=> ConnOf(r) \in (held \cup Takers') \ Releasers'
  BY <1>2, <1>8, <1>13, <1>14, RestFacts
<1>18. \A r \in Curs : cur'[r] = "open" =>
              /\ NamesOf(r) \in held \cup Takers' <=> TypesOf(r) \in held \cup Takers'
              /\ CursorFields(r) \cap Releasers' = {}
              /\ \A h \in CursorFields(r) : h \in held \/ ref[h] = NoRef
              /\ ConnOf(r) \in held => what[ConnOf(r)] = parent'[r]
              /\ \A v \in Values : Take(ConnOf(r), v) \in Due' => v = parent'[r]
  BY <1>2, <1>5, <1>6, <1>8, <1>13, <1>14, RestFacts
<1>19. q \notin Overtaken' /\ \A r \in Curs : r # q => (r \in Overtaken' <=> r \in Overtaken)
  BY <1>7, <1>8 DEF Overtaken
<1>20. \A r \in Curs : cur'[r] # "open" =>
          \A h \in Columns(r) : h \in (held \cup Takers') \ Releasers' <=> r \in Overtaken'
  <2> TAKE r \in Curs
  <2> HAVE cur'[r] # "open"
  <2>1. CASE r = q
    BY <1>13, <1>14, <1>19, <2>1
  <2>2. CASE r # q
    BY <1>2, <1>8, <1>13, <1>14, <1>19, <2>2, RestFacts
  <2>3. QED
    BY <2>1, <2>2
<1>21. \A r \in Curs : life'[r] = "none" => \A h \in CursorFields(r) : ref[h] = NoRef
  BY <1>2, <1>7, <1>9, RestFacts DEF Alive
<1>22. QED
  BY <1>6, <1>10, <1>11, <1>12, <1>13, <1>15, <1>16, <1>17, <1>18, <1>20, <1>21, Method

LEMMA InvCursorEnds == ASSUME IInv, NEW q \in Curs, CursorEnds(q) PROVE IInv'
BY NullifyParts DEF CursorEnds, UsableCur, Script

LEMMA InvWrap ==
    ASSUME IInv, NEW w \in Wrappers, NEW x \in reachable \cup {Function}, Wrap(w, x)
    PROVE  IInv'
<1>1. /\ Ready /\ UNCHANGED regVars /\ wrap[w] = "none" /\ wrap' = [wrap EXCEPT ![w] = "live"]
      /\ todo' = <<Take(w, x)>>
      /\ UNCHANGED <<env, conn, cur, parent, result, life, describing, reachable, phase>>
  BY DEF Wrap, Script
<1>2. DriverInv /\ TypeOK /\ w \in Holders /\ x \in Values
  BY FieldsApart, MysqlAssumption DEF IInv, DriverInv, TypeOK
<1>3. todo' \in Seq(Ops) /\ Len(todo') <= 3 /\ Due' = {Take(w, x)} /\ DueApart'
  BY <1>1, <1>2, OneCall, CallTypes DEF Taking, Ready, Quiet, regVars
<1>4. TypeOK' /\ CursorKeepsConnection' /\ LifeSound' /\ Overtaken' = Overtaken
  BY <1>1, <1>2, <1>3 DEF TypeOK, CursorKeepsConnection, DriverInv, LifeSound, Overtaken
<1>5. Takers' = {w} /\ Releasers' = {}
  BY <1>2, <1>3, CallsDiffer DEF Takers, Releasers
<1>6. /\ \A c \in Conns : EnvOf(c) # w
      /\ \A q \in Curs : /\ w \notin {ConnOf(q), NamesOf(q), TypesOf(q)} /\ w \notin Columns(q)
                         /\ \A v \in Values : Take(ConnOf(q), v) \notin Due'
  BY <1>3, FieldsApart, CallsDiffer DEF Columns
<1>7. \A u \in Wrappers : wrap'[u] = "live" <=> u \in (held \cup Takers') \ Releasers'
  BY <1>1, <1>2, <1>5, RestFacts DEF TypeOK
<1>8. w \notin held
  BY <1>1, <1>2, RestFacts
<1>9. QED
  BY <1>1, <1>2, <1>3, <1>4, <1>5, <1>6, <1>7, <1>8, RestFacts, Method

LEMMA InvDispose == ASSUME IInv, NEW w \in Wrappers, Dispose(w) PROVE IInv'
<1>1. /\ Ready /\ UNCHANGED regVars /\ wrap[w] = "live" /\ wrap' = [wrap EXCEPT ![w] = "disposed"]
      /\ todo' = <<Release(w)>>
      /\ UNCHANGED <<env, conn, cur, parent, result, life, describing, reachable, phase>>
  BY DEF Dispose, Script
<1>2. DriverInv /\ TypeOK /\ w \in Holders
  BY FieldsApart DEF IInv, DriverInv
<1>3. todo' \in Seq(Ops) /\ Len(todo') <= 3 /\ Due' = {Release(w)} /\ DueApart'
  BY <1>1, <1>2, OneCall, CallTypes DEF Taking, Ready, Quiet, regVars
<1>4. TypeOK' /\ CursorKeepsConnection' /\ LifeSound' /\ Overtaken' = Overtaken
  BY <1>1, <1>2, <1>3 DEF TypeOK, CursorKeepsConnection, DriverInv, LifeSound, Overtaken
<1>5. Takers' = {} /\ Releasers' = {w}
  BY <1>2, <1>3, CallsDiffer DEF Takers, Releasers
<1>6. /\ \A c \in Conns : EnvOf(c) # w
      /\ \A q \in Curs : /\ w \notin CursorFields(q) /\ w \notin Columns(q)
                         /\ CursorFields(q) = {ConnOf(q), NamesOf(q), TypesOf(q)}
                         /\ \A v \in Values : Take(ConnOf(q), v) \notin Due'
  BY <1>3, FieldsApart, CallsDiffer DEF Columns
<1>7. \A u \in Wrappers : wrap'[u] = "live" <=> u \in (held \cup Takers') \ Releasers'
  BY <1>1, <1>2, <1>5, RestFacts DEF TypeOK
<1>8. w \in held
  BY <1>1, <1>2, RestFacts
<1>9. QED
  BY <1>1, <1>2, <1>3, <1>4, <1>5, <1>6, <1>7, <1>8, RestFacts, Method
-----------------------------------------------------------------------------
(* The collector, lua_close and the finalizers of .NET *)

\* Steps that make no call and open or close nothing; what is open waits for its
\* finalizer still, or is as it was.
LEMMA InvFrame ==
    ASSUME IInv, UNCHANGED <<regVars, todo, conn, cur, parent, result, wrap>>, TypeOK',
           \A x \in Conns \cup Curs :
              \/ life'[x] = life[x]
              \/ life[x] \in Alive /\ life'[x] \in Alive
              \/ /\ life[x] \in Alive /\ life'[x] = "called"
                 /\ x \in Conns => conn[x] # "open"
                 /\ x \in Curs => cur[x] # "open",
           \/ describing' = describing
           \/ describing = Nil /\ \E q \in Curs : describing' = q /\ cur[q] = "open"
    PROVE  IInv'
<1>1. RegInv'
  <2>1. UNCHANGED regVars => (RegInv => RegInv')
    BY RegInvNext
  <2>2. QED
    BY <2>1 DEF IInv
<1>2. /\ Due' = Due /\ Taking' = Taking /\ Takers' = Takers /\ Releasers' = Releasers
      /\ UNCHANGED <<held, ref, call, what>>
  BY DEF Due, Taking, Takers, Releasers, regVars
<1>3. \A h : Coming(h)' = Coming(h) /\ Going(h)' = Going(h) /\ Stays(h)' = Stays(h)
  BY <1>2 DEF Coming, Going, Stays
<1>4. \A x \in Conns \cup Curs : life'[x] \in {"none", "freed"} <=> life[x] \in {"none", "freed"}
  BY DEF Alive
<1>5. \A x \in Conns \cup Curs : life'[x] = "none" <=> life[x] = "none"
  BY DEF Alive
<1>6. \A x \in Conns \cup Curs : life'[x] = "freed" <=> life[x] = "freed"
  BY DEF Alive
<1>7. /\ \A x \in Curs : x = describing' => x = describing \/ cur[x] = "open"
      /\ \A x \in Curs : x = describing => x = describing' \/ x = Nil
      /\ Nil \notin Curs
  BY RegistryAssumption, MysqlAssumption
<1>8. \A q \in Curs : cur[q] = "stale" => (q = describing' <=> q = describing)
  BY <1>7
<1>9. Overtaken' = Overtaken
  BY <1>6, <1>8 DEF Overtaken
<1>10. DueApart' /\ todo' \in Seq(Ops)
  BY <1>2 DEF IInv, DriverInv, DueApart
<1>11. CursorKeepsConnection'
  BY <1>4 DEF IInv, DriverInv, TypeOK, CursorKeepsConnection
<1>12. LifeSound'
  <2>1. LifeSound
    BY DEF IInv, DriverInv
  <2>2. /\ \A c \in Conns : conn[c] = "open" => life'[c] \in Alive
        /\ \A q \in Curs : cur[q] = "open" => life'[q] \in Alive
    BY <2>1 DEF LifeSound
  <2>3. \A q \in Curs : cur[q] = "stale" => life'[q] # "none"
    BY <1>5, <2>1 DEF LifeSound
  <2>4. \A q \in Curs : q = describing' => cur[q] \in {"open", "stale"} /\ life'[q] \notin {"none", "freed"}
    BY <1>4, <1>7, <2>1 DEF LifeSound, Alive
  <2>5. QED
    BY <2>2, <2>3, <2>4 DEF LifeSound
<1>13. NumbersFresh'
  BY <1>2, <1>3, <1>5 DEF IInv, DriverInv, NumbersFresh
<1>14. TakesFresh' /\ UsersHold' /\ ColumnsHold' /\ ParentHeld'
  BY <1>2, <1>3, <1>9 DEF IInv, DriverInv, TakesFresh, UsersHold, ColumnsHold, ParentHeld
<1>15. QED
  BY <1>1, <1>10, <1>11, <1>12, <1>13, <1>14 DEF IInv, DriverInv

LEMMA InvColumnInfoBegins == ASSUME IInv, NEW q \in Curs, ColumnInfoBegins(q) PROVE IInv'
<1>1. TypeOK'
  BY DEF ColumnInfoBegins, IInv, DriverInv, TypeOK
<1>2. QED
  BY <1>1, InvFrame DEF ColumnInfoBegins, UsableCur

LEMMA InvSeparate == ASSUME IInv, NEW x \in Conns \cup Curs, Separate(x) PROVE IInv'
<1>1. /\ life' = [life EXCEPT ![x] = "separated"] /\ life[x] \in Alive
      /\ UNCHANGED <<regVars, env, conn, cur, parent, result, describing, wrap, reachable, phase, todo>>
  BY DEF Separate, Alive
<1>2. TypeOK
  BY DEF IInv, DriverInv
<1>3. TypeOK'
  BY <1>1, <1>2 DEF TypeOK
<1>4. \A y \in Conns \cup Curs : life'[y] = IF y = x THEN "separated" ELSE life[y]
  BY <1>1, <1>2 DEF TypeOK
<1>5. QED
  BY <1>1, <1>3, <1>4, InvFrame DEF Alive

LEMMA InvCloseState == ASSUME IInv, CloseState PROVE IInv'
<1>1. TypeOK'
  BY DEF CloseState, IInv, DriverInv, TypeOK
<1>2. \A x \in Conns \cup Curs : life'[x] = life[x] \/ (life[x] \in Alive /\ life'[x] \in Alive)
  BY DEF CloseState, Alive
<1>3. QED
  BY <1>1, <1>2, InvFrame DEF CloseState

LEMMA InvQuietSteps ==
    ASSUME IInv,
           \/ EnvClose \/ Sweep
           \/ \E x \in Conns \cup Curs : Drop(x) \/ Regain(x)
           \/ \E w \in Wrappers : Push(w)
           \/ UNCHANGED vars
    PROVE  IInv'
<1>1. TypeOK
  BY DEF IInv, DriverInv
<1>2. CASE EnvClose
  BY <1>1, <1>2, InvFrame DEF EnvClose, TypeOK
<1>3. CASE Sweep
  BY <1>1, <1>3, InvFrame DEF Sweep, TypeOK
<1>4. CASE \E x \in Conns \cup Curs : Drop(x)
  BY <1>1, <1>4, InvFrame DEF Drop, TypeOK
<1>5. CASE \E x \in Conns \cup Curs : Regain(x)
  BY <1>1, <1>5, InvFrame DEF Regain, TypeOK
<1>6. CASE \E w \in Wrappers : Push(w)
  BY <1>1, <1>6, InvFrame DEF Push, TypeOK
<1>7. CASE UNCHANGED vars
  BY <1>1, <1>7, InvFrame DEF vars, sqlVars, TypeOK
<1>8. QED
  BY <1>2, <1>3, <1>4, <1>5, <1>6, <1>7

\* The finalizer of x found x closed.
LEMMA InvCalled ==
    ASSUME IInv, NEW x \in Conns \cup Curs, Called(x),
           x \in Conns => conn[x] # "open", x \in Curs => cur[x] # "open",
           UNCHANGED <<regVars, env, conn, cur, parent, result, describing, wrap, reachable, phase, todo>>
    PROVE  IInv'
<1>1. life' = [life EXCEPT ![x] = "called"] /\ life[x] = "separated"
  BY DEF Called
<1>2. TypeOK
  BY DEF IInv, DriverInv
<1>3. TypeOK'
  BY <1>1, <1>2 DEF TypeOK
<1>4. \A y \in Conns \cup Curs : life'[y] = IF y = x THEN "called" ELSE life[y]
  BY <1>1, <1>2 DEF TypeOK
<1>5. \A y \in Conns \cup Curs :
              \/ life'[y] = life[y]
              \/ /\ life[y] \in Alive /\ life'[y] = "called"
                 /\ y \in Conns => conn[y] # "open"
                 /\ y \in Curs => cur[y] # "open"
  BY <1>1, <1>4 DEF Alive
<1>6. QED
  BY <1>3, <1>5, InvFrame

\* cur_gc: as cur_close, if the cursor is open.
LEMMA InvCollectCursor == ASSUME IInv, NEW q \in Curs, CollectCursor(q) PROVE IInv'
<1>1. /\ Ready /\ UNCHANGED regVars /\ Called(q) /\ life' = [life EXCEPT ![q] = "called"]
      /\ UNCHANGED <<env, conn, parent, describing, wrap, reachable, phase>>
  BY DEF CollectCursor, Called
<1>2. CASE cur[q] = "open"
  <2>1. Nullify(q)
    BY <1>2 DEF CollectCursor
  <2>2. QED
    BY <1>1, <1>2, <2>1, NullifyParts
<1>3. CASE cur[q] # "open"
  <2>1. UNCHANGED <<cur, result, todo>> /\ q \notin Conns
    BY <1>3, MysqlAssumption DEF CollectCursor
  <2>2. QED
    BY <1>1, <1>3, <2>1, InvCalled
<1>4. QED
  BY <1>2, <1>3

LEMMA InvCollectConn == ASSUME IInv, NEW c \in Conns, CollectConn(c) PROVE IInv'
<1>1. /\ Ready /\ UNCHANGED regVars /\ Called(c) /\ life' = [life EXCEPT ![c] = "called"]
      /\ UNCHANGED <<env, cur, parent, result, describing, wrap, reachable, phase>>
  BY DEF CollectConn, Called
<1>2. CASE conn[c] = "open"
  <2>1. ShutDown(c)
    BY <1>2 DEF CollectConn
  <2>2. QED
    BY <1>1, <1>2, <2>1, ShutDownParts
<1>3. CASE conn[c] # "open"
  <2>1. UNCHANGED <<conn, todo>> /\ c \notin Curs
    BY <1>3, MysqlAssumption DEF CollectConn
  <2>2. QED
    BY <1>1, <1>3, <2>1, InvCalled
<1>4. QED
  BY <1>2, <1>3

\* The connection of an open cursor is in the registry, and not garbage.
LEMMA ParentStays ==
    ASSUME IInv, Ready, NEW x, Garbage(x), NEW q \in Curs, cur[q] = "open"
    PROVE  parent[q] # x
<1>1. \A s \in Slots : reg[s] # x
  BY DEF Garbage
<1>2. ConnOf(q) \in held /\ what[ConnOf(q)] = parent[q]
  BY RestFacts DEF IInv
<1>3. ref[ConnOf(q)] \in Slots /\ reg[ref[ConnOf(q)]] = what[ConnOf(q)]
  BY <1>2 DEF IInv, RegInv, Resolved
<1>4. QED
  BY <1>1, <1>2, <1>3

\* A userdata is freed after its finalizer was called: of its fields only the column
\* tables may be in force.
LEMMA FreedFields ==
    ASSUME IInv, NEW x \in Conns \cup Curs, Freed(x)
    PROVE  /\ Fields(x) \in SUBSET Holders /\ Fields(x) \cap Wrappers = {}
           /\ Fields(x) \cap held \subseteq Careless
           /\ x \in Conns => conn[x] # "open" /\ x \notin Curs /\ Fields(x) = {EnvOf(x)}
           /\ x \in Curs => cur[x] # "open" /\ x # describing /\ x \notin Conns /\ Fields(x) = CursorFields(x)
<1>1. DriverInv /\ Ready /\ life[x] = "called" /\ x # describing
  BY DEF Freed, IInv, Garbage
<1>2. CASE x \in Conns
  <2>1. conn[x] # "open" /\ x \notin Curs /\ Fields(x) = {EnvOf(x)}
    BY <1>1, <1>2, MysqlAssumption DEF DriverInv, LifeSound, Alive, Fields
  <2>2. EnvOf(x) \in Holders \ Wrappers /\ EnvOf(x) \notin held
    BY <1>1, <1>2, <2>1, FieldsApart, RestFacts
  <2>3. QED
    BY <1>2, <2>1, <2>2
<1>3. CASE x \in Curs
  <2>1. cur[x] # "open" /\ x \notin Conns /\ Fields(x) = CursorFields(x)
    BY <1>1, <1>3, MysqlAssumption DEF DriverInv, LifeSound, Alive, Fields
  <2>2. /\ CursorFields(x) \subseteq Holders \ Wrappers /\ ConnOf(x) \notin held
        /\ CursorFields(x) = {ConnOf(x)} \cup Columns(x) /\ Columns(x) \subseteq Careless
    BY <1>1, <1>3, <2>1, FieldsApart, RestFacts, CarelessColumns DEF Columns
  <2>3. QED
    BY <1>1, <1>3, <2>1, <2>2
<1>4. QED
  BY <1>2, <1>3

LEMMA InvFreed == ASSUME IInv, NEW x \in Conns \cup Curs, Freed(x) PROVE IInv'
<1>1. /\ Ready /\ life[x] = "called" /\ Garbage(x) /\ life' = [life EXCEPT ![x] = "freed"]
      /\ held' = held \ Fields(x)
      /\ \A h \in Holders : ref'[h] = (IF h \in Fields(x) THEN NoRef ELSE ref[h])
      /\ \A h \in Holders : what'[h] = (IF h \in Fields(x) THEN Nil ELSE what[h])
      /\ UNCHANGED <<call, env, conn, cur, parent, result, describing, wrap, reachable, phase, todo>>
  BY DEF Freed, Reset
<1>2. RegInv'
  BY FreedFields, RegInvReset DEF IInv, Freed
<1>3. DriverInv /\ TypeOK /\ todo = <<>>
  BY <1>1 DEF IInv, DriverInv, Ready
<1>4. /\ Due' = {} /\ ~Taking'
      /\ \A h : ~Coming(h)' /\ ~Going(h)' /\ (Stays(h)' <=> h \in held')
  <2>1. Due' = {} /\ ~Taking'
    BY <1>1 DEF Ready, Due, Taking, Quiet
  <2>2. QED
    BY <2>1 DEF Coming, Going, Stays, Takers, Releasers
<1>5. /\ life'[x] = "freed" /\ \A y \in Conns \cup Curs : y # x => life'[y] = life[y]
      /\ TypeOK'
  BY <1>1, <1>3 DEF TypeOK
<1>6. /\ \A c \in Conns : c # x => EnvOf(c) \notin Fields(x)
      /\ \A q \in Curs : q # x => CursorFields(q) \cap Fields(x) = {}
      /\ \A q \in Curs : q = x => CursorFields(q) = Fields(x)
      /\ \A q \in Curs : CursorFields(q) = {ConnOf(q)} \cup Columns(q) /\ CursorFields(q) \subseteq Holders
      /\ \A q \in Curs : Columns(q) = {NamesOf(q), TypesOf(q)}
      /\ \A w \in Wrappers : w \notin Fields(x)
  <2>1. /\ \A c \in Conns : c # x => EnvOf(c) \notin Fields(x)
        /\ \A q \in Curs : q # x => CursorFields(q) \cap Fields(x) = {}
    <3>1. CASE x \in Conns
      BY <3>1, FreedFields, FieldsApart
    <3>2. CASE x \in Curs
      BY <3>2, FreedFields, FieldsApart
    <3>3. QED
      BY <3>1, <3>2
  <2>2. QED
    BY <2>1, FreedFields, FieldsApart DEF Columns
<1>7. /\ \A c \in Conns : EnvOf(c) \in held' <=> EnvOf(c) \in held
      /\ \A q \in Curs : ConnOf(q) \in held' <=> ConnOf(q) \in held
      /\ \A w \in Wrappers : w \in held' <=> w \in held
  <2>1. \A c \in Conns : c = x => EnvOf(c) \notin held
    BY <1>1, <1>3, FreedFields, RestFacts
  <2>2. \A q \in Curs : q = x => ConnOf(q) \notin held
    BY <1>1, <1>3, FreedFields, RestFacts
  <2>3. QED
    BY <1>1, <1>6, <2>1, <2>2
<1>8. TakesFresh' /\ UsersHold'
  BY <1>1, <1>3, <1>4, <1>7, RestFacts DEF TakesFresh, UsersHold
<1>9. ColumnsHold'
  <2> SUFFICES ASSUME NEW q \in Curs
               PROVE  IF cur'[q] = "open"
                      THEN /\ Stays(NamesOf(q))' <=> Stays(TypesOf(q))'
                           /\ \A h \in CursorFields(q) : ~Going(h)'
                      ELSE \A h \in Columns(q) : Stays(h)' <=> q \in Overtaken'
    BY DEF ColumnsHold
  <2>1. CASE q = x
    <3>1. cur'[q] # "open" /\ q \notin Overtaken'
      BY <1>1, <1>5, <2>1, FreedFields DEF Overtaken
    <3>2. \A h \in Columns(q) : h \notin held'
      BY <1>1, <1>6, <2>1
    <3>3. QED
      BY <1>4, <3>1, <3>2
  <2>2. CASE q # x
    <3>1. q \in Overtaken' <=> q \in Overtaken
      BY <1>1, <1>5, <2>2 DEF Overtaken
    <3>2. \A h \in Columns(q) : h \in held' <=> h \in held
      BY <1>1, <1>6, <2>2
    <3>3. CASE cur[q] = "open"
      <4>1. NamesOf(q) \in held <=> TypesOf(q) \in held
        BY <1>1, <1>3, <3>3, RestFacts
      <4>2. NamesOf(q) \in held' <=> TypesOf(q) \in held'
        BY <1>6, <3>2, <4>1
      <4>3. QED
        BY <1>1, <1>4, <3>3, <4>2
    <3>4. CASE cur[q] # "open"
      <4>1. \A h \in Columns(q) : h \in held <=> q \in Overtaken
        BY <1>1, <1>3, <3>4, RestFacts
      <4>2. QED
        BY <1>1, <1>4, <3>1, <3>2, <3>4, <4>1
    <3>5. QED
      BY <3>3, <3>4
  <2>3. QED
    BY <2>1, <2>2
<1>10. NumbersFresh'
  <2>1. \A q \in Curs : cur'[q] = "open" => \A h \in CursorFields(q) : h \in held' \/ ref'[h] = NoRef
    <3> SUFFICES ASSUME NEW q \in Curs, cur'[q] = "open", NEW h \in CursorFields(q)
                 PROVE  h \in held' \/ ref'[h] = NoRef
      OBVIOUS
    <3>1. q # x /\ cur[q] = "open" /\ h \in Holders /\ h \notin Fields(x)
      BY <1>1, <1>6, FreedFields
    <3>2. h \in held \/ ref[h] = NoRef
      BY <1>1, <1>3, <3>1, RestFacts
    <3>3. QED
      BY <1>1, <3>1, <3>2
  <2>2. \A q \in Curs : life'[q] = "none" => \A h \in CursorFields(q) : ref'[h] = NoRef
    <3> SUFFICES ASSUME NEW q \in Curs, life'[q] = "none", NEW h \in CursorFields(q)
                 PROVE  ref'[h] = NoRef
      OBVIOUS
    <3>1. q # x /\ life[q] = "none" /\ h \in Holders /\ h \notin Fields(x)
      BY <1>5, <1>6
    <3>2. QED
      BY <1>1, <1>3, <3>1, RestFacts
  <2>3. QED
    BY <1>4, <2>1, <2>2 DEF NumbersFresh
<1>11. ParentHeld'
  <2> SUFFICES ASSUME NEW q \in Curs, cur'[q] = "open"
               PROVE  /\ ConnOf(q) \in held' => what'[ConnOf(q)] = parent'[q]
                      /\ \A v \in Values : Take(ConnOf(q), v) \in Due' => v = parent'[q]
                      /\ Taking' /\ call'.h = ConnOf(q) => call'.v = parent'[q]
    BY DEF ParentHeld
  <2>1. q # x /\ cur[q] = "open" /\ ConnOf(q) \in Holders /\ ConnOf(q) \notin Fields(x)
    BY <1>1, <1>6, FreedFields
  <2>2. what[ConnOf(q)] = parent[q]
    BY <1>1, <1>3, <2>1, RestFacts
  <2>3. QED
    BY <1>1, <1>4, <2>1, <2>2
<1>12. CursorKeepsConnection'
  BY <1>1, <1>3, <1>5, ParentStays DEF CursorKeepsConnection, DriverInv, TypeOK
<1>13. LifeSound'
  BY <1>1, <1>3, <1>5, FreedFields DEF LifeSound, DriverInv
<1>14. DueApart' /\ todo' \in Seq(Ops)
  BY <1>1, <1>3, <1>4 DEF DueApart, DriverInv
<1>15. QED
  BY <1>2, <1>5, <1>8, <1>9, <1>10, <1>11, <1>12, <1>13, <1>14 DEF IInv, DriverInv

\* ~LuaBase may run at any time: its own reference is not on its way.
LEMMA InvFinalize == ASSUME IInv, NEW w \in Wrappers, Finalize(w) PROVE IInv'
<1>1. /\ wrap[w] = "live" /\ wrap' = [wrap EXCEPT ![w] = "disposed"] /\ w \in held
      /\ held' = held \ {w} /\ ref' = [ref EXCEPT ![w] = NoRef] /\ what' = [what EXCEPT ![w] = Nil]
      /\ UNCHANGED <<call, env, conn, cur, parent, result, life, describing, reachable, phase, todo>>
  BY DEF Finalize, Forget
<1>2. RegInv'
  BY RegInvForget, MysqlAssumption DEF IInv, Finalize
<1>3. /\ Due' = Due /\ Taking' = Taking /\ Takers' = Takers /\ Releasers' = Releasers
  BY <1>1 DEF Due, Taking, Takers, Releasers
<1>4. \A h : Coming(h)' = Coming(h) /\ Going(h)' = Going(h)
  BY <1>1, <1>3 DEF Coming, Going
<1>5. ~Coming(w) /\ ~Going(w)
  <2>1. w \notin Careless
    BY CarelessColumns, FieldsApart
  <2>2. QED
    BY <1>1, <2>1 DEF IInv, DriverInv, TakesFresh, UsersHold, Stays
<1>6. \A h : Stays(h)' <=> h # w /\ Stays(h)
  BY <1>1, <1>4, <1>5 DEF Stays
<1>7. /\ ref \in [Holders -> Slots \cup {NoRef}] /\ what \in [Holders -> Values \cup {Nil}]
      /\ wrap \in [Wrappers -> {"none", "live", "disposed"}] /\ w \in Holders
  BY FieldsApart DEF IInv, RegInv, RegType, DriverInv, TypeOK
<1>8. /\ \A c \in Conns : EnvOf(c) # w
      /\ \A q \in Curs : /\ w \notin CursorFields(q) /\ w \notin Columns(q)
                         /\ CursorFields(q) = {ConnOf(q), NamesOf(q), TypesOf(q)}
                         /\ CursorFields(q) \subseteq Holders
  BY FieldsApart DEF Columns
<1>9. /\ TypeOK' /\ DueApart' /\ CursorKeepsConnection' /\ LifeSound' /\ todo' \in Seq(Ops)
      /\ Overtaken' = Overtaken
  BY <1>1, <1>3, <1>7
     DEF IInv, DriverInv, TypeOK, DueApart, CursorKeepsConnection, LifeSound, Overtaken
<1>10. TakesFresh' /\ UsersHold'
  BY <1>1, <1>4, <1>6, <1>7, <1>8 DEF IInv, DriverInv, TakesFresh, UsersHold
<1>11. ColumnsHold'
  BY <1>1, <1>4, <1>6, <1>8, <1>9 DEF IInv, DriverInv, ColumnsHold
<1>12. \A h \in Holders : h # w => (h \in held' <=> h \in held) /\ ref'[h] = ref[h] /\ what'[h] = what[h]
  BY <1>1, <1>7
<1>13. NumbersFresh'
  <2>1. \A h \in Holders : Going(h)' => h \in held' \/ ref'[h] = NoRef
    BY <1>4, <1>5, <1>12 DEF IInv, DriverInv, NumbersFresh
  <2>2. \A q \in Curs : cur'[q] = "open" => \A h \in CursorFields(q) : h \in held' \/ ref'[h] = NoRef
    BY <1>1, <1>8, <1>12 DEF IInv, DriverInv, NumbersFresh
  <2>3. \A q \in Curs : life'[q] = "none" => \A h \in CursorFields(q) : ref'[h] = NoRef
    BY <1>1, <1>8, <1>12 DEF IInv, DriverInv, NumbersFresh
  <2>4. QED
    BY <2>1, <2>2, <2>3 DEF NumbersFresh
<1>14. ParentHeld'
  BY <1>1, <1>3, <1>8, <1>12 DEF IInv, DriverInv, ParentHeld
<1>15. QED
  BY <1>2, <1>9, <1>10, <1>11, <1>13, <1>14 DEF IInv, DriverInv

-----------------------------------------------------------------------------
(* The calls *)

\* The first of the calls that are due is about another holder than the rest.
LEMMA NextCall ==
    ASSUME IInv, todo # <<>>, Quiet, todo' = Tail(todo)
    PROVE  /\ Head(todo) \in Ops
           /\ todo' \in Seq(Ops) /\ Len(todo') <= 3
           /\ Due = {Head(todo)} \cup Due'
           /\ \A i, j \in 1..Len(todo') : i # j => todo'[i].h # todo'[j].h
           /\ \A o \in Due' : o.h # Head(todo).h
           /\ ~Taking
<1>1. todo \in Seq(Ops) /\ Len(todo) <= 3 /\ DueApart /\ Len(todo) \in Nat
  BY DEF IInv, DriverInv, TypeOK
<1>2. /\ Len(todo) > 0 /\ Head(todo) = todo[1] /\ todo[1] \in Ops
      /\ todo' \in Seq(Ops) /\ Len(todo') = Len(todo) - 1
      /\ \A i \in 1..Len(todo') : todo'[i] = todo[i + 1] /\ i + 1 \in 1..Len(todo) /\ i + 1 # 1
  BY <1>1
<1>3. \A k \in 1..Len(todo) : k # 1 => \E i \in 1..Len(todo') : todo'[i] = todo[k]
  <2> TAKE k \in 1..Len(todo)
  <2> HAVE k # 1
  <2>1. k - 1 \in 1..Len(todo') /\ (k - 1) + 1 = k
    BY <1>1, <1>2
  <2>2. QED
    BY <1>2, <2>1
<1>4. Due = {Head(todo)} \cup Due'
  <2>1. \A o \in Due : o \in {Head(todo)} \cup Due'
    BY <1>2, <1>3 DEF Due
  <2>2. \A o \in {Head(todo)} \cup Due' : o \in Due
    BY <1>1, <1>2 DEF Due
  <2>3. QED
    BY <2>1, <2>2
<1>5. /\ \A i, j \in 1..Len(todo') : i # j => todo'[i].h # todo'[j].h
      /\ \A o \in Due' : o.h # Head(todo).h
  <2>1. 1 \in 1..Len(todo)
    BY <1>1, <1>2
  <2>2. \A i, j \in 1..Len(todo') : i # j => i + 1 # j + 1
    BY <1>1, <1>2
  <2>3. QED
    BY <1>1, <1>2, <2>1, <2>2 DEF DueApart, Due
<1>6. QED
  BY <1>1, <1>2, <1>4, <1>5 DEF Taking, Quiet

\* luaL_ref begins: the reference is still on its way.
LEMMA InvTakeBegins ==
    ASSUME IInv, todo # <<>>, todo' = Tail(todo), UNCHANGED sqlVars,
           NEW h, NEW v, Head(todo) = Take(h, v), RefBegin(h, v)
    PROVE  IInv'
<1>1. Quiet /\ UNCHANGED <<held, ref, what, env, conn, cur, parent, result, life, describing, wrap, reachable, phase>>
  BY DEF RefBegin, sqlVars
<1>2. /\ Due = {Take(h, v)} \cup Due' /\ todo' \in Seq(Ops) /\ Len(todo') <= 3
      /\ h \in Holders /\ v \in Values /\ ~Taking /\ Take(h, v) \in Ops
      /\ \A o \in Due' : o.h # h
  BY <1>1, NextCall, CallTypes, CallParts
<1>3. Taking' /\ call'.h = h /\ call'.v = v
  BY DEF RefBegin, Taking
<1>4. Takers = {h} \cup Takers' /\ Releasers' = Releasers
  BY <1>2, CallsDiffer DEF Takers, Releasers
<1>5. \A g : /\ Coming(g)' <=> Coming(g)
             /\ Going(g)' <=> Going(g)
             /\ Stays(g)' <=> Stays(g)
  BY <1>1, <1>2, <1>3, <1>4 DEF Coming, Going, Stays
<1>6. RegInv'
  BY <1>2, RegInvRefBegin DEF IInv
<1>7. TypeOK' /\ CursorKeepsConnection' /\ LifeSound' /\ Overtaken' = Overtaken
  BY <1>1, <1>2 DEF IInv, DriverInv, TypeOK, CursorKeepsConnection, LifeSound, Overtaken
<1>8. DueApart'
  BY <1>1, <1>2, <1>3, NextCall DEF DueApart
<1>9. TakesFresh' /\ UsersHold' /\ ColumnsHold' /\ NumbersFresh'
  BY <1>1, <1>5, <1>7 DEF IInv, DriverInv, TakesFresh, UsersHold, ColumnsHold, NumbersFresh
<1>10. ParentHeld'
  BY <1>1, <1>2, <1>3 DEF IInv, DriverInv, ParentHeld
<1>11. QED
  BY <1>2, <1>6, <1>7, <1>8, <1>9, <1>10 DEF IInv, DriverInv

\* luaL_unref begins, or finds LUA_NOREF: the holder has no reference any more.
LEMMA InvReleaseBegins ==
    ASSUME IInv, todo # <<>>, todo' = Tail(todo), UNCHANGED sqlVars,
           NEW h, Head(todo) = Release(h), UnrefBegin(h) \/ UnrefNothing(h)
    PROVE  IInv'
<1>1. /\ Quiet /\ ~Taking'
      /\ UNCHANGED <<ref, env, conn, cur, parent, result, life, describing, wrap, reachable, phase>>
  BY DEF UnrefBegin, UnrefNothing, regVars, sqlVars, Taking, Quiet
<1>2. /\ Due = {Release(h)} \cup Due' /\ todo' \in Seq(Ops) /\ Len(todo') <= 3
      /\ h \in Holders /\ ~Taking /\ Release(h) \in Ops
      /\ \A o \in Due' : o.h # h
  BY <1>1, NextCall, CallTypes, CallParts
<1>3. /\ Releasers = {h} \cup Releasers' /\ Takers' = Takers
      /\ h \notin Releasers' /\ h \notin Takers
  BY <1>2, CallsDiffer, CallParts DEF Takers, Releasers
<1>4. h \in held \/ ref[h] = NoRef
  BY <1>2, <1>3 DEF IInv, DriverInv, NumbersFresh, Going
<1>5. /\ held' = held \ {h}
      /\ \A g \in Holders : g # h => what'[g] = what[g]
      /\ RegInv'
  <2>1. CASE UnrefBegin(h)
    <3>1. h \in held
      BY <1>4, <2>1 DEF UnrefBegin, NoRef
    <3>2. RegInv'
      BY <2>1, <3>1, RegInvUnrefBegin DEF IInv
    <3>3. QED
      BY <2>1, <3>2 DEF UnrefBegin, IInv, RegInv, RegType
  <2>2. CASE UnrefNothing(h)
    <3>1. h \notin held
      BY <2>2 DEF UnrefNothing, IInv, RegInv, Resolved, Slots
    <3>2. UNCHANGED regVars => (RegInv => RegInv')
      BY RegInvNext
    <3>3. QED
      BY <2>2, <3>1, <3>2 DEF UnrefNothing, regVars, IInv
  <2>3. QED
    BY <2>1, <2>2
<1>6. \A g : /\ Coming(g)' <=> Coming(g)
             /\ Going(g)' <=> Going(g) /\ g # h
             /\ Stays(g)' <=> Stays(g)
  BY <1>1, <1>2, <1>3, <1>5 DEF Coming, Going, Stays
<1>7. Going(h) /\ \A q \in Curs : cur[q] = "open" => h \notin CursorFields(q)
  BY <1>3 DEF IInv, DriverInv, ColumnsHold, Going
<1>8. TypeOK' /\ CursorKeepsConnection' /\ LifeSound' /\ Overtaken' = Overtaken
  BY <1>1, <1>2 DEF IInv, DriverInv, TypeOK, CursorKeepsConnection, LifeSound, Overtaken
<1>9. DueApart'
  BY <1>1, <1>2, NextCall DEF DueApart
<1>10. TakesFresh' /\ UsersHold' /\ ColumnsHold'
  BY <1>1, <1>5, <1>6, <1>8 DEF IInv, DriverInv, TakesFresh, UsersHold, ColumnsHold
<1>11. NumbersFresh'
  BY <1>1, <1>5, <1>6, <1>7 DEF IInv, DriverInv, NumbersFresh
<1>12. ParentHeld'
  <2>1. \A q \in Curs : ConnOf(q) \in CursorFields(q) /\ ConnOf(q) \in Holders
    BY FieldsApart
  <2>2. QED
    BY <1>1, <1>2, <1>5, <1>7, <2>1 DEF IInv, DriverInv, ParentHeld
<1>13. QED
  BY <1>2, <1>5, <1>8, <1>9, <1>10, <1>11, <1>12 DEF IInv, DriverInv

LEMMA InvCallBegins == ASSUME IInv, CallBegins PROVE IInv'
<1>1. /\ todo # <<>> /\ Quiet /\ todo' = Tail(todo) /\ UNCHANGED sqlVars
      /\ \/ Head(todo).op = "ref" /\ RefBegin(Head(todo).h, Head(todo).v)
         \/ Head(todo).op = "unref" /\ (UnrefBegin(Head(todo).h) \/ UnrefNothing(Head(todo).h))
  BY DEF CallBegins
<1>2. Head(todo) \in Ops
  BY <1>1, NextCall
<1>3. CASE Head(todo).op = "ref"
  BY <1>1, <1>2, <1>3, CallTypes, InvTakeBegins
<1>4. CASE Head(todo).op = "unref"
  BY <1>1, <1>2, <1>4, CallTypes, InvReleaseBegins
<1>5. QED
  BY <1>1, <1>3, <1>4

\* luaL_ref ends: the reference is in force.
LEMMA InvStored == ASSUME IInv, RefStore, UNCHANGED <<sqlVars, todo>> PROVE IInv'
<1> DEFINE h == call.h
<1>1. /\ Taking /\ ~Taking'
      /\ UNCHANGED <<env, conn, cur, parent, result, life, describing, wrap, reachable, phase, todo>>
      /\ held' = held \cup {h} /\ ref' = [ref EXCEPT ![h] = call.slot]
      /\ what' = [what EXCEPT ![h] = call.v]
  BY DEF RefStore, Taking, Idle, sqlVars
<1>2. RegInv'
  BY RegInvRefStore DEF IInv
<1>3. h \in Holders /\ ref \in [Holders -> Slots \cup {NoRef}] /\ what \in [Holders -> Values \cup {Nil}]
  BY <1>1 DEF IInv, RegInv, RegType, Calls, Idle, Taking
<1> HIDE DEF h
<1>4. Due' = Due /\ Takers' = Takers /\ Releasers' = Releasers
  BY <1>1 DEF Due, Takers, Releasers
<1>5. h \notin Takers /\ h \notin Releasers
  BY <1>1, CallParts DEF IInv, DriverInv, DueApart, Takers, Releasers, h
<1>6. \A g : /\ Coming(g)' <=> g \in Takers
             /\ Going(g)' <=> Going(g)
             /\ Stays(g)' <=> Stays(g)
  BY <1>1, <1>4 DEF Coming, Going, Stays, h
<1>7. Coming(h) /\ Stays(h) /\ ~Going(h)
  BY <1>1, <1>5 DEF Coming, Going, Stays, h
<1>8. \A q \in Curs : h \in CursorFields(q) => life[q] # "none"
  <2>1. \A q \in Curs : /\ cur[q] = "open" => life[q] # "none"
                        /\ q \in Overtaken => life[q] # "none"
    BY DEF IInv, DriverInv, LifeSound, Alive, Overtaken
  <2>2. \A q \in Curs : h \in CursorFields(q) => h = ConnOf(q) \/ h \in Columns(q)
    BY FieldsApart DEF Columns
  <2>3. QED
    BY <1>7, <2>1, <2>2 DEF IInv, DriverInv, UsersHold, ColumnsHold
<1>9. \A g \in Holders : g # h => ref'[g] = ref[g] /\ what'[g] = what[g]
  BY <1>1, <1>3
<1>10. TypeOK' /\ CursorKeepsConnection' /\ todo' \in Seq(Ops) /\ DueApart' /\ LifeSound' /\ Overtaken' = Overtaken
  BY <1>1, <1>4 DEF IInv, DriverInv, TypeOK, CursorKeepsConnection, DueApart, LifeSound, Overtaken
<1>11. TakesFresh' /\ UsersHold' /\ ColumnsHold'
  BY <1>1, <1>5, <1>6, <1>10 DEF IInv, DriverInv, TakesFresh, UsersHold, ColumnsHold, Coming
<1>12. NumbersFresh'
  <2>1. \A q \in Curs : CursorFields(q) \subseteq Holders
    BY FieldsApart
  <2>2. h \in held'
    BY <1>1
  <2>3. \A g \in held : g \in held'
    BY <1>1
  <2>4. QED
    BY <1>1, <1>6, <1>8, <1>9, <2>1, <2>2, <2>3 DEF IInv, DriverInv, NumbersFresh
<1>13. ParentHeld'
  <2> SUFFICES ASSUME NEW q \in Curs, cur'[q] = "open"
               PROVE  /\ ConnOf(q) \in held' => what'[ConnOf(q)] = parent'[q]
                      /\ \A v \in Values : Take(ConnOf(q), v) \in Due' => v = parent'[q]
                      /\ Taking' /\ call'.h = ConnOf(q) => call'.v = parent'[q]
    BY DEF ParentHeld
  <2>1. ConnOf(q) \in Holders
    BY FieldsApart
  <2>2. CASE ConnOf(q) = h
    BY <1>1, <1>3, <1>4, <2>2 DEF IInv, DriverInv, ParentHeld, h
  <2>3. CASE ConnOf(q) # h
    BY <1>1, <1>4, <1>9, <2>1, <2>3 DEF IInv, DriverInv, ParentHeld
  <2>4. QED
    BY <2>2, <2>3
<1>14. QED
  BY <1>2, <1>10, <1>11, <1>12, <1>13 DEF IInv, DriverInv

\* The other steps of a call change nothing that its users see.
LEMMA InvCallFrame ==
    ASSUME IInv, RefPop \/ UnrefEnd, UNCHANGED <<sqlVars, todo>>
    PROVE  IInv'
<1>1. RegInv'
  BY RegInvRefPop, RegInvUnrefEnd DEF IInv
<1>2. UNCHANGED <<ref, held, what, env, conn, cur, parent, result, life, describing, wrap, reachable, phase, todo>>
  BY DEF RefPop, UnrefEnd, sqlVars
<1>3. /\ Taking' <=> Taking
      /\ Taking => call'.h = call.h /\ call'.v = call.v
  BY DEF RefPop, UnrefEnd, Taking, Idle
<1>4. Due' = Due /\ Takers' = Takers /\ Releasers' = Releasers
  BY <1>2 DEF Due, Takers, Releasers
<1>5. \A g : /\ Coming(g)' <=> Coming(g)
             /\ Going(g)' <=> Going(g)
             /\ Stays(g)' <=> Stays(g)
  BY <1>2, <1>3, <1>4 DEF Coming, Going, Stays
<1>6. /\ TypeOK' /\ CursorKeepsConnection' /\ todo' \in Seq(Ops) /\ DueApart' /\ ParentHeld'
      /\ LifeSound' /\ Overtaken' = Overtaken
  BY <1>2, <1>3, <1>4
     DEF IInv, DriverInv, TypeOK, CursorKeepsConnection, DueApart, ParentHeld, LifeSound, Overtaken
<1>7. TakesFresh' /\ UsersHold' /\ ColumnsHold' /\ NumbersFresh'
  BY <1>2, <1>5, <1>6 DEF IInv, DriverInv, TakesFresh, UsersHold, ColumnsHold, NumbersFresh
<1>8. QED
  BY <1>1, <1>6, <1>7 DEF IInv, DriverInv

-----------------------------------------------------------------------------
(* Theorems *)

LEMMA InvInit == ASSUME Init PROVE IInv
<1>1. RegInv
  BY RegInvInit DEF Init
<1>2. todo = <<>> /\ todo \in Seq(Ops) /\ Len(todo) = 0 /\ Due = {} /\ ~Taking /\ held = {}
  BY DEF Init, RegInit, Due, Taking, Idle
<1>3. \A h : ~Coming(h) /\ ~Going(h) /\ ~Stays(h)
  BY <1>2 DEF Coming, Going, Stays, Takers, Releasers
<1>4. /\ \A q \in Curs : cur[q] = "closed"
      /\ \A c \in Conns : conn[c] = "closed"
      /\ \A x \in Conns \cup Curs : life[x] = "none"
      /\ describing = Nil /\ Nil \notin Curs
  BY RegistryAssumption, MysqlAssumption DEF Init
<1>5. TypeOK /\ CursorKeepsConnection /\ LifeSound /\ Overtaken = {}
  <2>1. result = {q \in Curs : cur[q] = "open"}
    BY <1>4 DEF Init
  <2>2. /\ conn \in [Conns -> {"open", "closed"}]
        /\ cur \in [Curs -> {"open", "closed", "stale"}]
        /\ parent \in [Curs -> Conns]
        /\ life \in [Conns \cup Curs -> {"none", "due", "late", "separated", "called", "freed"}]
        /\ wrap \in [Wrappers -> {"none", "live", "disposed"}]
    BY DEF Init
  <2>3. /\ env \in BOOLEAN /\ reachable \subseteq Conns \cup Curs
        /\ phase \in {"running", "closing", "swept"} /\ describing \in Curs \cup {Nil}
    BY DEF Init
  <2>4. Len(todo) <= 3
    BY <1>2
  <2>5. QED
    BY <1>4, <2>1, <2>2, <2>3, <2>4 DEF TypeOK, CursorKeepsConnection, LifeSound, Overtaken
<1>6. DueApart /\ TakesFresh
  BY <1>2 DEF DueApart, TakesFresh
<1>7. UsersHold /\ ColumnsHold /\ ParentHeld
  BY <1>3, <1>4, <1>5 DEF Init, UsersHold, ColumnsHold, ParentHeld
<1>8. NumbersFresh
  <2>1. \A q \in Curs : CursorFields(q) \subseteq Holders
    BY FieldsApart
  <2>2. \A h \in Holders : ref[h] = NoRef
    BY DEF Init, RegInit
  <2>3. QED
    BY <2>1, <2>2 DEF NumbersFresh
<1>9. QED
  BY <1>1, <1>2, <1>5, <1>6, <1>7, <1>8 DEF IInv, DriverInv

LEMMA InvStep == IInv /\ [Next]_vars => IInv'
<1> SUFFICES ASSUME IInv, [Next]_vars PROVE IInv'
  OBVIOUS
<1>1. CASE \E c \in Conns : Connect(c) \/ ConnClose(c) \/ CollectConn(c)
  BY <1>1, InvConnect, InvConnClose, InvCollectConn
<1>2. CASE \E c \in Conns, q \in Curs : Execute(c, q)
  BY <1>2, InvExecute
<1>3. CASE \E q \in Curs : \/ ColumnInfo(q) \/ ColumnInfoBegins(q)
                           \/ CursorEnds(q) \/ CollectCursor(q)
  BY <1>3, InvColumnInfo, InvColumnInfoBegins, InvCursorEnds, InvCollectCursor
<1>4. CASE \E w \in Wrappers : \/ \E v \in reachable \cup {Function} : Wrap(w, v)
                               \/ Dispose(w) \/ Finalize(w)
  BY <1>4, InvWrap, InvDispose, InvFinalize
<1>5. CASE \E x \in Conns \cup Curs : Separate(x) \/ Freed(x)
  BY <1>5, InvSeparate, InvFreed
<1>6. CASE \/ EnvClose \/ Sweep
           \/ \E x \in Conns \cup Curs : Drop(x) \/ Regain(x)
           \/ \E w \in Wrappers : Push(w)
           \/ UNCHANGED vars
  BY <1>6, InvQuietSteps
<1>7. CASE ColumnInfoEnds \/ CloseState
  BY <1>7, InvColumnInfoEnds, InvCloseState
<1>8. CASE CallBegins
  BY <1>8, InvCallBegins
<1>9. CASE CallGoesOn
  BY <1>9, InvStored, InvCallFrame DEF CallGoesOn
<1>10. QED
  BY <1>1, <1>2, <1>3, <1>4, <1>5, <1>6, <1>7, <1>8, <1>9 DEF Next

LEMMA InvAlways == Spec => []IInv
<1>1. Init => IInv
  BY InvInit
<1>2. QED
  BY <1>1, InvStep, PTL DEF Spec

\* Every variable has its type; exactly the open cursors have a result that is not
\* freed, and no method makes more than three calls (TypeOK).
THEOREM MysqlTypeCorrect == Spec => []TypeOK
BY InvAlways, PTL DEF IInv, DriverInv

\* An open cursor keeps its connection, although the script has dropped or closed it
\* (CursorKeepsConnection).
THEOREM CursorsKeepConnection == Spec => []CursorKeepsConnection
BY InvAlways, PTL DEF IInv, DriverInv

\* Between two methods the references in force are those of the objects in use: every
\* way a cursor or a connection ends releases what it holds, and nothing more, but for
\* the column tables of a cursor closed while they were being made (ReferencesMatchUse).
THEOREM HeldIsUsed == Spec => []ReferencesMatchUse
<1>1. ASSUME IInv PROVE ReferencesMatchUse
  <2> DEFINE Known == {h \in UNION {{NamesOf(q), TypesOf(q)} : q \in result} : ref[h] # NoRef}
             Stale == UNION {{NamesOf(q), TypesOf(q)} : q \in Overtaken}
  <2> SUFFICES ASSUME Ready
               PROVE  held = {EnvOf(c) : c \in {d \in Conns : conn[d] = "open"}}
                         \cup {ConnOf(q) : q \in result} \cup Known \cup Stale
                         \cup {w \in Wrappers : wrap[w] = "live"}
    BY DEF ReferencesMatchUse
  <2>1. DriverInv /\ result = {q \in Curs : cur[q] = "open"} /\ held \subseteq Holders
    BY <1>1 DEF IInv, DriverInv, TypeOK, RegInv, RegType
  <2>2. \A h \in held : ref[h] # NoRef
    BY <1>1 DEF IInv, RegInv, Resolved, Slots, NoRef
  <2>3. \A q \in result : /\ {NamesOf(q), TypesOf(q)} \subseteq CursorFields(q)
                          /\ \A h \in CursorFields(q) : h \in held \/ ref[h] = NoRef
    BY <2>1, FieldsApart, RestFacts
  <2>4. \A h \in Known : h \in held
    BY <2>3
  <2>5. \A h \in Stale : h \in held
    <3>1. \A q \in Overtaken : q \in Curs /\ cur[q] # "open" /\ Columns(q) = {NamesOf(q), TypesOf(q)}
      BY DEF Overtaken, Columns
    <3>2. QED
      BY <2>1, <3>1, RestFacts
  <2>6. \A h \in held : \/ \E c \in Conns : h = EnvOf(c) /\ conn[c] = "open"
                        \/ \E q \in result : h = ConnOf(q)
                        \/ h \in Known
                        \/ h \in Stale
                        \/ h \in Wrappers /\ wrap[h] = "live"
    <3> TAKE h \in held
    <3>1. \/ h \in Wrappers
          \/ \E c \in Conns : h = EnvOf(c)
          \/ \E q \in Curs : h \in {ConnOf(q), NamesOf(q), TypesOf(q)}
      BY <2>1, MysqlAssumption, FieldsApart
    <3>2. CASE h \in Wrappers
      BY <2>1, <3>2, RestFacts
    <3>3. CASE \E c \in Conns : h = EnvOf(c)
      BY <2>1, <3>3, RestFacts
    <3>4. CASE \E q \in Curs : h \in {ConnOf(q), NamesOf(q), TypesOf(q)}
      <4>1. PICK q \in Curs : h \in {ConnOf(q), NamesOf(q), TypesOf(q)}
        BY <3>4
      <4>2. CASE h = ConnOf(q)
        BY <2>1, <4>2, RestFacts
      <4>3. CASE h \in {NamesOf(q), TypesOf(q)} /\ q \in result
        BY <2>2, <4>3
      <4>4. CASE h \in {NamesOf(q), TypesOf(q)} /\ q \notin result
        <5>1. h \in Columns(q) /\ cur[q] # "open"
          BY <2>1, <4>4 DEF Columns
        <5>2. q \in Overtaken
          BY <2>1, <5>1, RestFacts
        <5>3. QED
          BY <4>4, <5>2
      <4>5. QED
        BY <4>1, <4>2, <4>3, <4>4
    <3>5. QED
      BY <3>1, <3>2, <3>3, <3>4
  <2>7. /\ \A c \in Conns : conn[c] = "open" => EnvOf(c) \in held
        /\ \A q \in result : ConnOf(q) \in held
        /\ \A w \in Wrappers : wrap[w] = "live" => w \in held
    BY <2>1, RestFacts
  <2> HIDE DEF Known, Stale
  <2>8. QED
    BY <2>4, <2>5, <2>6, <2>7
<1>2. QED
  BY <1>1, InvAlways, PTL

\* The driver and .NET use the registry as LuaRegistry asks (RegSpec): a reference is
\* taken by a holder that has none, but for the column tables of cursors, and released
\* once.
THEOREM DriverUsesRegistry == Spec => RegSpec
<1>1. Init => RegInit
  BY DEF Init
<1>2. IInv /\ [Next]_vars => [RegNext]_regVars
  <2> SUFFICES ASSUME IInv, [Next]_vars PROVE [RegNext]_regVars
    OBVIOUS
  <2>1. ASSUME UNCHANGED regVars PROVE [RegNext]_regVars
    BY <2>1
  <2>2. ASSUME NEW w \in Wrappers, Finalize(w) PROVE RegNext
    BY <2>2, MysqlAssumption DEF Finalize, RegNext
  <2>3. ASSUME NEW x \in Conns \cup Curs, Freed(x) PROVE RegNext
    <3>1. Fields(x) \in SUBSET Holders /\ Fields(x) \cap held \subseteq Careless /\ Reset(Fields(x))
      BY <2>3, FreedFields DEF Freed
    <3>2. QED
      BY <3>1 DEF RegNext
  <2>4. ASSUME CallBegins PROVE [RegNext]_regVars
    <3> DEFINE o == Head(todo)
    <3>1. o \in Ops /\ o \in Due /\ todo \in Seq(Ops)
      BY <2>4, NextCall DEF CallBegins, IInv, DriverInv
    <3> HIDE DEF o
    <3>2. CASE o.op = "ref"
      <4>1. o.h \in Holders /\ o.v \in Values /\ o = Take(o.h, o.v) /\ RefBegin(o.h, o.v)
        BY <2>4, <3>1, <3>2, CallTypes DEF CallBegins, o
      <4>2. o.h \in held => o.h \in Careless
        BY <3>1, <4>1 DEF IInv, DriverInv, TakesFresh, Coming, Takers
      <4>3. QED
        BY <4>1, <4>2 DEF RegNext
    <3>3. CASE o.op = "unref"
      <4>1. o.h \in Holders /\ o = Release(o.h) /\ (UnrefBegin(o.h) \/ UnrefNothing(o.h))
        BY <2>4, <3>1, <3>3, CallTypes DEF CallBegins, o
      <4>2. o.h \in held \/ ref[o.h] = NoRef
        BY <3>1, <4>1 DEF IInv, DriverInv, NumbersFresh, Going, Releasers
      <4>3. CASE UnrefBegin(o.h)
        <5>1. o.h \in held
          BY <4>2, <4>3 DEF UnrefBegin, NoRef
        <5>2. QED
          BY <4>1, <4>3, <5>1 DEF RegNext
      <4>4. CASE UnrefNothing(o.h)
        BY <4>4 DEF UnrefNothing
      <4>5. QED
        BY <4>1, <4>3, <4>4
    <3>4. QED
      BY <3>1, <3>2, <3>3, CallTypes
  <2>5. ASSUME CallGoesOn PROVE RegNext
    BY <2>5 DEF CallGoesOn, RegNext
  <2>6. CASE \/ \E c \in Conns : Connect(c) \/ ConnClose(c) \/ CollectConn(c)
             \/ \E c \in Conns, q \in Curs : Execute(c, q)
             \/ \E q \in Curs : \/ ColumnInfo(q) \/ ColumnInfoBegins(q)
                                \/ CursorEnds(q) \/ CollectCursor(q)
             \/ \E w \in Wrappers : \/ \E v \in reachable \cup {Function} : Wrap(w, v)
                                    \/ Dispose(w) \/ Push(w)
             \/ \E x \in Conns \cup Curs : Drop(x) \/ Separate(x) \/ Regain(x)
             \/ EnvClose \/ ColumnInfoEnds \/ CloseState \/ Sweep
             \/ UNCHANGED vars
    BY <2>1, <2>6
       DEF Connect, ConnClose, CollectConn, Execute, ColumnInfo, ColumnInfoBegins, ColumnInfoEnds,
           CursorEnds, CollectCursor, Wrap, Dispose, Push, Drop, Separate, Regain, EnvClose,
           CloseState, Sweep, vars
  <2>7. QED
    BY <2>2, <2>3, <2>4, <2>5, <2>6 DEF Next
<1>3. QED
  BY <1>1, <1>2, InvAlways, PTL DEF Spec, RegSpec

\* What is proved of the registry holds of its users: a reference in force denotes its
\* value, in a slot of its own (SlotsResolve)...
THEOREM DriverReferencesResolve == Spec => []SlotsResolve
BY DriverUsesRegistry, ReferencesResolve

\* ...and no slot is lost but those of values that .NET forgets, and of column tables
\* made for a cursor that was closed meanwhile (EverySlotAccounted).
THEOREM DriverSlotsAccounted == Spec => []EverySlotAccounted
BY DriverUsesRegistry, RegistryAccounted
=============================================================================

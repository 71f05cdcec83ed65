--------------------------- MODULE AddonHostProofs ---------------------------
(***************************************************************************)
(* Proofs about AddonHost, for every value of its constants.               *)
(***************************************************************************)
EXTENDS AddonHost, SequenceTheorems, TLAPS

(* Frames and the call stack *)

\* The two constructors of frames build frames.
LEMMA HostFrameIsFrame ==
    ASSUME NEW kind \in ScriptKinds \cup HostKinds, NEW k \in Keys \cup {NoKey},
           NEW at \in Places, NEW todo \in SUBSET Keys, NEW e \in Events,
           kind \in ScriptKinds \cup {"load", "unload", "reload"} => k \in Keys,
           at \in {"init", "release", "notify", "add", "reinit", "end"} => k \in Keys
    PROVE  HostFrame(kind, k, at, todo, e) \in Frame
BY DEF HostFrame, Frame, WorksOnAddon

LEMMA ScriptFrameIsFrame ==
    ASSUME NEW kind \in ScriptKinds, NEW k \in Keys
    PROVE  ScriptFrame(kind, k) \in Frame
BY HostFrameIsFrame DEF ScriptFrame, Places, Events, ScriptKinds, HostKinds, ManageKinds

\* What the top frame is, what popping leaves and what replacing it leaves.
LEMMA StackFacts ==
    ASSUME NEW S, NEW s \in Seq(S), Len(s) > 0
    PROVE  /\ Len(s) \in 1..Len(s)
           /\ s[Len(s)] \in S
           /\ SubSeq(s, 1, Len(s) - 1) \in Seq(S)
           /\ Len(SubSeq(s, 1, Len(s) - 1)) = Len(s) - 1
           /\ \A i \in 1..Len(s) - 1 : SubSeq(s, 1, Len(s) - 1)[i] = s[i]
           /\ \A f \in S : [s EXCEPT ![Len(s)] = f] \in Seq(S)
<1> DEFINE n == Len(s) - 1
           p == SubSeq(s, 1, n)
<1>1. n \in Nat /\ Len(s) \in 1..Len(s) /\ \A i \in 1..n : s[i] \in S
  OBVIOUS
<1>2. /\ p \in Seq(S)
      /\ Len(p) = IF 1 <= n THEN n - 1 + 1 ELSE 0
      /\ \A i \in 1..n - 1 + 1 : p[i] = s[1 + i - 1]
  <2> HIDE DEF n
  <2>1. QED
    BY <1>1, SubSeqProperties
<1>3. Len(p) = n /\ \A i \in 1..n : p[i] = s[i]
  <2> HIDE DEF n, p
  <2>1. n - 1 + 1 = n /\ \A i \in 1..n : i \in Int /\ 1 + i - 1 = i
    BY <1>1
  <2>2. Len(p) = n
    BY <1>1, <1>2
  <2>3. \A i \in 1..n : p[i] = s[i]
    BY <1>2, <2>1
  <2>4. QED
    BY <2>2, <2>3
<1>4. s[Len(s)] \in S /\ \A f \in S : [s EXCEPT ![Len(s)] = f] \in Seq(S)
  OBVIOUS
<1>5. QED
  BY <1>1, <1>2, <1>3, <1>4

\* What pushing a frame leaves.
LEMMA PushFacts ==
    ASSUME NEW S, NEW s \in Seq(S), NEW f \in S
    PROVE  /\ Append(s, f) \in Seq(S)
           /\ Len(Append(s, f)) = Len(s) + 1
           /\ Append(s, f)[Len(s) + 1] = f
           /\ \A i \in 1..Len(s) : Append(s, f)[i] = s[i]
BY AppendProperties

LEMMA PushFrame ==
    ASSUME NEW s \in Seq(Frame), NEW f \in Frame
    PROVE  /\ Len(Append(s, f)) = Len(s) + 1
           /\ Append(s, f)[Len(s) + 1] = f
           /\ \A i \in 1..Len(s) : Append(s, f)[i] = s[i]
BY PushFacts

\* Looking an event up leaves a call stack.
LEMMA InvokeEventIsStack ==
    ASSUME NEW rest \in Seq(Frame), NEW k \in Keys, NEW e
    PROVE  InvokeEvent(rest, k, e) \in Seq(Frame)
<1>1. ScriptFrame("event", k) \in Frame
  BY ScriptFrameIsFrame DEF ScriptKinds
<1>2. QED
  BY <1>1 DEF InvokeEvent

-----------------------------------------------------------------------------
(* Type correctness *)

\* What the four ways to change the call stack leave behind.
LEMMA PushHost ==
    ASSUME TypeOK, NEW f \in Frame
    PROVE  Append(stack, f) \in Seq(Frame)
BY DEF TypeOK

LEMMA ReplaceTop ==
    ASSUME TypeOK, Depth > 0, NEW f \in Frame
    PROVE  [stack EXCEPT ![Depth] = f] \in Seq(Frame)
BY StackFacts DEF TypeOK, Depth

LEMMA PopTop ==
    ASSUME TypeOK, Depth > 0
    PROVE  Pop \in Seq(Frame) /\ Top \in Frame
BY StackFacts DEF TypeOK, Depth, Pop, Top

\* Positions are natural numbers.
LEMMA ScriptPositions ==
    ASSUME NEW k, NEW n
    PROVE  ScriptsOf(k, n) \subseteq Nat
BY DEF ScriptsOf

\* Release and NewLuaState keep the types of what they change.
LEMMA ReleaseTypes ==
    ASSUME TypeOK, NEW k, NEW s \in States, NEW n, Release(k, s, n)
    PROVE  /\ state' \in [Keys -> States]
           /\ lua' \in [Keys -> BOOLEAN]
           /\ freed' \subseteq Nat
           /\ events' \in [Keys -> SUBSET Events]
           /\ callbacks' \in [Keys -> SUBSET Names]
<1>1. freed' \subseteq Nat
  BY ScriptPositions DEF TypeOK, Release
<1>2. /\ state' \in [Keys -> States]
      /\ lua' \in [Keys -> BOOLEAN]
      /\ events' \in [Keys -> SUBSET Events]
      /\ callbacks' \in [Keys -> SUBSET Names]
  BY DEF TypeOK, Release, States
<1>3. QED
  BY <1>1, <1>2

LEMMA NewLuaStateTypes ==
    ASSUME TypeOK, NEW k, NewLuaState(k)
    PROVE  /\ state' \in [Keys -> States]
           /\ lua' \in [Keys -> BOOLEAN]
           /\ freed' \subseteq Nat
           /\ events' \in [Keys -> SUBSET Events]
           /\ callbacks' \in [Keys -> SUBSET Names]
<1>1. freed' \subseteq Nat
  BY ScriptPositions DEF TypeOK, NewLuaState
<1>2. /\ state' \in [Keys -> States]
      /\ lua' \in [Keys -> BOOLEAN]
      /\ events' \in [Keys -> SUBSET Events]
      /\ callbacks' \in [Keys -> SUBSET Names]
  BY DEF TypeOK, NewLuaState, States
<1>3. QED
  BY <1>1, <1>2

LEMMA HookTypes ==
    ASSUME TypeOK, HookStep \/ TickBegin
    PROVE  TypeOK'
<1> USE DEF TopIs
<1>1. ASSUME NEW kind \in {"hook", "tick"}, NEW h \in Events, Dispatch(kind, h)
      PROVE  TypeOK'
  <2>1. HostFrame(kind, NoKey, "visit", loaded, h) \in Frame
    BY HostFrameIsFrame DEF TypeOK, HostKinds, ManageKinds, Places, ScriptKinds
  <2>2. QED
    BY <1>1, <2>1, PushHost DEF Dispatch, TypeOK, addonVars
<1>2. ASSUME NEW k \in Keys, Visit(k)
      PROVE  TypeOK'
  <2> DEFINE rest == [stack EXCEPT ![Depth].todo = @ \ {k}]
  <2>1. Depth > 0 /\ [Top EXCEPT !.todo = @ \ {k}] \in Frame
    BY <1>2, PopTop DEF Visit, Frame, WorksOnAddon
  <2>2. rest \in Seq(Frame)
    BY <2>1, ReplaceTop DEF Top
  <2>3. InvokeEvent(rest, k, Top.hook) \in Seq(Frame)
    BY <2>2, InvokeEventIsStack
  <2>4. QED
    BY <1>2, <2>2, <2>3 DEF Visit, TypeOK, addonVars
<1>3. CASE HookEnd
  BY <1>3, PopTop DEF HookEnd, TypeOK, addonVars
<1>4. QED
  BY <1>1, <1>2, <1>3 DEF HookStep, HookBegin, TickBegin, Events

\* Moving the top frame to another place, on another addon.
LEMMA MoveTop ==
    ASSUME TypeOK, Depth > 0, NEW at \in Places, NEW k \in Keys \cup {NoKey},
           NEW todo \in SUBSET Keys,
           \/ k \in Keys
           \/ /\ at \notin {"init", "release", "notify", "add", "reinit", "end"}
              /\ Top.kind \notin ScriptKinds \cup {"load", "unload", "reload"}
    PROVE  /\ [Top EXCEPT !.at = at, !.key = k, !.todo = todo] \in Frame
           /\ [stack EXCEPT ![Depth].at = at, ![Depth].key = k, ![Depth].todo = todo]
                 \in Seq(Frame)
<1>1. Top \in Frame
  BY PopTop
<1>2. [Top EXCEPT !.at = at, !.key = k, !.todo = todo] \in Frame
  BY <1>1 DEF Frame, WorksOnAddon
<1>3. [stack EXCEPT ![Depth].at = at, ![Depth].key = k, ![Depth].todo = todo]
         = [stack EXCEPT ![Depth] = [Top EXCEPT !.at = at, !.key = k, !.todo = todo]]
  BY DEF TypeOK, Top, Depth
<1>4. QED
  BY <1>2, <1>3, ReplaceTop

LEMMA TickTypes ==
    ASSUME TypeOK, TickStep
    PROVE  TypeOK'
<1> USE DEF TopIs
<1>1. CASE TickScan
  <2>1. Depth > 0 /\ Top.kind = "tick" /\ Top \in Frame
    BY <1>1, PopTop DEF TickScan
  <2>2. [Top EXCEPT !.at = "reload", !.todo = loaded] \in Frame
    BY <2>1 DEF Frame, WorksOnAddon, Places, TypeOK, ScriptKinds
  <2>3. [stack EXCEPT ![Depth].at = "reload", ![Depth].todo = loaded]
           = [stack EXCEPT ![Depth] = [Top EXCEPT !.at = "reload", !.todo = loaded]]
    BY DEF TypeOK, Top, Depth
  <2>4. stack' \in Seq(Frame)
    BY <1>1, <2>1, <2>2, <2>3, PopTop, ReplaceTop DEF TickScan
  <2>5. QED
    BY <1>1, <2>4 DEF TickScan, TypeOK, addonVars
<1>2. ASSUME NEW k \in Keys, TickReload(k)
      PROVE  TypeOK'
  <2>1. Depth > 0 /\ Top \in Frame
    BY <1>2, PopTop DEF TickReload
  <2>2. [stack EXCEPT ![Depth].at = "init", ![Depth].key = k, ![Depth].todo = @ \ {k}]
           \in Seq(Frame)
    <3>1. [stack EXCEPT ![Depth].at = "init", ![Depth].key = k, ![Depth].todo = @ \ {k}]
             = [stack EXCEPT ![Depth].at = "init", ![Depth].key = k,
                             ![Depth].todo = Top.todo \ {k}]
      BY <2>1 DEF TypeOK, Top, Depth
    <3>2. Top.todo \ {k} \in SUBSET Keys
      BY <2>1 DEF Frame
    <3>3. QED
      BY <2>1, <3>1, <3>2, MoveTop DEF Places
  <2>3. stack' \in Seq(Frame)
    BY <1>2, <2>2, ScriptFrameIsFrame DEF TickReload, ScriptKinds
  <2>4. QED
    BY <1>2, <2>3, NewLuaStateTypes DEF TickReload, TypeOK
<1>3. ASSUME NEW k \in Keys, TickSkip(k)
      PROVE  TypeOK'
  <2>1. Depth > 0 /\ [Top EXCEPT !.todo = @ \ {k}] \in Frame
    BY <1>3, PopTop DEF TickSkip, Frame, WorksOnAddon
  <2>2. QED
    BY <1>3, <2>1, ReplaceTop DEF TickSkip, TypeOK, addonVars, Top
<1>4. CASE TickOnLoad
  <2>1. Depth > 0 /\ Top \in Frame /\ Top.key \in Keys /\ Top.kind = "tick"
    BY <1>4, PopTop DEF TickOnLoad, Frame, WorksOnAddon
  <2>2. [Top EXCEPT !.at = "reload", !.key = NoKey] \in Frame
    BY <2>1 DEF Frame, WorksOnAddon, Places, ScriptKinds
  <2>3. [stack EXCEPT ![Depth].at = "reload", ![Depth].key = NoKey]
           = [stack EXCEPT ![Depth] = [Top EXCEPT !.at = "reload", !.key = NoKey]]
    BY DEF TypeOK, Top, Depth
  <2>4. stack' \in Seq(Frame)
    BY <1>4, <2>1, <2>2, <2>3, ReplaceTop, InvokeEventIsStack DEF TickOnLoad
  <2>5. QED
    BY <1>4, <2>4 DEF TickOnLoad, TypeOK, addonVars
<1>5. CASE TickEnd
  BY <1>5, PopTop DEF TickEnd, TypeOK, addonVars
<1>6. QED
  BY <1>1, <1>2, <1>3, <1>4, <1>5 DEF TickStep

\* The places of a load, an unload and a reload.
LEMMA GoToIsStack ==
    ASSUME TypeOK, Depth > 0, NEW at \in Places,
           at \in {"init", "release", "notify", "add", "reinit", "end"} => Top.key \in Keys
    PROVE  GoTo(at) \in Seq(Frame)
<1>1. [Top EXCEPT !.at = at] \in Frame
  BY PopTop DEF Frame, WorksOnAddon
<1>2. QED
  BY <1>1, ReplaceTop DEF GoTo, Top

LEMMA LoadTypes ==
    ASSUME TypeOK, LoadStep
    PROVE  TypeOK'
<1> USE DEF TopIs
<1>1. ASSUME NEW k \in Keys, LoadBegin(k)
      PROVE  TypeOK'
  <2>1. HostFrame("load", k, "init", {}, "load") \in Frame /\ ScriptFrame("main", k) \in Frame
    BY HostFrameIsFrame, ScriptFrameIsFrame
       DEF ScriptKinds, HostKinds, ManageKinds, Places, Events
  <2>2. stack' \in Seq(Frame)
    BY <1>1, <2>1 DEF LoadBegin, TypeOK
  <2>3. QED
    BY <1>1, <2>2, NewLuaStateTypes DEF LoadBegin, TypeOK
<1>2. CASE LoadInitialized
  <2>1. Depth > 0 /\ Top \in Frame /\ Top.key \in Keys
    BY <1>2, PopTop DEF LoadInitialized, Frame, WorksOnAddon
  <2>2. stack' \in Seq(Frame)
    BY <1>2, <2>1, GoToIsStack, PopTop, InvokeEventIsStack DEF LoadInitialized, Places
  <2>3. QED
    BY <1>2, <2>2 DEF LoadInitialized, TypeOK, addonVars
<1>3. CASE LoadAdd
  <2>1. Depth > 0 /\ Top \in Frame /\ Top.key \in Keys
    BY <1>3, PopTop DEF LoadAdd, Frame, WorksOnAddon
  <2>2. QED
    BY <1>3, <2>1, PopTop DEF LoadAdd, TypeOK, addonVars
<1>4. QED
  BY <1>1, <1>2, <1>3 DEF LoadStep

\* An enumeration of addons that begins, visits one addon, or goes on after it:
\* /addon unloadall and Dispose.
LEMMA EnumerationIsStack ==
    ASSUME TypeOK, NEW kind \in {"unloadall", "dispose"}
    PROVE  /\ Append(stack, HostFrame(kind, NoKey, "visit", loaded, "load")) \in Seq(Frame)
           /\ TopIs({kind}, "visit") =>
                 \A k \in Keys :
                    /\ [stack EXCEPT ![Depth].todo = @ \ {k}] \in Seq(Frame)
                    /\ [stack EXCEPT ![Depth].at = "release", ![Depth].key = k,
                                     ![Depth].todo = @ \ {k}] \in Seq(Frame)
           /\ TopIs({kind}, "release") \/ TopIs({kind}, "notify") =>
                 [stack EXCEPT ![Depth].at = "visit", ![Depth].key = NoKey] \in Seq(Frame)
<1> USE DEF TopIs
<1>1. Append(stack, HostFrame(kind, NoKey, "visit", loaded, "load")) \in Seq(Frame)
  <2>1. HostFrame(kind, NoKey, "visit", loaded, "load") \in Frame
    BY HostFrameIsFrame DEF TypeOK, HostKinds, ManageKinds, ScriptKinds, Places, Events
  <2>2. QED
    BY <2>1, PushHost
<1>2. ASSUME TopIs({kind}, "visit"), NEW k \in Keys
      PROVE  /\ [stack EXCEPT ![Depth].todo = @ \ {k}] \in Seq(Frame)
             /\ [stack EXCEPT ![Depth].at = "release", ![Depth].key = k,
                              ![Depth].todo = @ \ {k}] \in Seq(Frame)
  <2>1. Depth > 0 /\ Top \in Frame
    BY <1>2, PopTop
  <2>2. [Top EXCEPT !.todo = @ \ {k}] \in Frame
    BY <2>1 DEF Frame, WorksOnAddon
  <2>3. Top.todo \ {k} \in SUBSET Keys
    BY <2>1 DEF Frame
  <2>4. [stack EXCEPT ![Depth].at = "release", ![Depth].key = k, ![Depth].todo = @ \ {k}]
           = [stack EXCEPT ![Depth].at = "release", ![Depth].key = k,
                           ![Depth].todo = Top.todo \ {k}]
    BY <2>1 DEF TypeOK, Top, Depth
  <2>5. QED
    BY <2>1, <2>2, <2>3, <2>4, ReplaceTop, MoveTop DEF Places, Top
<1>3. ASSUME TopIs({kind}, "release") \/ TopIs({kind}, "notify")
      PROVE  [stack EXCEPT ![Depth].at = "visit", ![Depth].key = NoKey] \in Seq(Frame)
  <2>1. Depth > 0 /\ Top \in Frame
    BY <1>3, PopTop
  <2>2. [Top EXCEPT !.at = "visit", !.key = NoKey] \in Frame
    BY <1>3, <2>1 DEF Frame, WorksOnAddon, Places, ScriptKinds
  <2>3. [stack EXCEPT ![Depth].at = "visit", ![Depth].key = NoKey]
           = [stack EXCEPT ![Depth] = [Top EXCEPT !.at = "visit", !.key = NoKey]]
    BY DEF TypeOK, Top, Depth
  <2>4. QED
    BY <2>1, <2>2, <2>3, ReplaceTop
<1>4. QED
  BY <1>1, <1>2, <1>3

\* Either outcome of RemoveAddonCommands keeps the registries typed.
LEMMA RemoveTypes ==
    ASSUME TypeOK, NEW k \in Keys, RemoveAddonCommands(k) \/ RemoveAddonCommandsThrows(k)
    PROVE  chat' \subseteq ChatCommand /\ owned' \in [Keys -> SUBSET Commands]
BY DEF TypeOK, RemoveAddonCommands, RemoveAddonCommandsThrows

LEMMA UnloadTypes ==
    ASSUME TypeOK, UnloadStep
    PROVE  TypeOK'
<1> USE DEF TopIs
<1>1. ASSUME NEW k \in Keys, UnloadBegin(k)
      PROVE  TypeOK'
  <2>1. HostFrame("unload", k, "release", {}, "load") \in Frame
    BY HostFrameIsFrame DEF ScriptKinds, HostKinds, ManageKinds, Places, Events
  <2>2. stack' \in Seq(Frame)
    BY <1>1, <2>1, PushHost, InvokeEventIsStack DEF UnloadBegin
  <2>3. QED
    BY <1>1, <2>2 DEF UnloadBegin, TypeOK, addonVars
<1>2. ASSUME NEW k \in Keys, UnloadAllVisit(k)
      PROVE  TypeOK'
  <2>1. stack' \in Seq(Frame)
    BY <1>2, EnumerationIsStack, InvokeEventIsStack DEF UnloadAllVisit
  <2>2. QED
    BY <1>2, <2>1 DEF UnloadAllVisit, TypeOK, addonVars
<1>3. CASE UnloadAllBegin
  BY <1>3, EnumerationIsStack DEF UnloadAllBegin, TypeOK, addonVars
<1>4. CASE UnloadRelease
  <2>1. Depth > 0 /\ Top \in Frame /\ Top.key \in Keys
    BY <1>4, PopTop DEF UnloadRelease, Frame, WorksOnAddon
  <2>2. stack' \in Seq(Frame)
    BY <1>4, <2>1, GoToIsStack DEF UnloadRelease, Places
  <2>3. QED
    BY <1>4, <2>1, <2>2, ReleaseTypes DEF UnloadRelease, TypeOK, States
<1>5. CASE UnloadAllEnd
  BY <1>5, PopTop DEF UnloadAllEnd, TypeOK, addonVars
<1>6. CASE NotifyThrows
  BY <1>6, PopTop DEF NotifyThrows, TypeOK, addonVars
<1>7. CASE UnloadNotified
  <2>1. Depth > 0 /\ Top \in Frame /\ Top.key \in Keys
    BY <1>7, PopTop DEF UnloadNotified, Frame, WorksOnAddon
  <2>2. stack' \in Seq(Frame)
    BY <1>7, <2>1, PopTop, EnumerationIsStack DEF UnloadNotified
  <2>3. QED
    BY <1>7, <2>1, <2>2, RemoveTypes DEF UnloadNotified, TypeOK, addonVars
<1>8. QED
  BY <1>1, <1>2, <1>3, <1>4, <1>5, <1>6, <1>7 DEF UnloadStep

LEMMA ReloadTypes ==
    ASSUME TypeOK, ReloadStep
    PROVE  TypeOK'
<1> USE DEF TopIs
<1>1. ASSUME NEW k \in Keys, ReloadBegin(k)
      PROVE  TypeOK'
  <2>1. HostFrame("reload", k, "reinit", {}, "load") \in Frame
    BY HostFrameIsFrame DEF ScriptKinds, HostKinds, ManageKinds, Places, Events
  <2>2. stack' \in Seq(Frame)
    BY <1>1, <2>1, PushHost, InvokeEventIsStack DEF ReloadBegin
  <2>3. QED
    BY <1>1, <2>2 DEF ReloadBegin, TypeOK, addonVars
<1>2. ASSUME Depth > 0, Top.kind = "reload"
      PROVE  Top.key \in Keys
  BY <1>2, PopTop DEF Frame, WorksOnAddon
<1>3. CASE ReloadReinit
  <2>1. stack' \in Seq(Frame)
    BY <1>2, <1>3, GoToIsStack, ScriptFrameIsFrame DEF ReloadReinit, Places, ScriptKinds
  <2>2. QED
    BY <1>2, <1>3, <2>1, NewLuaStateTypes, RemoveTypes DEF ReloadReinit, TypeOK
<1>4. CASE ReloadThrows
  BY <1>2, <1>4, PopTop, RemoveTypes DEF ReloadThrows, TypeOK, addonVars
<1>5. CASE ReloadOnLoad
  <2>1. stack' \in Seq(Frame)
    BY <1>2, <1>5, GoToIsStack, InvokeEventIsStack DEF ReloadOnLoad, Places
  <2>2. QED
    BY <1>5, <2>1 DEF ReloadOnLoad, TypeOK, addonVars
<1>6. CASE ReloadEnd
  BY <1>6, PopTop DEF ReloadEnd, TypeOK, addonVars
<1>7. QED
  BY <1>1, <1>3, <1>4, <1>5, <1>6 DEF ReloadStep

LEMMA DisposeTypes ==
    ASSUME TypeOK, DisposeStep
    PROVE  TypeOK'
<1> USE DEF TopIs
<1>1. CASE DisposeBegin
  BY <1>1, EnumerationIsStack DEF DisposeBegin, TypeOK, addonVars
<1>2. ASSUME NEW k \in Keys, DisposeVisit(k)
      PROVE  TypeOK'
  <2>1. stack' \in Seq(Frame)
    BY <1>2, EnumerationIsStack, InvokeEventIsStack DEF DisposeVisit
  <2>2. QED
    BY <1>2, <2>1 DEF DisposeVisit, TypeOK, addonVars
<1>3. CASE DisposeRelease
  <2>1. stack' \in Seq(Frame)
    BY <1>3, EnumerationIsStack DEF DisposeRelease
  <2>2. QED
    BY <1>3, <2>1, ReleaseTypes DEF DisposeRelease, TypeOK, States
<1>4. CASE DisposeEnd
  BY <1>4, PopTop DEF DisposeEnd, TypeOK, addonVars
<1>5. QED
  BY <1>1, <1>2, <1>3, <1>4 DEF DisposeStep

\* A command in lower case is a command.
LEMMA LowerIsCommand == \A n \in Names : Lower[n] \in Commands
BY LowerAssumption DEF Commands

LEMMA ScriptTypes ==
    ASSUME TypeOK, ScriptStep \/ CallbackStep
    PROVE  TypeOK'
<1>1. ASSUME ScriptOnTop
      PROVE  Depth > 0 /\ Top \in Frame /\ Top.key \in Keys
  BY <1>1, PopTop DEF ScriptOnTop, Frame, WorksOnAddon
<1>2. ASSUME NEW e \in Events, RegisterEvent(e)
      PROVE  TypeOK'
  BY <1>2 DEF RegisterEvent, TypeOK
<1>3. ASSUME NEW n \in Names, RegisterCommand(n)
      PROVE  TypeOK'
  <2>1. chat' \subseteq ChatCommand
    BY <1>3, LowerIsCommand DEF RegisterCommand, TypeOK, Erase, Callback, ChatCommand
  <2>2. QED
    BY <1>3, <2>1, LowerIsCommand DEF RegisterCommand, TypeOK
<1>4. ASSUME NEW ret \in Returns, ScriptReturn(ret)
      PROVE  TypeOK'
  <2> DEFINE below == Depth - 1
  <2>1. Depth > 0 /\ Pop \in Seq(Frame) /\ Len(Pop) = below
    <3>1. Depth > 0 /\ Pop \in Seq(Frame)
      BY <1>4, PopTop DEF ScriptReturn, ScriptOnTop
    <3>2. QED
      <4>1. stack \in Seq(Frame) /\ Len(stack) \in Nat /\ Len(stack) > 0
        BY <3>1 DEF TypeOK, Depth
      <4>2. Len(SubSeq(stack, 1, Len(stack) - 1)) = Len(stack) - 1
        BY <4>1, StackFacts
      <4>3. QED
        BY <3>1, <4>2 DEF Pop, Depth
  <2>2. below > 0 => SubSeq(stack, 1, below - 1) \in Seq(Frame)
    BY <2>1 DEF TypeOK, Depth
  <2>3. stack' \in Seq(Frame)
    BY <1>4, <2>1, <2>2 DEF ScriptReturn
  <2>4. state' \in [Keys -> States]
    BY <1>4 DEF ScriptReturn, TypeOK, States
  <2>5. QED
    BY <1>4, <2>3, <2>4 DEF ScriptReturn, TypeOK
<1>5. CASE ScriptFails
  <2>1. Pop \in Seq(Frame)
    BY <1>1, <1>5, PopTop DEF ScriptFails
  <2>2. CASE Top.kind = "main"
    BY <1>5, <2>1, <2>2, ReleaseTypes DEF ScriptFails, TypeOK, States
  <2>3. CASE Top.kind # "main"
    BY <1>5, <2>1, <2>3 DEF ScriptFails, TypeOK, States
  <2>4. QED
    BY <2>2, <2>3
<1>6. ASSUME NEW c \in Commands, NEW k \in Keys, CallbackInvoke(c, k)
      PROVE  TypeOK'
  BY <1>6, ScriptFrameIsFrame, PushHost DEF CallbackInvoke, TypeOK, addonVars, ScriptKinds
<1>7. ASSUME NEW c \in Commands, NEW k \in Keys, CallbackDrop(c, k)
      PROVE  TypeOK'
  BY <1>7 DEF CallbackDrop, TypeOK, addonVars, Erase
<1>8. QED
  BY <1>2, <1>3, <1>4, <1>5, <1>6, <1>7 DEF ScriptStep, CallbackStep, RegisterRefused

LEMMA FreeTypes ==
    ASSUME TypeOK, FreeStep
    PROVE  TypeOK'
<1>1. ASSUME NEW c \in Configs, ReloadConfig(c)
      PROVE  TypeOK'
  BY <1>1 DEF ReloadConfig, TypeOK, addonVars
<1>2. ASSUME NEW p \in Plugins, NEW c \in Commands, PluginAddsCommand(p, c)
      PROVE  TypeOK'
  <2>1. chat' \subseteq ChatCommand
    BY <1>2 DEF PluginAddsCommand, TypeOK, ChatCommand
  <2>2. QED
    BY <1>2, <2>1 DEF PluginAddsCommand, TypeOK, addonVars
<1>3. QED
  BY <1>1, <1>2 DEF FreeStep

\* The state of the host has its type in every reachable state: in particular
\* a frame that works on an addon names one, through every nesting of hooks.
THEOREM TypeCorrect == Spec => []TypeOK
<1>1. Init => TypeOK
  BY DEF Init, TypeOK, States, Configs, ChatCommand
<1>2. TypeOK /\ [Next]_vars => TypeOK'
  <2>1. ASSUME TypeOK, UNCHANGED vars
        PROVE  TypeOK'
    BY <2>1 DEF TypeOK, vars
  <2>2. QED
    BY <2>1, HookTypes, TickTypes, LoadTypes, UnloadTypes, ReloadTypes, DisposeTypes,
       ScriptTypes, FreeTypes DEF Next
<1>3. QED
  BY <1>1, <1>2, PTL DEF Spec

-----------------------------------------------------------------------------
(* The command registry *)

\* What a step does to the dictionary, the registry and the chat commands.
Keeps == UNCHANGED <<loaded, owned>>
KeepsChat == \/ UNCHANGED chat
             \/ LatePlugins
             \/ \E k \in Keys : RemoveAddonCommandsThrows(k)
Withdraws(k) == /\ UnloadNotified \/ ReloadReinit
                /\ k = Top.key
                /\ UNCHANGED loaded /\ RemoveAddonCommands(k)
Evicts(c, k) == /\ k \notin loaded /\ c \in owned[k]
                /\ owned' = [owned EXCEPT ![k] = @ \ {c}]
                /\ chat' = Erase(c)
                /\ UNCHANGED <<loaded, state, lua>>
Claims(c, k) == /\ Unowned(c) /\ lua[k]
                /\ owned' = [owned EXCEPT ![k] = @ \cup {c}]
                /\ chat' = Erase(c) \cup {Callback(c)}
                /\ UNCHANGED <<loaded, state, lua>>
Joins(k) == loaded' = loaded \cup {k} /\ UNCHANGED <<state, lua, owned, chat>>
Leaves(k) == loaded' = loaded \ {k} /\ UNCHANGED <<state, lua, owned, chat>>
Closes == loaded' = {} /\ owned' = [k \in Keys |-> {}] /\ UNCHANGED chat

\* The frames that name an addon: script frames and the frames of its handlers.
LEMMA TopWorksOnAddon ==
    ASSUME TypeOK, Depth > 0, WorksOnAddon(Top)
    PROVE  Top.key \in Keys
BY PopTop DEF Frame

\* Every step of the host is one of these.
LEMMA RegistryChanges ==
    ASSUME TypeOK, [Next]_vars
    PROVE  \/ Keeps /\ KeepsChat
           \/ \E k \in Keys : Withdraws(k) \/ Joins(k) \/ Leaves(k)
           \/ \E k \in Keys, c \in Commands : Evicts(c, k) \/ Claims(c, k)
           \/ Closes
<1> USE DEF TopIs
<1>1. CASE HookStep \/ TickBegin \/ TickStep \/ UNCHANGED vars
  BY <1>1 DEF Keeps, KeepsChat, HookStep, TickStep, HookBegin, TickBegin, Dispatch, Visit, HookEnd,
     TickScan, TickReload, TickSkip, TickOnLoad, TickEnd, vars
<1>2. CASE LoadStep
  <2>1. CASE LoadAdd
    BY <1>2, <2>1, TopWorksOnAddon DEF LoadAdd, Joins, WorksOnAddon, addonVars
  <2>2. CASE (\E k \in Keys : LoadBegin(k)) \/ LoadInitialized
    BY <2>2 DEF LoadBegin, LoadInitialized, Keeps, KeepsChat
  <2>3. QED
    BY <1>2, <2>1, <2>2 DEF LoadStep
<1>3. CASE UnloadStep
  <2>1. CASE UnloadNotified
    <3>1. Top.key \in Keys
      BY <2>1, TopWorksOnAddon DEF UnloadNotified, WorksOnAddon
    <3>2. QED
      BY <2>1, <3>1 DEF UnloadNotified, Withdraws, Keeps, KeepsChat, RemoveAddonCommandsThrows
  <2>2. ASSUME NEW k \in Keys, UnloadBegin(k) \/ UnloadAllVisit(k)
        PROVE  Leaves(k)
    BY <2>2 DEF UnloadBegin, UnloadAllVisit, Leaves, addonVars
  <2>3. CASE UnloadAllBegin \/ UnloadAllEnd \/ UnloadRelease \/ NotifyThrows
    BY <2>3 DEF UnloadAllBegin, UnloadAllEnd, UnloadRelease, NotifyThrows, Keeps, KeepsChat
  <2>4. QED
    BY <1>3, <2>1, <2>2, <2>3 DEF UnloadStep
<1>4. CASE ReloadStep
  <2>1. CASE ReloadReinit \/ ReloadThrows
    <3>1. Top.key \in Keys
      BY <2>1, TopWorksOnAddon DEF ReloadReinit, ReloadThrows, WorksOnAddon
    <3>2. QED
      BY <2>1, <3>1 DEF ReloadReinit, ReloadThrows, Withdraws, Keeps, KeepsChat,
         RemoveAddonCommandsThrows
  <2>2. CASE (\E k \in Keys : ReloadBegin(k)) \/ ReloadOnLoad \/ ReloadEnd
    BY <2>2 DEF ReloadBegin, ReloadOnLoad, ReloadEnd, Keeps, KeepsChat
  <2>3. QED
    BY <1>4, <2>1, <2>2 DEF ReloadStep
<1>5. CASE DisposeStep
  BY <1>5 DEF DisposeStep, DisposeBegin, DisposeVisit, DisposeRelease, DisposeEnd, Keeps,
     KeepsChat, Closes
<1>6. CASE CallbackStep
  BY <1>6 DEF CallbackStep, CallbackInvoke, CallbackDrop, Keeps, KeepsChat, Evicts,
     addonVars
<1>7. CASE ScriptStep
  <2>1. ASSUME NEW n \in Names, RegisterCommand(n)
        PROVE  Claims(Lower[n], Top.key) /\ Top.key \in Keys /\ Lower[n] \in Commands
    BY <2>1, TopWorksOnAddon, LowerIsCommand
       DEF RegisterCommand, Claims, Running, ScriptOnTop, WorksOnAddon
  <2>2. CASE \/ \E e \in Events : RegisterEvent(e)
             \/ \E ret \in Returns : ScriptReturn(ret)
             \/ ScriptFails
    BY <2>2 DEF RegisterEvent, ScriptReturn, ScriptFails, Keeps, KeepsChat
  <2>3. QED
    BY <1>7, <2>1, <2>2 DEF ScriptStep, RegisterRefused
<1>8. CASE FreeStep
  BY <1>8 DEF FreeStep, ReloadConfig, PluginAddsCommand, Keeps, KeepsChat
<1>9. QED
  BY <1>1, <1>2, <1>3, <1>4, <1>5, <1>6, <1>7, <1>8 DEF Next

LEMMA OwnedOnceStep ==
    ASSUME TypeOK, CommandOwnedOnce, [Next]_vars
    PROVE  CommandOwnedOnce'
<1> USE DEF TypeOK, CommandOwnedOnce
<1>1. CASE Keeps \/ \E k \in Keys : Joins(k) \/ Leaves(k)
  BY <1>1 DEF Keeps, Joins, Leaves
<1>2. ASSUME NEW k \in Keys, Withdraws(k)
      PROVE  CommandOwnedOnce'
  BY <1>2 DEF Withdraws, RemoveAddonCommands
<1>3. ASSUME NEW k \in Keys, NEW c \in Commands, Evicts(c, k)
      PROVE  CommandOwnedOnce'
  BY <1>3 DEF Evicts
<1>4. ASSUME NEW k \in Keys, NEW c \in Commands, Claims(c, k)
      PROVE  CommandOwnedOnce'
  BY <1>4 DEF Claims, Unowned
<1>5. CASE Closes
  BY <1>5 DEF Closes
<1>6. QED
  BY <1>1, <1>2, <1>3, <1>4, <1>5, RegistryChanges

\* No command is ever owned by two addons, whatever loads, failed loads, reloads
\* and nested registrations lead there.
THEOREM OwnedOnce == Spec => []CommandOwnedOnce
<1>1. Init => CommandOwnedOnce
  BY DEF Init, CommandOwnedOnce
<1>2. QED
  BY <1>1, OwnedOnceStep, TypeCorrect, PTL DEF Spec

\* With no late registrations by other plugins, what an addon owns is in the
\* chat commands exactly once, as the host's callback.
THEOREM OwnedRegistered ==
    ASSUME ~LatePlugins
    PROVE  Spec => []OwnedIsRegistered
<1>1. Init => OwnedIsRegistered
  BY DEF Init, OwnedIsRegistered
<1>2. TypeOK /\ CommandOwnedOnce /\ OwnedIsRegistered /\ [Next]_vars => OwnedIsRegistered'
  <2> SUFFICES ASSUME TypeOK, CommandOwnedOnce, OwnedIsRegistered, [Next]_vars,
                      NEW j \in Keys, NEW d \in owned'[j]
               PROVE  {x \in chat' : x.alias = d} = {Callback(d)}
    BY DEF OwnedIsRegistered
  <2> USE DEF TypeOK, OwnedIsRegistered
  <2>1. ASSUME NEW k \in Keys
        PROVE  ~RemoveAddonCommandsThrows(k)
    BY DEF RemoveAddonCommandsThrows, Ambiguous
  <2>2. CASE (Keeps /\ KeepsChat) \/ \E k \in Keys : Joins(k) \/ Leaves(k)
    BY <2>1, <2>2 DEF Keeps, KeepsChat, Joins, Leaves
  <2>3. ASSUME NEW k \in Keys, Withdraws(k)
        PROVE  {x \in chat' : x.alias = d} = {Callback(d)}
    <3>1. j # k /\ d \in owned[j]
      BY <2>3 DEF Withdraws, RemoveAddonCommands
    <3>2. d \notin owned[k]
      BY <3>1 DEF CommandOwnedOnce
    <3>3. QED
      BY <2>3, <3>1, <3>2 DEF Withdraws, RemoveAddonCommands
  <2>4. ASSUME NEW k \in Keys, NEW c \in Commands, Evicts(c, k)
        PROVE  {x \in chat' : x.alias = d} = {Callback(d)}
    <3>1. d \in owned[j] /\ d # c
      BY <2>4 DEF Evicts, CommandOwnedOnce
    <3>2. QED
      BY <2>4, <3>1 DEF Evicts, Erase
  <2>5. ASSUME NEW k \in Keys, NEW c \in Commands, Claims(c, k)
        PROVE  {x \in chat' : x.alias = d} = {Callback(d)}
    <3>1. CASE d = c
      BY <2>5, <3>1 DEF Claims, Erase, Callback
    <3>2. CASE d # c
      <4>1. d \in owned[j]
        BY <2>5, <3>2 DEF Claims
      <4>2. QED
        BY <2>5, <3>2, <4>1 DEF Claims, Erase, Callback
    <3>3. QED
      BY <3>1, <3>2
  <2>6. CASE Closes
    BY <2>6 DEF Closes
  <2>7. QED
    BY <2>2, <2>3, <2>4, <2>5, <2>6, RegistryChanges
<1>3. QED
  BY <1>1, <1>2, TypeCorrect, OwnedOnce, PTL DEF Spec

-----------------------------------------------------------------------------
(* The host implements CommandRegistry *)

\* The refinement mapping finds the owner of a command.
LEMMA OwnerFacts ==
    ASSUME NEW own, NEW c,
           \A j, k \in Keys : j # k => own[j] \cap own[k] = {}
    PROVE  /\ \A k \in Keys : c \in own[k] => OwnerIn(own, c) = k
           /\ (\A k \in Keys : c \notin own[k]) => OwnerIn(own, c) = NoKey
           /\ OwnerIn(own, c) = NoKey => \A k \in Keys : c \notin own[k]
<1>1. ASSUME NEW k \in Keys, c \in own[k]
      PROVE  OwnerIn(own, c) = k
  <2>1. /\ (CHOOSE x \in Keys : c \in own[x]) \in Keys
        /\ c \in own[CHOOSE x \in Keys : c \in own[x]]
    BY <1>1
  <2>2. (CHOOSE x \in Keys : c \in own[x]) = k
    BY <1>1, <2>1
  <2>3. QED
    BY <1>1, <2>2 DEF OwnerIn
<1>2. QED
  BY <1>1, NoKeyAssumption DEF OwnerIn

-----------------------------------------------------------------------------
(* No Lua state is disposed or replaced under a running script             *)

\* The inductive invariant, of a call stack s and the states st and lu of the
\* addons.  Where scripts do not manage addons, a handler that manages addons
\* is only ever at the bottom of the stack; the main chunk of an addon runs
\* directly on it, in state Loading, so that no nested hook calls that addon.
Shape(s, st, lu) ==
    /\ \A i \in 1..Len(s) : i > 1 => s[i].kind \in ScriptKinds \cup {"hook"}
    /\ \A i \in 1..Len(s) : s[i].kind = "main" =>
          i = 2 /\ s[1].kind \notin ScriptKinds /\ st[s[i].key] = "Loading"
    /\ \A i \in 1..Len(s) : s[i].kind \in ScriptKinds => lu[s[i].key]
    /\ \A i, j \in 1..Len(s) :
          /\ s[i].kind = "main"
          /\ s[j].kind \in ScriptKinds /\ s[j].key = s[i].key
          => j = i

LEMMA ShapeImpliesLive == Shape(stack, state, lua) /\ freed = {} => LiveWhileRunning
BY DEF Shape, LiveWhileRunning, ScriptFrames, Depth

\* A call stack that is a part of s, up to the progress of its host frames.
LEMMA ShapeOfPart ==
    ASSUME NEW s \in Seq(Frame), NEW t \in Seq(Frame), NEW st, NEW lu, Shape(s, st, lu),
           Len(t) <= Len(s),
           \A i \in 1..Len(t) : t[i].kind = s[i].kind
                                /\ (s[i].kind \in ScriptKinds => t[i].key = s[i].key)
    PROVE  Shape(t, st, lu)
<1>1. 1..Len(t) \subseteq 1..Len(s) /\ \A i \in 1..Len(t) : i > 1 => 1 \in 1..Len(t)
  OBVIOUS
<1>2. "main" \in ScriptKinds
  BY DEF ScriptKinds
<1>3. \A i \in 1..Len(t) : i > 1 => t[i].kind \in ScriptKinds \cup {"hook"}
  BY <1>1 DEF Shape
<1>4. \A i \in 1..Len(t) : t[i].kind = "main" =>
         i = 2 /\ t[1].kind \notin ScriptKinds /\ st[t[i].key] = "Loading"
  BY <1>1, <1>2 DEF Shape
<1>5. \A i \in 1..Len(t) : t[i].kind \in ScriptKinds => lu[t[i].key]
  BY <1>1 DEF Shape
<1>6. \A i, j \in 1..Len(t) :
         t[i].kind = "main" /\ t[j].kind \in ScriptKinds /\ t[j].key = t[i].key => j = i
  BY <1>1, <1>2 DEF Shape
<1>7. QED
  BY <1>3, <1>4, <1>5, <1>6 DEF Shape

\* A stack without script frames, of one frame at most.
LEMMA ShapeOfHost ==
    ASSUME NEW s, NEW st, NEW lu, Len(s) \in {0, 1},
           \A i \in 1..Len(s) : s[i].kind \notin ScriptKinds
    PROVE  Shape(s, st, lu)
BY DEF Shape, ScriptKinds

\* A hook, raised anywhere, or any handler that enters with the lock free.
LEMMA ShapeOfHandler ==
    ASSUME NEW s \in Seq(Frame), NEW st, NEW lu, Shape(s, st, lu),
           NEW f \in Frame, f.kind \in HostKinds, f.kind = "hook" \/ Len(s) = 0
    PROVE  Shape(Append(s, f), st, lu)
<1> DEFINE t == Append(s, f)
           n == Len(s)
<1>1. /\ n \in Nat /\ Len(t) = n + 1 /\ t[n + 1] = f
      /\ \A i \in 1..n : t[i] = s[i]
  OBVIOUS
<1>2. f.kind \notin ScriptKinds /\ "main" \in ScriptKinds
  BY DEF HostKinds, ManageKinds, ScriptKinds
<1>3. \A i \in 1..Len(t) : t[i].kind \in ScriptKinds => i \in 1..n /\ 1 \in 1..n
  BY <1>1, <1>2
<1> HIDE DEF t
<1>4. \A i \in 1..Len(t) : i > 1 => t[i].kind \in ScriptKinds \cup {"hook"}
  BY <1>1 DEF Shape
<1>5. \A i \in 1..Len(t) : t[i].kind = "main" =>
         i = 2 /\ t[1].kind \notin ScriptKinds /\ st[t[i].key] = "Loading"
  BY <1>1, <1>2, <1>3 DEF Shape
<1>6. \A i \in 1..Len(t) : t[i].kind \in ScriptKinds => lu[t[i].key]
  BY <1>1, <1>3 DEF Shape
<1>7. \A i, j \in 1..Len(t) :
         t[i].kind = "main" /\ t[j].kind \in ScriptKinds /\ t[j].key = t[i].key => j = i
  BY <1>1, <1>2, <1>3 DEF Shape
<1>8. Shape(t, st, lu)
  BY <1>4, <1>5, <1>6, <1>7 DEF Shape
<1>9. QED
  BY <1>8 DEF t

\* A script of an addon in state Ok, called from anywhere: an event or command.
LEMMA ShapeOfCall ==
    ASSUME NEW s \in Seq(Frame), NEW st, NEW lu, Shape(s, st, lu),
           NEW kind \in {"event", "command"}, NEW k \in Keys, st[k] = "Ok", lu[k]
    PROVE  Shape(Append(s, ScriptFrame(kind, k)), st, lu)
<1> DEFINE f == ScriptFrame(kind, k)
           t == Append(s, f)
           n == Len(s)
<1>1. f \in Frame /\ f.kind = kind /\ f.key = k
  BY ScriptFrameIsFrame DEF ScriptFrame, HostFrame, ScriptKinds
<1>2. /\ n \in Nat /\ Len(t) = n + 1 /\ t[n + 1] = f
      /\ \A i \in 1..n : t[i] = s[i]
  BY <1>1
<1> HIDE DEF t, f
<1>3. \A i \in 1..Len(t) : t[i].kind = "main" => i \in 1..n /\ 1 \in 1..n /\ t[i].key # k
  BY <1>1, <1>2 DEF Shape
<1>4. \A i \in 1..Len(t) : i > 1 => t[i].kind \in ScriptKinds \cup {"hook"}
  BY <1>1, <1>2 DEF Shape, ScriptKinds
<1>5. \A i \in 1..Len(t) : t[i].kind = "main" =>
         i = 2 /\ t[1].kind \notin ScriptKinds /\ st[t[i].key] = "Loading"
  BY <1>2, <1>3 DEF Shape
<1>6. \A i \in 1..Len(t) : t[i].kind \in ScriptKinds => lu[t[i].key]
  BY <1>1, <1>2 DEF Shape
<1>7. \A i, j \in 1..Len(t) :
         t[i].kind = "main" /\ t[j].kind \in ScriptKinds /\ t[j].key = t[i].key => j = i
  BY <1>1, <1>2, <1>3 DEF Shape
<1>8. Shape(t, st, lu)
  BY <1>4, <1>5, <1>6, <1>7 DEF Shape
<1>9. QED
  BY <1>8 DEF t, f

LEMMA ShapeOfInvoke ==
    ASSUME NEW s \in Seq(Frame), NEW k \in Keys, NEW e, Shape(s, state, lua)
    PROVE  Shape(InvokeEvent(s, k, e), state, lua)
BY ShapeOfCall DEF InvokeEvent

\* The main chunk of an addon, on the handler that loads or reloads it.
LEMMA ShapeOfMain ==
    ASSUME NEW s \in Seq(Frame), Len(s) = 1, s[1].kind \notin ScriptKinds,
           NEW k \in Keys, NEW st, NEW lu, st[k] = "Loading", lu[k]
    PROVE  Shape(Append(s, ScriptFrame("main", k)), st, lu)
<1> DEFINE f == ScriptFrame("main", k)
           t == Append(s, f)
<1>1. f \in Frame /\ f.kind = "main" /\ f.key = k
  BY ScriptFrameIsFrame DEF ScriptFrame, HostFrame, ScriptKinds
<1> HIDE DEF f
<1>2. Len(t) = 2 /\ t[2] = f /\ t[1] = s[1]
  <2>1. f \in Frame
    BY <1>1
  <2>2. Len(t) = Len(s) + 1
    BY <2>1, PushFrame
  <2>3. t[Len(s) + 1] = f
    BY <2>1, PushFrame
  <2>4. \A i \in 1..Len(s) : t[i] = s[i]
    BY <2>1, PushFrame
  <2> HIDE DEF t
  <2>5. 1 + 1 = 2 /\ 1 \in 1..Len(s)
    OBVIOUS
  <2>6. QED
    BY <2>2, <2>3, <2>4, <2>5
<1> HIDE DEF t, f
<1>3. 1..Len(t) = {1, 2} /\ "main" \in ScriptKinds
  BY <1>2 DEF ScriptKinds
<1>4. Shape(t, st, lu)
  BY <1>1, <1>2, <1>3 DEF Shape
<1>5. QED
  BY <1>4 DEF t, f

\* The invariant of the host.
LiveInv == TypeOK /\ Shape(stack, state, lua)

\* Where scripts do not manage addons, the handler on top of the call stack is
\* alone on it.
LEMMA ManagerIsAlone ==
    ASSUME LiveInv, Depth > 0, Top.kind \in ManageKinds
    PROVE  Depth = 1 /\ Pop = <<>>
<1>1. Top.kind \notin ScriptKinds \cup {"hook"}
  BY DEF ManageKinds, ScriptKinds
<1>2. stack \in Seq(Frame) /\ Depth \in 1..Depth
  BY DEF LiveInv, TypeOK, Depth
<1>3. Depth = 1
  <2>1. Depth \in Nat \ {0}
    BY <1>2 DEF Depth
  <2>2. Depth > 1 => Top.kind \in ScriptKinds \cup {"hook"}
    BY <1>2 DEF LiveInv, Shape, Top, Depth
  <2>3. QED
    BY <1>1, <2>1, <2>2
<1>4. QED
  BY <1>2, <1>3, SubSeqEmpty DEF Pop

\* Popping the top frame, moving it if it is a handler's, and calling a script
\* from there.
LEMMA ShapeOfPop ==
    ASSUME LiveInv, Depth > 0
    PROVE  Shape(Pop, state, lua)
<1>1. stack \in Seq(Frame) /\ Len(stack) > 0
  BY DEF LiveInv, TypeOK, Depth
<1>2. /\ Pop \in Seq(Frame) /\ Len(Pop) = Len(stack) - 1
      /\ \A i \in 1..Len(Pop) : Pop[i] = stack[i]
  BY <1>1, StackFacts DEF Pop, Depth
<1>3. QED
  BY <1>1, <1>2, ShapeOfPart DEF LiveInv

LEMMA ShapeOfMove ==
    ASSUME LiveInv, Depth > 0, Top.kind \in HostKinds, NEW f \in Frame, f.kind = Top.kind
    PROVE  Shape([stack EXCEPT ![Depth] = f], state, lua)
<1> DEFINE t == [stack EXCEPT ![Depth] = f]
<1>1. stack \in Seq(Frame) /\ Depth \in 1..Len(stack) /\ Len(stack) = Depth
  BY DEF LiveInv, TypeOK, Depth
<1>2. /\ t \in Seq(Frame) /\ Len(t) = Len(stack)
      /\ \A i \in 1..Len(stack) : t[i] = IF i = Depth THEN f ELSE stack[i]
  BY <1>1, ExceptSeq
<1>3. Top.kind \notin ScriptKinds
  BY DEF HostKinds, ManageKinds, ScriptKinds
<1>4. \A i \in 1..Len(t) : t[i].kind = stack[i].kind
                           /\ (stack[i].kind \in ScriptKinds => t[i].key = stack[i].key)
  BY <1>1, <1>2, <1>3 DEF Top
<1> HIDE DEF t
<1>5. Shape(t, state, lua)
  BY <1>1, <1>2, <1>4, ShapeOfPart DEF LiveInv
<1>6. QED
  BY <1>5 DEF t

\* A handler enters: a hook from anywhere, the others with the lock free.
LEMMA ShapeOfEntry ==
    ASSUME LiveInv, NEW kind \in HostKinds, kind = "hook" \/ Depth = 0,
           NEW k, NEW at, NEW todo, NEW e, HostFrame(kind, k, at, todo, e) \in Frame
    PROVE  /\ Shape(Append(stack, HostFrame(kind, k, at, todo, e)), state, lua)
           /\ Append(stack, HostFrame(kind, k, at, todo, e)) \in Seq(Frame)
<1>1. stack \in Seq(Frame) /\ HostFrame(kind, k, at, todo, e).kind = kind
  BY DEF LiveInv, TypeOK, HostFrame
<1>2. QED
  BY <1>1, ShapeOfHandler, PushFrame DEF LiveInv, Depth

\* An enumeration moves on, and possibly calls a script of the addon it reached.
LEMMA LiveHook ==
    ASSUME LiveInv, HookStep \/ TickBegin
    PROVE  Shape(stack, state, lua)'
<1> USE DEF TopIs
<1>1. ASSUME NEW kind \in {"hook", "tick"}, kind = "hook" \/ Depth = 0,
             NEW h \in Events, Dispatch(kind, h)
      PROVE  Shape(stack, state, lua)'
  <2>1. HostFrame(kind, NoKey, "visit", loaded, h) \in Frame /\ kind \in HostKinds
    BY HostFrameIsFrame DEF LiveInv, TypeOK, HostKinds, ManageKinds, Places, ScriptKinds
  <2>2. QED
    BY <1>1, <2>1, ShapeOfEntry DEF Dispatch, addonVars
<1>2. ASSUME NEW k \in Keys, Visit(k)
      PROVE  Shape(stack, state, lua)'
  <2> DEFINE f == [Top EXCEPT !.todo = @ \ {k}]
             rest == [stack EXCEPT ![Depth] = f]
  <2>1. Depth > 0 /\ Top \in Frame /\ Top.kind \in HostKinds
    BY <1>2, PopTop DEF Visit, LiveInv, HostKinds, ManageKinds
  <2>2. f \in Frame /\ f.kind = Top.kind
    BY <2>1 DEF Frame, WorksOnAddon
  <2>3. Shape(rest, state, lua) /\ rest \in Seq(Frame)
    BY <2>1, <2>2, ShapeOfMove, ReplaceTop DEF LiveInv
  <2>4. stack' \in {rest, InvokeEvent(rest, k, Top.hook)}
    BY <1>2 DEF Visit, Top
  <2>5. Shape(stack', state, lua)
    BY <2>3, <2>4, ShapeOfInvoke
  <2>6. QED
    BY <1>2, <2>5 DEF Visit, addonVars
<1>3. CASE HookEnd
  BY <1>3, ShapeOfPop DEF HookEnd, addonVars
<1>4. QED
  BY <1>1, <1>2, <1>3 DEF HookStep, HookBegin, TickBegin, Events

\* The top frame of a handler that manages addons moves on to place at.
LEMMA ManagerMoves ==
    ASSUME LiveInv, Depth > 0, Top.kind \in ManageKinds, NEW f \in Frame, f.kind = Top.kind
    PROVE  LET t == [stack EXCEPT ![Depth] = f] IN
           /\ t \in Seq(Frame) /\ Len(t) = 1 /\ t[1].kind \notin ScriptKinds
           /\ Shape(t, state, lua)
           /\ \A st, lu : Shape(t, st, lu)
<1> DEFINE t == [stack EXCEPT ![Depth] = f]
<1>1. stack \in Seq(Frame) /\ Depth \in 1..Len(stack)
  BY DEF LiveInv, TypeOK, Depth
<1>2. t \in Seq(Frame)
  BY ReplaceTop DEF LiveInv
<1>3. Len(t) = 1 /\ t[1] = f
  <2>1. Len(t) = Len(stack) /\ t[Depth] = f
    BY <1>1, ExceptSeq
  <2>2. Depth = 1 /\ Len(stack) = 1
    BY ManagerIsAlone DEF Depth
  <2> HIDE DEF t
  <2>3. QED
    BY <2>1, <2>2
<1>4. f.kind \notin ScriptKinds
  BY DEF ManageKinds, ScriptKinds
<1> HIDE DEF t
<1>5. \A st, lu : Shape(t, st, lu)
  BY <1>3, <1>4, ShapeOfHost
<1>6. QED
  BY <1>2, <1>3, <1>4, <1>5 DEF t

LEMMA LiveTick ==
    ASSUME LiveInv, TickStep
    PROVE  Shape(stack, state, lua)'
<1> USE DEF TopIs
<1>1. Depth > 0 /\ Top.kind = "tick" /\ Top.kind \in ManageKinds /\ Top \in Frame
  BY PopTop DEF TickStep, TickScan, TickReload, TickSkip, TickOnLoad, TickEnd, ManageKinds, LiveInv
<1>2. CASE TickScan
  <2> DEFINE f == [Top EXCEPT !.at = "reload", !.todo = loaded]
  <2>1. f \in Frame /\ f.kind = Top.kind
    BY <1>1 DEF Frame, WorksOnAddon, Places, LiveInv, TypeOK, ScriptKinds
  <2>2. [stack EXCEPT ![Depth].at = "reload", ![Depth].todo = loaded]
           = [stack EXCEPT ![Depth] = f]
    BY DEF LiveInv, TypeOK, Top, Depth
  <2>3. Shape([stack EXCEPT ![Depth] = f], state, lua)
    BY <1>1, <2>1, ManagerMoves
  <2>4. QED
    BY <1>1, <1>2, <2>2, <2>3, ShapeOfPop DEF TickScan, addonVars
<1>3. ASSUME NEW k \in Keys, TickReload(k)
      PROVE  Shape(stack, state, lua)'
  <2> DEFINE f == [Top EXCEPT !.at = "init", !.key = k, !.todo = Top.todo \ {k}]
             t == [stack EXCEPT ![Depth] = f]
  <2>1. f \in Frame /\ f.kind = Top.kind
    BY <1>1 DEF Frame, WorksOnAddon, Places
  <2>2. [stack EXCEPT ![Depth].at = "init", ![Depth].key = k, ![Depth].todo = @ \ {k}] = t
    BY <1>1 DEF LiveInv, TypeOK, Top, Depth
  <2>3. t \in Seq(Frame) /\ Len(t) = 1 /\ t[1].kind \notin ScriptKinds
    BY <1>1, <2>1, ManagerMoves
  <2>4. stack' = Append(t, ScriptFrame("main", k))
    BY <1>3, <2>2 DEF TickReload
  <2>5. state'[k] = "Loading" /\ lua'[k]
    BY <1>3 DEF TickReload, NewLuaState, LiveInv, TypeOK
  <2> HIDE DEF t
  <2>6. QED
    BY <2>3, <2>4, <2>5, ShapeOfMain
<1>4. ASSUME NEW k \in Keys, TickSkip(k)
      PROVE  Shape(stack, state, lua)'
  <2> DEFINE f == [Top EXCEPT !.todo = @ \ {k}]
  <2>1. f \in Frame /\ f.kind = Top.kind
    BY <1>1 DEF Frame, WorksOnAddon
  <2>2. stack' = [stack EXCEPT ![Depth] = f]
    BY <1>4 DEF TickSkip, Top
  <2>3. Shape([stack EXCEPT ![Depth] = f], state, lua)
    BY <1>1, <2>1, ManagerMoves
  <2>4. QED
    BY <1>4, <2>2, <2>3 DEF TickSkip, addonVars
<1>5. CASE TickOnLoad
  <2> DEFINE f == [Top EXCEPT !.at = "reload", !.key = NoKey]
             t == [stack EXCEPT ![Depth] = f]
  <2>1. f \in Frame /\ f.kind = Top.kind
    BY <1>1 DEF Frame, WorksOnAddon, Places, ScriptKinds
  <2>2. [stack EXCEPT ![Depth].at = "reload", ![Depth].key = NoKey] = t
    BY DEF LiveInv, TypeOK, Top, Depth
  <2>3. t \in Seq(Frame) /\ Shape(t, state, lua)
    BY <1>1, <2>1, ManagerMoves
  <2>4. Top.key \in Keys
    BY <1>1, <1>5 DEF TickOnLoad, Frame, WorksOnAddon
  <2>5. stack' = InvokeEvent(t, Top.key, "load")
    BY <1>5, <2>2 DEF TickOnLoad
  <2> HIDE DEF t
  <2>6. Shape(stack', state, lua)
    BY <2>3, <2>4, <2>5, ShapeOfInvoke
  <2>7. QED
    BY <1>5, <2>6 DEF TickOnLoad, addonVars
<1>6. CASE TickEnd
  BY <1>6, ShapeOfPop DEF TickEnd, addonVars
<1>7. QED
  BY <1>2, <1>3, <1>4, <1>5, <1>6 DEF TickStep

LEMMA LiveLoad ==
    ASSUME LiveInv, ~ScriptsManage, LoadStep
    PROVE  Shape(stack, state, lua)'
<1> USE DEF TopIs
<1>1. ASSUME NEW k \in Keys, LoadBegin(k)
      PROVE  Shape(stack, state, lua)'
  <2> DEFINE h == HostFrame("load", k, "init", {}, "load")
             f == ScriptFrame("main", k)
             t == Append(stack, h)
  <2>1. h \in Frame /\ f \in Frame /\ h.kind = "load"
    BY HostFrameIsFrame, ScriptFrameIsFrame
       DEF ScriptKinds, HostKinds, ManageKinds, Places, Events, HostFrame
  <2>2. stack \in Seq(Frame) /\ Depth = 0
    BY <1>1 DEF LoadBegin, CommandEntry, LiveInv, TypeOK
  <2>3. stack = <<>>
    BY <2>2 DEF Depth
  <2>4. t \in Seq(Frame) /\ Len(t) = 1 /\ t[1] = h
    BY <2>1, <2>3
  <2>5. stack' = Append(t, f)
    BY <1>1, <2>1, <2>3 DEF LoadBegin
  <2>6. state'[k] = "Loading" /\ lua'[k] /\ "load" \notin ScriptKinds
    BY <1>1 DEF LoadBegin, NewLuaState, LiveInv, TypeOK, ScriptKinds
  <2> HIDE DEF h, t
  <2>7. QED
    BY <2>1, <2>4, <2>5, <2>6, ShapeOfMain DEF f
<1>2. ASSUME Depth > 0, Top.kind = "load"
      PROVE  Top \in Frame /\ Top.key \in Keys /\ Top.kind \in ManageKinds
  BY <1>2, PopTop DEF LiveInv, Frame, WorksOnAddon, ManageKinds
<1>3. CASE LoadInitialized
  <2> DEFINE f == [Top EXCEPT !.at = "add"]
  <2>1. f \in Frame /\ f.kind = Top.kind /\ GoTo("add") = [stack EXCEPT ![Depth] = f]
    BY <1>2, <1>3 DEF LoadInitialized, Frame, WorksOnAddon, Places, GoTo, Top
  <2>2. GoTo("add") \in Seq(Frame) /\ Shape(GoTo("add"), state, lua)
    BY <1>2, <1>3, <2>1, ManagerMoves DEF LoadInitialized
  <2>3. Shape(stack', state, lua)
    BY <1>2, <1>3, <2>2, ShapeOfInvoke, ShapeOfPop DEF LoadInitialized
  <2>4. QED
    BY <1>3, <2>3 DEF LoadInitialized, addonVars
<1>4. CASE LoadAdd
  BY <1>4, ShapeOfPop DEF LoadAdd, addonVars
<1>5. QED
  BY <1>1, <1>3, <1>4 DEF LoadStep

\* The frames with which an enumeration of addons enters, visits and goes on.
LEMMA EnumerationMoves ==
    ASSUME LiveInv, NEW kind \in {"unloadall", "dispose"}
    PROVE  /\ TopIs({kind}, "visit") =>
                 \A k \in Keys :
                    /\ \A st, lu : Shape([stack EXCEPT ![Depth].todo = @ \ {k}], st, lu)
                    /\ \A st, lu : Shape([stack EXCEPT ![Depth].at = "release", ![Depth].key = k,
                                     ![Depth].todo = @ \ {k}], st, lu)
           /\ TopIs({kind}, "release") \/ TopIs({kind}, "notify") =>
                 \A st, lu : Shape([stack EXCEPT ![Depth].at = "visit", ![Depth].key = NoKey],
                                   st, lu)
<1> USE DEF TopIs
<1>1. ASSUME TopIs({kind}, "visit"), NEW k \in Keys
      PROVE  /\ \A st, lu : Shape([stack EXCEPT ![Depth].todo = @ \ {k}], st, lu)
             /\ \A st, lu : Shape([stack EXCEPT ![Depth].at = "release", ![Depth].key = k,
                                      ![Depth].todo = @ \ {k}], st, lu)
  <2> DEFINE f == [Top EXCEPT !.todo = Top.todo \ {k}]
             g == [Top EXCEPT !.at = "release", !.key = k, !.todo = Top.todo \ {k}]
  <2>1. Depth > 0 /\ Top \in Frame /\ Top.kind \in ManageKinds
    BY <1>1, PopTop DEF LiveInv, ManageKinds
  <2>2. f \in Frame /\ f.kind = Top.kind
    BY <2>1 DEF Frame, WorksOnAddon
  <2>3. g \in Frame /\ g.kind = Top.kind
    BY <2>1 DEF Frame, WorksOnAddon, Places
  <2>4. [stack EXCEPT ![Depth].todo = @ \ {k}] = [stack EXCEPT ![Depth] = f]
    BY DEF Top
  <2>5. [stack EXCEPT ![Depth].at = "release", ![Depth].key = k, ![Depth].todo = @ \ {k}]
           = [stack EXCEPT ![Depth] = g]
    BY <2>1 DEF LiveInv, TypeOK, Top, Depth
  <2> HIDE DEF f, g
  <2>6. QED
    BY <2>1, <2>2, <2>3, <2>4, <2>5, ManagerMoves
<1>2. ASSUME TopIs({kind}, "release") \/ TopIs({kind}, "notify")
      PROVE  \A st, lu : Shape([stack EXCEPT ![Depth].at = "visit", ![Depth].key = NoKey],
                               st, lu)
  <2> DEFINE f == [Top EXCEPT !.at = "visit", !.key = NoKey]
  <2>1. Depth > 0 /\ Top \in Frame /\ Top.kind \in ManageKinds
    BY <1>2, PopTop DEF LiveInv, ManageKinds
  <2>2. f \in Frame /\ f.kind = Top.kind
    BY <1>2, <2>1 DEF Frame, WorksOnAddon, Places, ScriptKinds
  <2>3. [stack EXCEPT ![Depth].at = "visit", ![Depth].key = NoKey] = [stack EXCEPT ![Depth] = f]
    BY DEF LiveInv, TypeOK, Top, Depth
  <2> HIDE DEF f
  <2>4. QED
    BY <2>1, <2>2, <2>3, ManagerMoves
<1>3. QED
  BY <1>1, <1>2

\* Once nothing is left on the call stack, nothing can be pulled away.
LEMMA ShapeOfEmpty == \A st, lu : Shape(<<>>, st, lu)
BY ShapeOfHost

LEMMA LiveUnload ==
    ASSUME LiveInv, ~ScriptsManage, UnloadStep
    PROVE  Shape(stack, state, lua)'
<1> USE DEF TopIs
<1>1. ASSUME NEW k \in Keys, UnloadBegin(k)
      PROVE  Shape(stack, state, lua)'
  <2> DEFINE t == Append(stack, HostFrame("unload", k, "release", {}, "load"))
  <2>1. HostFrame("unload", k, "release", {}, "load") \in Frame /\ "unload" \in HostKinds
    BY HostFrameIsFrame DEF ScriptKinds, HostKinds, ManageKinds, Places, Events
  <2>2. Shape(t, state, lua) /\ t \in Seq(Frame)
    BY <1>1, <2>1, ShapeOfEntry DEF UnloadBegin, CommandEntry
  <2>3. Shape(stack', state, lua)
    BY <1>1, <2>2, ShapeOfInvoke DEF UnloadBegin
  <2>4. QED
    BY <1>1, <2>3 DEF UnloadBegin, addonVars
<1>2. CASE UnloadAllBegin
  <2>1. HostFrame("unloadall", NoKey, "visit", loaded, "load") \in Frame
        /\ "unloadall" \in HostKinds
    BY HostFrameIsFrame DEF LiveInv, TypeOK, ScriptKinds, HostKinds, ManageKinds, Places, Events
  <2>2. QED
    BY <1>2, <2>1, ShapeOfEntry DEF UnloadAllBegin, CommandEntry, addonVars
<1>3. ASSUME NEW k \in Keys, UnloadAllVisit(k)
      PROVE  Shape(stack, state, lua)'
  <2> DEFINE t == [stack EXCEPT ![Depth].at = "release", ![Depth].key = k,
                                ![Depth].todo = @ \ {k}]
             u == [stack EXCEPT ![Depth].todo = @ \ {k}]
  <2>1. t \in Seq(Frame) /\ Shape(t, state, lua) /\ Shape(u, state, lua)
    BY <1>3, EnumerationIsStack, EnumerationMoves DEF UnloadAllVisit, LiveInv
  <2>2. stack' = u \/ stack' = InvokeEvent(t, k, "unload")
    BY <1>3 DEF UnloadAllVisit
  <2> HIDE DEF t, u
  <2>3. Shape(stack', state, lua)
    BY <2>1, <2>2, ShapeOfInvoke
  <2>4. QED
    BY <1>3, <2>3 DEF UnloadAllVisit, addonVars
<1>4. CASE UnloadRelease
  <2> DEFINE f == [Top EXCEPT !.at = "notify"]
  <2>1. Depth > 0 /\ Top \in Frame /\ Top.kind \in ManageKinds /\ Top.at = "release"
    BY <1>4, PopTop DEF UnloadRelease, ManageKinds, LiveInv
  <2>2. f \in Frame /\ f.kind = Top.kind
    BY <2>1 DEF Frame, WorksOnAddon, Places
  <2>3. stack' = [stack EXCEPT ![Depth] = f]
    BY <1>4 DEF UnloadRelease, GoTo, Top
  <2> HIDE DEF f
  <2>4. QED
    BY <2>1, <2>2, <2>3, ManagerMoves
<1>5. CASE UnloadAllEnd
  BY <1>5, ShapeOfPop DEF UnloadAllEnd, addonVars
<1>6. CASE NotifyThrows
  BY <1>6, ShapeOfPop DEF NotifyThrows, addonVars
<1>7. CASE UnloadNotified
  <2>1. Depth > 0 /\ Top.kind \in ManageKinds /\ Top.at = "notify"
        /\ Top.kind \in {"unload", "unloadall"}
    BY <1>7 DEF UnloadNotified, ManageKinds
  <2>2. Pop = <<>>
    BY <2>1, ManagerIsAlone
  <2>3. CASE stack' = Pop
    BY <2>2, <2>3, ShapeOfEmpty
  <2>4. CASE Top.kind = "unloadall"
             /\ stack' = [stack EXCEPT ![Depth].at = "visit", ![Depth].key = NoKey]
    BY <2>1, <2>4, EnumerationMoves
  <2>5. QED
    BY <1>7, <2>1, <2>3, <2>4 DEF UnloadNotified
<1>8. QED
  BY <1>1, <1>2, <1>3, <1>4, <1>5, <1>6, <1>7 DEF UnloadStep

LEMMA LiveReload ==
    ASSUME LiveInv, ~ScriptsManage, ReloadStep
    PROVE  Shape(stack, state, lua)'
<1> USE DEF TopIs
<1>1. ASSUME NEW k \in Keys, ReloadBegin(k)
      PROVE  Shape(stack, state, lua)'
  <2> DEFINE t == Append(stack, HostFrame("reload", k, "reinit", {}, "load"))
  <2>1. HostFrame("reload", k, "reinit", {}, "load") \in Frame /\ "reload" \in HostKinds
    BY HostFrameIsFrame DEF ScriptKinds, HostKinds, ManageKinds, Places, Events
  <2>2. Shape(t, state, lua) /\ t \in Seq(Frame)
    BY <1>1, <2>1, ShapeOfEntry DEF ReloadBegin, CommandEntry
  <2>3. Shape(stack', state, lua)
    BY <1>1, <2>2, ShapeOfInvoke DEF ReloadBegin
  <2>4. QED
    BY <1>1, <2>3 DEF ReloadBegin, addonVars
<1>2. ASSUME Depth > 0, Top.kind = "reload", NEW at \in Places
      PROVE  /\ Top.key \in Keys
             /\ GoTo(at) \in Seq(Frame) /\ Len(GoTo(at)) = 1
             /\ GoTo(at)[1].kind \notin ScriptKinds
             /\ Shape(GoTo(at), state, lua)
  <2> DEFINE f == [Top EXCEPT !.at = at]
  <2>1. Top \in Frame /\ Top.key \in Keys /\ Top.kind \in ManageKinds
    BY <1>2, PopTop DEF LiveInv, Frame, WorksOnAddon, ManageKinds
  <2>2. f \in Frame /\ f.kind = Top.kind /\ GoTo(at) = [stack EXCEPT ![Depth] = f]
    BY <2>1 DEF Frame, WorksOnAddon, GoTo, Top
  <2> HIDE DEF f
  <2>3. QED
    BY <1>2, <2>1, <2>2, ManagerMoves
<1>3. CASE ReloadReinit
  <2>1. "init" \in Places /\ Depth > 0 /\ Top.kind = "reload"
    BY <1>3 DEF ReloadReinit, Places
  <2>2. state'[Top.key] = "Loading" /\ lua'[Top.key]
    BY <1>2, <1>3, <2>1 DEF ReloadReinit, NewLuaState, LiveInv, TypeOK
  <2>3. stack' = Append(GoTo("init"), ScriptFrame("main", Top.key))
    BY <1>3 DEF ReloadReinit
  <2>4. QED
    BY <1>2, <2>1, <2>2, <2>3, ShapeOfMain
<1>4. CASE ReloadThrows \/ ReloadEnd
  BY <1>4, ShapeOfPop DEF ReloadThrows, ReloadEnd, addonVars
<1>5. CASE ReloadOnLoad
  <2>1. "end" \in Places /\ Depth > 0 /\ Top.kind = "reload"
    BY <1>5 DEF ReloadOnLoad, Places
  <2>2. Shape(stack', state, lua)
    BY <1>2, <1>5, <2>1, ShapeOfInvoke DEF ReloadOnLoad
  <2>3. QED
    BY <1>5, <2>2 DEF ReloadOnLoad, addonVars
<1>6. QED
  BY <1>1, <1>3, <1>4, <1>5 DEF ReloadStep

LEMMA LiveDispose ==
    ASSUME LiveInv, DisposeStep
    PROVE  Shape(stack, state, lua)'
<1> USE DEF TopIs
<1>1. CASE DisposeBegin
  <2>1. HostFrame("dispose", NoKey, "visit", loaded, "load") \in Frame
        /\ "dispose" \in HostKinds
    BY HostFrameIsFrame DEF LiveInv, TypeOK, ScriptKinds, HostKinds, ManageKinds, Places, Events
  <2>2. QED
    BY <1>1, <2>1, ShapeOfEntry DEF DisposeBegin, addonVars
<1>2. ASSUME NEW k \in Keys, DisposeVisit(k)
      PROVE  Shape(stack, state, lua)'
  <2> DEFINE t == [stack EXCEPT ![Depth].at = "release", ![Depth].key = k,
                                ![Depth].todo = @ \ {k}]
  <2>1. t \in Seq(Frame) /\ Shape(t, state, lua)
    BY <1>2, EnumerationIsStack, EnumerationMoves DEF DisposeVisit, LiveInv
  <2>2. stack' = InvokeEvent(t, k, "unload")
    BY <1>2 DEF DisposeVisit
  <2> HIDE DEF t
  <2>3. Shape(stack', state, lua)
    BY <2>1, <2>2, ShapeOfInvoke
  <2>4. QED
    BY <1>2, <2>3 DEF DisposeVisit, addonVars
<1>3. CASE DisposeRelease
  BY <1>3, EnumerationMoves DEF DisposeRelease
<1>4. CASE DisposeEnd
  BY <1>4, ShapeOfPop DEF DisposeEnd, addonVars
<1>5. QED
  BY <1>1, <1>2, <1>3, <1>4 DEF DisposeStep

\* The main chunk of an addon is the only script on the stack.
LEMMA MainIsOnlyScript ==
    ASSUME LiveInv, Depth > 0, Top.kind = "main"
    PROVE  \A st, lu : Shape(Pop, st, lu)
<1>1. stack \in Seq(Frame) /\ Len(stack) > 0 /\ Depth \in 1..Len(stack)
  BY DEF LiveInv, TypeOK, Depth
<1>2. Depth = 2 /\ stack[1].kind \notin ScriptKinds
  BY <1>1 DEF LiveInv, Shape, Top, Depth
<1>3. /\ Len(Pop) = Len(stack) - 1
      /\ \A i \in 1..Len(stack) - 1 : Pop[i] = stack[i]
  BY <1>1, StackFacts DEF Pop, Depth
<1>4. Len(stack) = 2
  BY <1>2 DEF Depth
<1>5. Len(Pop) = 1 /\ Pop[1] = stack[1]
  BY <1>3, <1>4
<1>6. QED
  BY <1>2, <1>5, ShapeOfHost

\* An event or command that fails: its addon is not one whose main chunk runs.
LEMMA ShapeOfFailure ==
    ASSUME LiveInv, Depth > 0, Top.kind \in ScriptKinds, Top.kind # "main"
    PROVE  Shape(Pop, [state EXCEPT ![Top.key] = "Error"], lua)
<1> DEFINE st == [state EXCEPT ![Top.key] = "Error"]
<1>1. stack \in Seq(Frame) /\ Len(stack) > 0 /\ Depth \in 1..Len(stack) /\ Depth = Len(stack)
  BY DEF LiveInv, TypeOK, Depth
<1>2. /\ Pop \in Seq(Frame) /\ Len(Pop) = Len(stack) - 1
      /\ \A i \in 1..Len(Pop) : Pop[i] = stack[i]
  BY <1>1, StackFacts DEF Pop, Depth
<1>3. Shape(Pop, state, lua)
  BY ShapeOfPop
<1>4. ASSUME NEW i \in 1..Len(Pop), Pop[i].kind = "main"
      PROVE  Pop[i].key # Top.key
  <2>1. i \in 1..Len(stack) /\ i # Depth /\ stack[i].kind = "main"
    BY <1>1, <1>2, <1>4
  <2>2. QED
    BY <1>1, <1>2, <2>1 DEF LiveInv, Shape, Top, Depth
<1>5. \A i \in 1..Len(Pop) : Pop[i].kind = "main" =>
         Pop[i].key \in Keys /\ st[Pop[i].key] = state[Pop[i].key]
  <2>1. \A i \in 1..Len(Pop) : Pop[i].kind = "main" => Pop[i] \in Frame /\ Pop[i].key \in Keys
    BY <1>2 DEF Frame, WorksOnAddon, ScriptKinds
  <2>2. QED
    BY <1>4, <2>1 DEF LiveInv, TypeOK
<1> HIDE DEF st
<1>6. Shape(Pop, st, lua)
  BY <1>3, <1>5 DEF Shape
<1>7. QED
  BY <1>6 DEF st

\* What the exception of a voting hook leaves on the call stack.
LEMMA ShapeOfVote ==
    ASSUME LiveInv, Depth > 1
    PROVE  Shape(SubSeq(stack, 1, Depth - 1 - 1), state, lua)
<1> DEFINE n == Depth - 1
           u == SubSeq(Pop, 1, n - 1)
<1>1. stack \in Seq(Frame) /\ Len(stack) > 0 /\ Depth = Len(stack) /\ Depth \in Nat
  BY DEF LiveInv, TypeOK, Depth
<1>2. /\ Pop \in Seq(Frame) /\ Len(Pop) = n
      /\ \A i \in 1..n : Pop[i] = stack[i]
  BY <1>1, StackFacts DEF Pop, Depth
<1>3. Shape(Pop, state, lua) /\ n \in Nat /\ n > 0 /\ n \in 1..n
  BY <1>1, ShapeOfPop
<1>4. u \in Seq(Frame) /\ Len(u) = n - 1 /\ \A i \in 1..n - 1 : u[i] = Pop[i]
  BY <1>2, <1>3, StackFacts
<1>5. Shape(u, state, lua)
  <2> HIDE DEF u, n
  <2>1. QED
    BY <1>2, <1>3, <1>4, ShapeOfPart
<1>6. u = SubSeq(stack, 1, n - 1)
  BY <1>1, <1>2, <1>3
<1>7. QED
  BY <1>5, <1>6

LEMMA LiveScript ==
    ASSUME LiveInv, ~ScriptsManage, ScriptStep \/ CallbackStep
    PROVE  Shape(stack, state, lua)'
<1>1. ASSUME NEW e \in Events, RegisterEvent(e)
      PROVE  Shape(stack, state, lua)'
  BY <1>1 DEF RegisterEvent, LiveInv
<1>2. ASSUME NEW n \in Names, RegisterCommand(n)
      PROVE  Shape(stack, state, lua)'
  BY <1>2 DEF RegisterCommand, LiveInv
<1>3. ASSUME NEW ret \in Returns, ScriptReturn(ret)
      PROVE  Shape(stack, state, lua)'
  <2>1. Depth > 0 /\ lua' = lua
    BY <1>3 DEF ScriptReturn, ScriptOnTop
  <2>2. CASE Top.kind = "main"
    <3>1. stack' = Pop
      BY <1>3, <2>2 DEF ScriptReturn
    <3>2. QED
      BY <2>1, <2>2, <3>1, MainIsOnlyScript
  <2>3. CASE Top.kind # "main"
    <3>1. state' = state
      BY <1>3, <2>3 DEF ScriptReturn
    <3>2. \/ stack' = Pop
          \/ Depth - 1 > 0 /\ stack' = SubSeq(stack, 1, Depth - 1 - 1)
      BY <1>3 DEF ScriptReturn
    <3>3. Depth - 1 > 0 => Depth > 1
      BY DEF Depth, LiveInv, TypeOK
    <3>4. Shape(stack', state, lua)
      BY <2>1, <3>2, <3>3, ShapeOfPop, ShapeOfVote
    <3>5. QED
      BY <2>1, <3>1, <3>4
  <2>4. QED
    BY <2>2, <2>3
<1>4. CASE ScriptFails
  <2>1. Depth > 0 /\ Top.kind \in ScriptKinds /\ stack' = Pop
    BY <1>4 DEF ScriptFails, ScriptOnTop
  <2>2. CASE Top.kind = "main"
    BY <2>1, <2>2, MainIsOnlyScript
  <2>3. CASE Top.kind # "main"
    <3>1. state' = [state EXCEPT ![Top.key] = "Error"] /\ lua' = lua
      BY <1>4, <2>3 DEF ScriptFails
    <3>2. QED
      BY <2>1, <2>3, <3>1, ShapeOfFailure
  <2>4. QED
    BY <2>2, <2>3
<1>5. ASSUME NEW c \in Commands, NEW k \in Keys, CallbackInvoke(c, k)
      PROVE  Shape(stack, state, lua)'
  <2>1. stack \in Seq(Frame) /\ Shape(stack, state, lua)
    BY DEF LiveInv, TypeOK
  <2>2. stack' = Append(stack, ScriptFrame("command", k)) /\ state[k] = "Ok" /\ lua[k]
        /\ state' = state /\ lua' = lua
    BY <1>5 DEF CallbackInvoke, addonVars
  <2>3. QED
    BY <2>1, <2>2, ShapeOfCall
<1>6. ASSUME NEW c \in Commands, NEW k \in Keys, CallbackDrop(c, k)
      PROVE  Shape(stack, state, lua)'
  BY <1>6 DEF CallbackDrop, addonVars, LiveInv
<1>7. QED
  BY <1>1, <1>2, <1>3, <1>4, <1>5, <1>6 DEF ScriptStep, CallbackStep, RegisterRefused

LEMMA LiveInvariant ==
    ASSUME ~ScriptsManage
    PROVE  Spec => []LiveInv
<1>1. Init => Shape(stack, state, lua)
  BY ShapeOfEmpty DEF Init
<1>2. TypeOK /\ Shape(stack, state, lua) /\ [Next]_vars => Shape(stack, state, lua)'
  <2> SUFFICES ASSUME LiveInv, [Next]_vars
               PROVE  Shape(stack, state, lua)'
    BY DEF LiveInv
  <2>1. CASE FreeStep \/ UNCHANGED vars
    BY <2>1 DEF FreeStep, ReloadConfig, PluginAddsCommand, addonVars, vars, LiveInv
  <2>2. QED
    BY <2>1, LiveHook, LiveTick, LiveLoad, LiveUnload, LiveReload, LiveDispose, LiveScript
       DEF Next
<1>3. QED
  BY <1>1, <1>2, TypeCorrect, PTL DEF Spec, LiveInv

\* No script frame is below a handler that manages addons, or below the main
\* chunk of its addon.
LEMMA NoScriptsBelow ==
    ASSUME LiveInv, NEW k
    PROVE  /\ Depth = 0 => ScriptsOf(k, Depth) = {}
           /\ Depth > 0 /\ Top.kind \in ManageKinds => ScriptsOf(k, Depth) = {}
           /\ Depth > 0 /\ Top.kind = "main" => ScriptsOf(Top.key, Depth - 1) = {}
<1>1. stack \in Seq(Frame) /\ Depth \in Nat /\ Depth = Len(stack)
  BY DEF LiveInv, TypeOK, Depth
<1>2. Depth = 0 => ScriptsOf(k, Depth) = {}
  BY DEF ScriptsOf
<1>3. ASSUME Depth > 0, Top.kind \in ManageKinds
      PROVE  ScriptsOf(k, Depth) = {}
  <2>1. Depth = 1 /\ stack[1].kind \notin ScriptKinds
    BY <1>3, ManagerIsAlone DEF Top, ManageKinds, ScriptKinds
  <2>2. QED
    BY <2>1 DEF ScriptsOf
<1>4. ASSUME Depth > 0, Top.kind = "main"
      PROVE  ScriptsOf(Top.key, Depth - 1) = {}
  <2>1. Depth = 2 /\ stack[1].kind \notin ScriptKinds
    BY <1>1, <1>4 DEF LiveInv, Shape, Top
  <2>2. QED
    BY <2>1 DEF ScriptsOf
<1>5. QED
  BY <1>2, <1>3, <1>4

\* No step takes the Lua state of a script on the call stack away.
NothingFreed == freed = {}

LEMMA NothingFreedNext ==
    ASSUME LiveInv, NothingFreed, ~ScriptsManage, [Next]_vars
    PROVE  NothingFreed'
<1> USE DEF NothingFreed, TopIs
<1>1. ASSUME UNCHANGED addonVars
      PROVE  NothingFreed'
  BY <1>1 DEF addonVars
<1>2. ASSUME NEW k, NewLuaState(k), Depth = 0 \/ (Depth > 0 /\ Top.kind \in ManageKinds)
      PROVE  NothingFreed'
  BY <1>2, NoScriptsBelow DEF NewLuaState
<1>3. ASSUME NEW k, NEW s, Release(k, s, Depth), Depth > 0, Top.kind \in ManageKinds
      PROVE  NothingFreed'
  BY <1>3, NoScriptsBelow DEF Release
<1>4. CASE HookStep \/ TickBegin \/ UNCHANGED vars
  BY <1>1, <1>4 DEF HookStep, HookBegin, TickBegin, Dispatch, Visit, HookEnd, vars, addonVars
<1>5. CASE TickStep
  <2>1. ASSUME NEW k \in Keys, TickReload(k)
        PROVE  NothingFreed'
    BY <1>2, <2>1 DEF TickReload, ManageKinds
  <2>2. QED
    BY <1>1, <1>5, <2>1 DEF TickStep, TickScan, TickSkip, TickOnLoad, TickEnd
<1>6. CASE LoadStep
  <2>1. ASSUME NEW k \in Keys, LoadBegin(k)
        PROVE  NothingFreed'
    BY <1>2, <2>1 DEF LoadBegin, CommandEntry
  <2>2. QED
    BY <1>1, <1>6, <2>1 DEF LoadStep, LoadInitialized, LoadAdd
<1>7. CASE UnloadStep
  <2>1. CASE UnloadRelease
    BY <1>3, <2>1 DEF UnloadRelease, ManageKinds
  <2>2. QED
    BY <1>1, <1>7, <2>1 DEF UnloadStep, UnloadBegin, UnloadAllBegin, UnloadAllVisit,
       NotifyThrows, UnloadNotified, UnloadAllEnd
<1>8. CASE ReloadStep
  <2>1. CASE ReloadReinit
    BY <1>2, <2>1 DEF ReloadReinit, ManageKinds
  <2>2. QED
    BY <1>1, <1>8, <2>1 DEF ReloadStep, ReloadBegin, ReloadThrows, ReloadOnLoad, ReloadEnd
<1>9. CASE DisposeStep
  <2>1. CASE DisposeRelease
    BY <1>3, <2>1 DEF DisposeRelease, ManageKinds
  <2>2. QED
    BY <1>1, <1>9, <2>1 DEF DisposeStep, DisposeBegin, DisposeVisit, DisposeEnd
<1>10. CASE CallbackStep \/ FreeStep
  BY <1>1, <1>10 DEF CallbackStep, CallbackInvoke, CallbackDrop, FreeStep, ReloadConfig,
     PluginAddsCommand
<1>11. CASE ScriptStep
  <2>1. CASE ScriptFails
    <3>1. CASE Top.kind = "main"
      BY <2>1, <3>1, NoScriptsBelow DEF ScriptFails, ScriptOnTop, Release
    <3>2. CASE Top.kind # "main"
      BY <2>1, <3>2 DEF ScriptFails
    <3>3. QED
      BY <3>1, <3>2
  <2>2. ASSUME NEW ret \in Returns, ScriptReturn(ret)
        PROVE  NothingFreed'
    BY <2>2 DEF ScriptReturn
  <2>3. QED
    BY <1>11, <2>1, <2>2 DEF ScriptStep, RegisterEvent, RegisterCommand, RegisterRefused
<1>12. QED
  BY <1>4, <1>5, <1>6, <1>7, <1>8, <1>9, <1>10, <1>11 DEF Next

\* Where scripts do not issue /addon commands themselves, no Lua state is
\* disposed or replaced while one of its scripts is running, however deeply the
\* hooks it raises are nested.
THEOREM LuaStatesStayLive ==
    ASSUME ~ScriptsManage
    PROVE  Spec => []LiveWhileRunning
<1>1. Init => NothingFreed
  BY DEF Init, NothingFreed
<1>2. LiveInv /\ NothingFreed => LiveWhileRunning
  BY ShapeImpliesLive DEF LiveInv, NothingFreed
<1>3. QED
  BY <1>1, <1>2, LiveInvariant, NothingFreedNext, PTL DEF Spec

-----------------------------------------------------------------------------
(***************************************************************************)
(* What every step does to the call stack, votes of nested dispatches,     *)
(* addons that are left half-way, and the commands that released or live   *)
(* addons own.                                                             *)
(***************************************************************************)

(* What a step does to the call stack *)

\* The top frame has become f.
Moved(f) == [stack EXCEPT ![Depth] = f]

\* The stack t, or a script of an addon called on it.
Calls(t, kind) == \/ stack' = t
                  \/ \E k \in Keys : stack' = Append(t, ScriptFrame(kind, k))

\* A handler or a script is entered, the top frame moves on, the top frame
\* returns.
Enters(f, kind) == f \in Frame /\ Calls(Append(stack, f), kind)
Moves(f, kind)  == /\ Depth > 0 /\ f \in Frame
                   /\ f.kind = Top.kind
                   /\ Calls(Moved(f), kind)
Pops            == Depth > 0 /\ stack' = Pop

\* A voting hook is left by the exception of ret[0].ToString().
Aborts == stack' = SubSeq(stack, 1, Depth - 1 - 1)

LEMMA MovedFacts ==
    ASSUME TypeOK, Depth > 0, NEW f \in Frame
    PROVE  /\ Moved(f) \in Seq(Frame) /\ Len(Moved(f)) = Depth /\ Moved(f)[Depth] = f
           /\ \A i \in 1..Depth - 1 : Moved(f)[i] = stack[i]
<1>1. stack \in Seq(Frame) /\ Depth = Len(stack) /\ Depth \in 1..Len(stack)
  BY DEF TypeOK, Depth
<1>2. /\ Moved(f) \in Seq(Frame) /\ Len(Moved(f)) = Len(stack)
      /\ \A i \in 1..Len(stack) : Moved(f)[i] = IF i = Depth THEN f ELSE stack[i]
  BY <1>1, ExceptSeq DEF Moved
<1>3. QED
  BY <1>1, <1>2

LEMMA PopFacts ==
    ASSUME TypeOK, Depth > 0
    PROVE  /\ Pop \in Seq(Frame) /\ Len(Pop) = Depth - 1
           /\ \A i \in 1..Depth - 1 : Pop[i] = stack[i]
<1>1. stack \in Seq(Frame) /\ Len(stack) > 0
  BY DEF TypeOK, Depth
<1>2. QED
  BY <1>1, StackFacts DEF Pop, Depth

LEMMA CallsFacts ==
    ASSUME NEW t \in Seq(Frame), NEW kind \in ScriptKinds, Calls(t, kind)
    PROVE  /\ stack' \in Seq(Frame) /\ Len(stack') \in {Len(t), Len(t) + 1}
           /\ \A i \in 1..Len(t) : stack'[i] = t[i]
           /\ Len(stack') = Len(t) + 1 =>
                 /\ stack'[Len(t) + 1].kind = kind
                 /\ stack'[Len(t) + 1].key \in Keys
<1>1. CASE stack' = t
  BY <1>1
<1>2. ASSUME NEW k \in Keys, stack' = Append(t, ScriptFrame(kind, k))
      PROVE  /\ stack' \in Seq(Frame) /\ Len(stack') = Len(t) + 1
             /\ \A i \in 1..Len(t) : stack'[i] = t[i]
             /\ stack'[Len(t) + 1].kind = kind
             /\ stack'[Len(t) + 1].key \in Keys
  <2>1. /\ ScriptFrame(kind, k) \in Frame
        /\ ScriptFrame(kind, k).kind = kind /\ ScriptFrame(kind, k).key = k
    BY ScriptFrameIsFrame DEF ScriptFrame, HostFrame
  <2>2. QED
    BY <1>2, <2>1, PushFacts
<1>3. QED
  BY <1>1, <1>2 DEF Calls

\* Looking an event up and calling the script it finds.
LEMMA InvokeCalls ==
    ASSUME NEW t, NEW k \in Keys, NEW e, stack' = InvokeEvent(t, k, e)
    PROVE  Calls(t, "event")
BY DEF InvokeEvent, Calls

LEMMA HookForms ==
    ASSUME TypeOK, HookStep \/ TickBegin
    PROVE  \/ \E f : Enters(f, "event") /\ f.kind \in {"hook", "tick"}
           \/ \E f : Moves(f, "event") /\ Top.kind \in {"hook", "tick"}
           \/ Pops /\ Top.kind = "hook"
<1> USE DEF TopIs
<1>1. ASSUME NEW kind \in {"hook", "tick"}, NEW h \in Events, Dispatch(kind, h)
      PROVE  \E f : Enters(f, "event") /\ f.kind \in {"hook", "tick"}
  <2> DEFINE f == HostFrame(kind, NoKey, "visit", loaded, h)
  <2>1. f \in Frame /\ f.kind = kind
    BY HostFrameIsFrame DEF TypeOK, HostKinds, ManageKinds, Places, ScriptKinds, HostFrame
  <2>2. Enters(f, "event")
    BY <1>1, <2>1 DEF Dispatch, Enters, Calls
  <2>3. QED
    BY <2>1, <2>2
<1>2. ASSUME NEW k \in Keys, Visit(k)
      PROVE  \E f : Moves(f, "event") /\ Top.kind \in {"hook", "tick"}
  <2> DEFINE f == [Top EXCEPT !.todo = Top.todo \ {k}]
  <2>1. Depth > 0 /\ Top \in Frame /\ Top.kind \in {"hook", "tick"}
    BY <1>2, PopTop DEF Visit
  <2>2. f \in Frame /\ f.kind = Top.kind
    BY <2>1 DEF Frame, WorksOnAddon
  <2>3. stack' = Moved(f) \/ stack' = InvokeEvent(Moved(f), k, Top.hook)
    BY <1>2, <2>1 DEF Visit, Moved, Top, TypeOK, Depth
  <2> HIDE DEF f
  <2>4. Calls(Moved(f), "event")
    BY <2>3, InvokeCalls DEF Calls
  <2>5. QED
    BY <2>1, <2>2, <2>4 DEF Moves
<1>3. CASE HookEnd
  BY <1>3 DEF HookEnd, Pops
<1>4. QED
  BY <1>1, <1>2, <1>3 DEF HookStep, HookBegin, TickBegin, Events

\* The main chunk of an addon that the game loop reloads.
LEMMA ReloadMoves ==
    ASSUME TypeOK, NEW k \in Keys, TickReload(k)
    PROVE  /\ Top.kind = "tick"
           /\ \E f : Moves(f, "main") /\ stack' = Append(Moved(f), ScriptFrame("main", k))
<1> USE DEF TopIs
<1>1. Depth > 0 /\ Top.kind = "tick" /\ Top \in Frame
  BY PopTop DEF TickReload
<1> DEFINE f == [Top EXCEPT !.at = "init", !.key = k, !.todo = Top.todo \ {k}]
<1>2. f \in Frame /\ f.kind = Top.kind
  BY <1>1 DEF Frame, WorksOnAddon, Places
<1>3. [stack EXCEPT ![Depth].at = "init", ![Depth].key = k, ![Depth].todo = @ \ {k}]
         = Moved(f)
  BY <1>1 DEF Moved, Top, TypeOK, Depth
<1>4. stack' = Append(Moved(f), ScriptFrame("main", k))
  BY <1>3 DEF TickReload
<1>5. QED
  BY <1>1, <1>2, <1>4 DEF Moves, Calls

LEMMA TickForms ==
    ASSUME TypeOK, TickStep
    PROVE  /\ Top.kind = "tick"
           /\ \/ \E f : Moves(f, "event")
              \/ \E k \in Keys : TickReload(k) /\ \E f : Moves(f, "main")
              \/ Pops
<1> USE DEF TopIs
<1>1. Depth > 0 /\ Top.kind = "tick" /\ Top \in Frame
  BY PopTop DEF TickStep, TickScan, TickReload, TickSkip, TickOnLoad, TickEnd
<1>2. CASE TickScan
  <2> DEFINE f == [Top EXCEPT !.at = "reload", !.todo = loaded]
  <2>1. f \in Frame /\ f.kind = Top.kind
    BY <1>1 DEF Frame, WorksOnAddon, Places, TypeOK, ScriptKinds
  <2>2. stack' = Moved(f) \/ stack' = Pop
    <3>1. [stack EXCEPT ![Depth].at = "reload", ![Depth].todo = loaded] = Moved(f)
      BY <1>1 DEF Moved, Top, TypeOK, Depth
    <3>2. QED
      BY <1>2, <3>1 DEF TickScan
  <2>3. QED
    BY <1>1, <2>1, <2>2 DEF Moves, Calls, Pops
<1>3. ASSUME NEW k \in Keys, TickReload(k)
      PROVE  \E f : Moves(f, "main")
  BY <1>3, ReloadMoves
<1>4. ASSUME NEW k \in Keys, TickSkip(k)
      PROVE  \E f : Moves(f, "event")
  <2> DEFINE f == [Top EXCEPT !.todo = Top.todo \ {k}]
  <2>1. f \in Frame /\ f.kind = Top.kind
    BY <1>1 DEF Frame, WorksOnAddon
  <2>2. stack' = Moved(f)
    BY <1>1, <1>4 DEF TickSkip, Moved, Top, TypeOK, Depth
  <2>3. QED
    BY <1>1, <2>1, <2>2 DEF Moves, Calls
<1>5. CASE TickOnLoad
  <2> DEFINE f == [Top EXCEPT !.at = "reload", !.key = NoKey]
  <2>1. f \in Frame /\ f.kind = Top.kind /\ Top.key \in Keys
    BY <1>1, <1>5 DEF TickOnLoad, Frame, WorksOnAddon, Places, ScriptKinds
  <2>2. stack' = InvokeEvent(Moved(f), Top.key, "load")
    <3>1. [stack EXCEPT ![Depth].at = "reload", ![Depth].key = NoKey] = Moved(f)
      BY <1>1 DEF Moved, Top, TypeOK, Depth
    <3>2. QED
      BY <1>5, <3>1 DEF TickOnLoad
  <2> HIDE DEF f
  <2>3. QED
    BY <1>1, <2>1, <2>2, InvokeCalls DEF Moves
<1>6. CASE TickEnd
  BY <1>1, <1>6 DEF TickEnd, Pops
<1>7. QED
  BY <1>1, <1>2, <1>3, <1>4, <1>5, <1>6 DEF TickStep

LEMMA LoadForms ==
    ASSUME TypeOK
    PROVE  /\ \A k \in Keys : LoadBegin(k) =>
                 \E f : /\ Enters(f, "main") /\ f.kind = "load" /\ f.key = k /\ f.at = "init"
                        /\ stack' = Append(Append(stack, f), ScriptFrame("main", k))
           /\ LoadInitialized =>
                 /\ Top.kind = "load" /\ Top.key \in Keys
                 /\ \/ Pops /\ state[Top.key] # "Ok"
                    \/ \E f : Moves(f, "event") /\ f.key = Top.key /\ f.at = "add"
           /\ LoadAdd => Pops /\ Top.kind = "load" /\ Top.key \in Keys
<1> USE DEF TopIs
<1>1. ASSUME NEW k \in Keys, LoadBegin(k)
      PROVE  \E f : /\ Enters(f, "main") /\ f.kind = "load" /\ f.key = k /\ f.at = "init"
                    /\ stack' = Append(Append(stack, f), ScriptFrame("main", k))
  <2> DEFINE f == HostFrame("load", k, "init", {}, "load")
             g == ScriptFrame("main", k)
  <2>1. f \in Frame /\ f.kind = "load" /\ f.key = k /\ f.at = "init"
    BY HostFrameIsFrame DEF ScriptKinds, HostKinds, ManageKinds, Places, Events, HostFrame
  <2>2. g \in Frame /\ stack \in Seq(Frame)
    BY ScriptFrameIsFrame DEF ScriptKinds, TypeOK
  <2> HIDE DEF f, g
  <2>3. stack \o <<f, g>> = Append(Append(stack, f), g)
    BY <2>1, <2>2
  <2>4. stack' = Append(Append(stack, f), g)
    BY <1>1, <2>3 DEF LoadBegin, f, g
  <2>5. Enters(f, "main")
    BY <2>1, <2>4 DEF Enters, Calls, g
  <2>6. QED
    BY <2>1, <2>4, <2>5 DEF g
<1>2. ASSUME LoadInitialized \/ LoadAdd
      PROVE  Depth > 0 /\ Top \in Frame /\ Top.kind = "load" /\ Top.key \in Keys
  BY <1>2, PopTop DEF LoadInitialized, LoadAdd, Frame, WorksOnAddon
<1>3. ASSUME LoadInitialized
      PROVE  \/ Pops /\ state[Top.key] # "Ok"
             \/ \E f : Moves(f, "event") /\ f.key = Top.key /\ f.at = "add"
  <2> DEFINE f == [Top EXCEPT !.at = "add"]
  <2>1. f \in Frame /\ f.kind = Top.kind /\ f.key = Top.key /\ f.at = "add"
    BY <1>2, <1>3 DEF Frame, WorksOnAddon, Places
  <2>2. GoTo("add") = Moved(f)
    BY <1>2, <1>3 DEF GoTo, Moved, Top, TypeOK, Depth
  <2> HIDE DEF f
  <2>3. CASE state[Top.key] = "Ok"
    <3>1. stack' = InvokeEvent(Moved(f), Top.key, "load")
      BY <1>3, <2>2, <2>3 DEF LoadInitialized
    <3>2. QED
      BY <1>2, <1>3, <2>1, <3>1, InvokeCalls DEF Moves
  <2>4. CASE state[Top.key] # "Ok"
    BY <1>2, <1>3, <2>4 DEF LoadInitialized, Pops
  <2>5. QED
    BY <2>3, <2>4
<1>4. LoadAdd => Pops
  BY DEF LoadAdd, Pops
<1>5. QED
  BY <1>1, <1>2, <1>3, <1>4

\* /addon unloadall and Dispose enumerate the addons, visit one and go on.
LEMMA EnterForm ==
    ASSUME TypeOK, NEW kind \in {"unloadall", "dispose"},
           stack' = Append(stack, HostFrame(kind, NoKey, "visit", loaded, "load"))
    PROVE  \E f : Enters(f, "event") /\ f.kind = kind /\ f.at = "visit" /\ f.todo = loaded
<1> DEFINE f == HostFrame(kind, NoKey, "visit", loaded, "load")
<1>1. f \in Frame /\ f.kind = kind /\ f.at = "visit" /\ f.todo = loaded
  BY HostFrameIsFrame DEF TypeOK, HostKinds, ManageKinds, ScriptKinds, Places, Events, HostFrame
<1>2. QED
  BY <1>1 DEF Enters, Calls

LEMMA VisitForm ==
    ASSUME TypeOK, Depth > 0, Top.kind \in {"unloadall", "dispose"}, NEW k \in Keys,
           stack' = InvokeEvent([stack EXCEPT ![Depth].at = "release", ![Depth].key = k,
                                              ![Depth].todo = @ \ {k}], k, "unload")
    PROVE  \E f : /\ Moves(f, "event") /\ f.at = "release" /\ f.key = k
                  /\ f.todo = Top.todo \ {k}
<1> DEFINE f == [Top EXCEPT !.at = "release", !.key = k, !.todo = Top.todo \ {k}]
<1>1. f \in Frame /\ f.kind = Top.kind
      /\ f.at = "release" /\ f.key = k /\ f.todo = Top.todo \ {k}
  BY PopTop DEF Frame, WorksOnAddon, Places
<1>2. [stack EXCEPT ![Depth].at = "release", ![Depth].key = k, ![Depth].todo = @ \ {k}]
         = Moved(f)
  BY DEF Moved, Top, TypeOK, Depth
<1> HIDE DEF f
<1>3. Calls(Moved(f), "event")
  BY <1>2, InvokeCalls
<1>4. QED
  BY <1>1, <1>3 DEF Moves

LEMMA GoOnForm ==
    ASSUME TypeOK, Depth > 0, Top.kind \in {"unloadall", "dispose"},
           Top.at \in {"release", "notify"},
           stack' = [stack EXCEPT ![Depth].at = "visit", ![Depth].key = NoKey]
    PROVE  \E f : /\ Moves(f, "event") /\ f.at = "visit" /\ f.todo = Top.todo
                  /\ stack' = Moved(f)
<1> DEFINE f == [Top EXCEPT !.at = "visit", !.key = NoKey]
<1>1. f \in Frame /\ f.kind = Top.kind
      /\ f.at = "visit" /\ f.todo = Top.todo
  BY PopTop DEF Frame, WorksOnAddon, Places, ScriptKinds
<1>2. stack' = Moved(f)
  BY DEF Moved, Top, TypeOK, Depth
<1>3. QED
  BY <1>1, <1>2 DEF Moves, Calls

LEMMA UnloadForms ==
    ASSUME TypeOK
    PROVE  /\ \A k \in Keys : UnloadBegin(k) =>
                 \E f : Enters(f, "event") /\ f.kind = "unload" /\ f.at = "release" /\ f.key = k
           /\ \A k \in Keys : UnloadAllVisit(k) =>
                 /\ Top.kind = "unloadall" /\ Top.at = "visit"
                 /\ \/ /\ k \in loaded
                       /\ \E f : Moves(f, "event") /\ f.at = "release" /\ f.key = k
                    \/ /\ k \notin loaded
                       /\ \E f : Moves(f, "event") /\ f.at = "visit" /\ stack' = Moved(f)
           /\ UnloadAllBegin =>
                 \E f : Enters(f, "event") /\ f.kind = "unloadall" /\ f.at = "visit"
           /\ UnloadRelease =>
                 /\ Depth > 0 /\ Top.kind \in {"unload", "unloadall"} /\ Top.at = "release"
                 /\ Top.key \in Keys
                 /\ \E f : Moves(f, "event") /\ f.at = "notify" /\ f.key = Top.key
                          /\ stack' = Moved(f)
           /\ NotifyThrows =>
                 Pops /\ Top.kind \in {"unload", "unloadall"} /\ Top.at = "notify"
           /\ UnloadNotified =>
                 /\ Depth > 0 /\ Top.kind \in {"unload", "unloadall"} /\ Top.at = "notify"
                 /\ Top.key \in Keys
                 /\ \/ Pops
                    \/ \E f : Moves(f, "event") /\ f.at = "visit" /\ stack' = Moved(f)
           /\ UnloadAllEnd => Pops /\ Top.kind = "unloadall" /\ Top.at = "visit"
<1> USE DEF TopIs
<1>1. ASSUME NEW k \in Keys, UnloadBegin(k)
      PROVE  \E f : Enters(f, "event") /\ f.kind = "unload" /\ f.at = "release" /\ f.key = k
  <2> DEFINE f == HostFrame("unload", k, "release", {}, "load")
  <2>1. f \in Frame /\ f.kind = "unload" /\ f.at = "release" /\ f.key = k
    BY HostFrameIsFrame DEF HostKinds, ManageKinds, ScriptKinds, Places, Events, HostFrame
  <2>2. stack' = InvokeEvent(Append(stack, f), k, "unload")
    BY <1>1 DEF UnloadBegin
  <2> HIDE DEF f
  <2>3. QED
    BY <2>1, <2>2, InvokeCalls DEF Enters
<1>2. ASSUME NEW k \in Keys, UnloadAllVisit(k)
      PROVE  /\ Top.kind = "unloadall" /\ Top.at = "visit"
             /\ \/ /\ k \in loaded
                   /\ \E f : Moves(f, "event") /\ f.at = "release" /\ f.key = k
                \/ /\ k \notin loaded
                   /\ \E f : Moves(f, "event") /\ f.at = "visit" /\ stack' = Moved(f)
  <2>1. TopIs({"unloadall"}, "visit") /\ Depth > 0 /\ Top \in Frame
    BY <1>2, PopTop DEF UnloadAllVisit
  <2>2. CASE k \in loaded
    <3>1. stack' = InvokeEvent([stack EXCEPT ![Depth].at = "release", ![Depth].key = k,
                                             ![Depth].todo = @ \ {k}], k, "unload")
      BY <1>2, <2>2 DEF UnloadAllVisit
    <3>2. \E f : Moves(f, "event") /\ f.at = "release" /\ f.key = k
      BY <2>1, <3>1, VisitForm
    <3>3. QED
      BY <2>1, <2>2, <3>2
  <2>3. CASE k \notin loaded
    <3> DEFINE f == [Top EXCEPT !.todo = Top.todo \ {k}]
    <3>1. f \in Frame /\ f.kind = Top.kind /\ f.at = "visit"
      BY <2>1 DEF Frame, WorksOnAddon
    <3>2. stack' = Moved(f)
      BY <1>2, <2>1, <2>3 DEF UnloadAllVisit, Moved, Top, TypeOK, Depth
    <3>3. QED
      BY <2>1, <2>3, <3>1, <3>2 DEF Moves, Calls
  <2>4. QED
    BY <2>1, <2>2, <2>3
<1>3. ASSUME UnloadAllBegin
      PROVE  \E f : Enters(f, "event") /\ f.kind = "unloadall" /\ f.at = "visit"
  BY <1>3, EnterForm DEF UnloadAllBegin
<1>4. ASSUME UnloadRelease
      PROVE  /\ Depth > 0 /\ Top.kind \in {"unload", "unloadall"} /\ Top.at = "release"
             /\ Top.key \in Keys
             /\ \E f : Moves(f, "event") /\ f.at = "notify" /\ f.key = Top.key
                      /\ stack' = Moved(f)
  <2> DEFINE f == [Top EXCEPT !.at = "notify"]
  <2>1. Depth > 0 /\ Top.kind \in {"unload", "unloadall"} /\ Top.at = "release" /\ Top \in Frame
    BY <1>4, PopTop DEF UnloadRelease
  <2>2. Top.key \in Keys
    BY <2>1 DEF Frame, WorksOnAddon
  <2>3. f \in Frame /\ f.kind = Top.kind /\ f.at = "notify" /\ f.key = Top.key
    BY <2>1 DEF Frame, WorksOnAddon, Places
  <2>4. stack' = Moved(f)
    BY <1>4 DEF UnloadRelease, GoTo, Moved, Top
  <2> HIDE DEF f
  <2>5. QED
    BY <2>1, <2>2, <2>3, <2>4 DEF Moves, Calls
<1>5. ASSUME UnloadNotified
      PROVE  /\ Depth > 0 /\ Top.kind \in {"unload", "unloadall"} /\ Top.at = "notify"
             /\ Top.key \in Keys
             /\ \/ Pops
                \/ \E f : Moves(f, "event") /\ f.at = "visit" /\ stack' = Moved(f)
  <2>1. Depth > 0 /\ Top.kind \in {"unload", "unloadall"} /\ Top.at = "notify"
    BY <1>5 DEF UnloadNotified
  <2>2. Top.key \in Keys
    BY <2>1, PopTop DEF Frame, WorksOnAddon
  <2>3. stack' = Pop \/ (Top.kind = "unloadall"
                         /\ stack' = [stack EXCEPT ![Depth].at = "visit", ![Depth].key = NoKey])
    BY <1>5 DEF UnloadNotified
  <2>4. QED
    BY <2>1, <2>2, <2>3, GoOnForm DEF Pops
<1>6. UnloadAllEnd => Pops /\ Top.kind = "unloadall" /\ Top.at = "visit"
  BY DEF UnloadAllEnd, Pops
<1>7. NotifyThrows => Pops /\ Top.kind \in {"unload", "unloadall"} /\ Top.at = "notify"
  BY DEF NotifyThrows, Pops
<1>8. QED
  BY <1>1, <1>2, <1>3, <1>4, <1>5, <1>6, <1>7

LEMMA ReloadForms ==
    ASSUME TypeOK
    PROVE  /\ \A k \in Keys : ReloadBegin(k) =>
                 \E f : Enters(f, "event") /\ f.kind = "reload" /\ f.key = k
           /\ ReloadReinit =>
                 /\ Top.kind = "reload" /\ Top.key \in Keys
                 /\ \E f : /\ Moves(f, "main") /\ f.key = Top.key
                           /\ stack' = Append(Moved(f), ScriptFrame("main", Top.key))
           /\ ReloadThrows \/ ReloadEnd => Pops /\ Top.kind = "reload"
           /\ ReloadOnLoad => Top.kind = "reload" /\ \E f : Moves(f, "event") /\ f.key = Top.key
<1> USE DEF TopIs
<1>1. ASSUME NEW k \in Keys, ReloadBegin(k)
      PROVE  \E f : Enters(f, "event") /\ f.kind = "reload" /\ f.key = k
  <2> DEFINE f == HostFrame("reload", k, "reinit", {}, "load")
  <2>1. f \in Frame /\ f.kind = "reload" /\ f.key = k
    BY HostFrameIsFrame DEF HostKinds, ManageKinds, ScriptKinds, Places, Events, HostFrame
  <2>2. stack' = InvokeEvent(Append(stack, f), k, "unload")
    BY <1>1 DEF ReloadBegin
  <2> HIDE DEF f
  <2>3. QED
    BY <2>1, <2>2, InvokeCalls DEF Enters
<1>2. ASSUME Depth > 0, Top.kind = "reload", NEW at \in Places
      PROVE  LET f == [Top EXCEPT !.at = at] IN
             /\ Top.key \in Keys /\ f \in Frame
             /\ f.kind = Top.kind /\ f.key = Top.key
             /\ GoTo(at) = Moved(f)
  <2>1. Top \in Frame /\ Top.key \in Keys
    BY <1>2, PopTop DEF Frame, WorksOnAddon
  <2>2. [Top EXCEPT !.at = at] \in Frame
    BY <2>1 DEF Frame, WorksOnAddon
  <2>3. QED
    BY <1>2, <2>1, <2>2 DEF GoTo, Moved, Top, TypeOK, Depth, Frame
<1>3. ASSUME ReloadReinit
      PROVE  /\ Top.kind = "reload" /\ Top.key \in Keys
             /\ \E f : /\ Moves(f, "main") /\ f.key = Top.key
                       /\ stack' = Append(Moved(f), ScriptFrame("main", Top.key))
  <2> DEFINE f == [Top EXCEPT !.at = "init"]
  <2>1. Depth > 0 /\ Top.kind = "reload" /\ "init" \in Places
    BY <1>3 DEF ReloadReinit, Places
  <2>2. Top.key \in Keys /\ f \in Frame /\ f.kind = Top.kind
        /\ f.key = Top.key /\ GoTo("init") = Moved(f)
    BY <1>2, <2>1
  <2>3. stack' = Append(Moved(f), ScriptFrame("main", Top.key))
    BY <1>3, <2>2 DEF ReloadReinit
  <2> HIDE DEF f
  <2>4. QED
    BY <2>1, <2>2, <2>3 DEF Moves, Calls
<1>4. ReloadThrows \/ ReloadEnd => Pops /\ Top.kind = "reload"
  BY DEF ReloadThrows, ReloadEnd, Pops
<1>5. ASSUME ReloadOnLoad
      PROVE  Top.kind = "reload" /\ \E f : Moves(f, "event") /\ f.key = Top.key
  <2> DEFINE f == [Top EXCEPT !.at = "end"]
  <2>1. Depth > 0 /\ Top.kind = "reload" /\ "end" \in Places
    BY <1>5 DEF ReloadOnLoad, Places
  <2>2. Top.key \in Keys /\ f \in Frame /\ f.kind = Top.kind
        /\ f.key = Top.key /\ GoTo("end") = Moved(f)
    BY <1>2, <2>1
  <2>3. stack' = InvokeEvent(Moved(f), Top.key, "load")
    BY <1>5, <2>2 DEF ReloadOnLoad
  <2> HIDE DEF f
  <2>4. QED
    BY <2>1, <2>2, <2>3, InvokeCalls DEF Moves
<1>6. QED
  BY <1>1, <1>3, <1>4, <1>5

LEMMA DisposeForms ==
    ASSUME TypeOK
    PROVE  /\ DisposeBegin =>
                 \E f : Enters(f, "event") /\ f.kind = "dispose" /\ f.at = "visit" /\ f.todo = loaded
           /\ \A k \in Keys : DisposeVisit(k) =>
                 /\ Top.kind = "dispose" /\ Top.at = "visit"
                 /\ \E f : /\ Moves(f, "event") /\ f.at = "release" /\ f.key = k
                           /\ f.todo = Top.todo \ {k}
           /\ DisposeRelease =>
                 /\ Top.kind = "dispose" /\ Top.at = "release" /\ Top.key \in Keys
                 /\ \E f : /\ Moves(f, "event") /\ f.at = "visit" /\ f.todo = Top.todo
                           /\ stack' = Moved(f)
           /\ DisposeEnd => Pops /\ Top.kind = "dispose"
<1> USE DEF TopIs
<1>1. ASSUME DisposeBegin
      PROVE  \E f : Enters(f, "event") /\ f.kind = "dispose" /\ f.at = "visit" /\ f.todo = loaded
  BY <1>1, EnterForm DEF DisposeBegin
<1>2. ASSUME NEW k \in Keys, DisposeVisit(k)
      PROVE  /\ Top.kind = "dispose" /\ Top.at = "visit"
             /\ \E f : /\ Moves(f, "event") /\ f.at = "release" /\ f.key = k
                       /\ f.todo = Top.todo \ {k}
  <2>1. Depth > 0 /\ Top.kind = "dispose" /\ Top.at = "visit"
    BY <1>2 DEF DisposeVisit
  <2>2. stack' = InvokeEvent([stack EXCEPT ![Depth].at = "release", ![Depth].key = k,
                                           ![Depth].todo = @ \ {k}], k, "unload")
    BY <1>2 DEF DisposeVisit
  <2>3. QED
    BY <2>1, <2>2, VisitForm
<1>3. ASSUME DisposeRelease
      PROVE  /\ Top.kind = "dispose" /\ Top.at = "release" /\ Top.key \in Keys
             /\ \E f : /\ Moves(f, "event") /\ f.at = "visit" /\ f.todo = Top.todo
                       /\ stack' = Moved(f)
  <2>1. Depth > 0 /\ Top.kind = "dispose" /\ Top.at = "release"
    BY <1>3 DEF DisposeRelease
  <2>2. Top.key \in Keys
    BY <2>1, PopTop DEF Frame, WorksOnAddon
  <2>3. stack' = [stack EXCEPT ![Depth].at = "visit", ![Depth].key = NoKey]
    BY <1>3 DEF DisposeRelease
  <2>4. QED
    BY <2>1, <2>2, <2>3, GoOnForm
<1>4. DisposeEnd => Pops /\ Top.kind = "dispose"
  BY DEF DisposeEnd, Pops
<1>5. QED
  BY <1>1, <1>2, <1>3, <1>4

LEMMA ScriptForms ==
    ASSUME TypeOK
    PROVE  /\ \A c \in Commands, k \in Keys : CallbackInvoke(c, k) =>
                 \E f : Enters(f, "event") /\ f.kind = "command"
           /\ \A ret \in Returns : ScriptReturn(ret) =>
                 /\ Depth > 0 /\ Top.kind \in ScriptKinds /\ Top.key \in Keys
                 /\ Top.kind = "main" => lua[Top.key]
                 /\ \/ Pops
                    \/ /\ Depth > 1 /\ Top.kind = "event" /\ stack[Depth - 1].kind = "hook"
                       /\ Aborts
           /\ ScriptFails =>
                 /\ Pops /\ Top.kind \in ScriptKinds /\ Top.key \in Keys
<1>1. ASSUME NEW c \in Commands, NEW k \in Keys, CallbackInvoke(c, k)
      PROVE  \E f : Enters(f, "event") /\ f.kind = "command"
  <2> DEFINE f == ScriptFrame("command", k)
  <2>1. f \in Frame /\ f.kind = "command"
    BY ScriptFrameIsFrame DEF ScriptKinds, ScriptFrame, HostFrame
  <2>2. stack' = Append(stack, f)
    BY <1>1 DEF CallbackInvoke
  <2> HIDE DEF f
  <2>3. QED
    BY <2>1, <2>2 DEF Enters, Calls
<1>2. ASSUME ScriptOnTop
      PROVE  Depth > 0 /\ Top.kind \in ScriptKinds /\ Top.key \in Keys
  BY <1>2, PopTop DEF ScriptOnTop, Frame, WorksOnAddon
<1>3. ASSUME NEW ret \in Returns, ScriptReturn(ret)
      PROVE  \/ Pops
             \/ /\ Depth > 1 /\ Top.kind = "event" /\ stack[Depth - 1].kind = "hook"
                /\ Aborts
  <2>1. Depth > 0 /\ Depth \in Nat
    BY <1>2, <1>3 DEF ScriptReturn, TypeOK, Depth
  <2>2. \/ stack' = Pop
        \/ /\ Depth - 1 > 0 /\ Top.kind = "event" /\ stack[Depth - 1].kind = "hook"
           /\ Aborts
    BY <1>3 DEF ScriptReturn, Aborts
  <2>3. QED
    BY <2>1, <2>2 DEF Pops
<1>4. ScriptFails => Pops
  BY <1>2 DEF ScriptFails, Pops
<1>5. QED
  BY <1>1, <1>2, <1>3, <1>4 DEF ScriptReturn, ScriptFails

\* What the forms leave of the frames below, and what they add.
LEMMA EntersFacts ==
    ASSUME TypeOK, NEW f, NEW kind \in ScriptKinds, Enters(f, kind)
    PROVE  /\ f \in Frame /\ Len(stack') \in {Depth + 1, Depth + 2}
           /\ \A i \in 1..Depth : stack'[i] = stack[i]
           /\ stack'[Depth + 1] = f
           /\ Len(stack') = Depth + 2 =>
                 stack'[Depth + 2].kind = kind /\ stack'[Depth + 2].key \in Keys
<1> DEFINE t == Append(stack, f)
<1>1. stack \in Seq(Frame) /\ f \in Frame /\ Depth = Len(stack) /\ Depth \in Nat
  BY DEF TypeOK, Enters, Depth
<1>2. t \in Seq(Frame)
  BY <1>1
<1>3. Len(t) = Depth + 1 /\ t[Depth + 1] = f /\ \A i \in 1..Depth : t[i] = stack[i]
  BY <1>1, PushFrame
<1>4. Calls(t, kind)
  BY DEF Enters
<1> HIDE DEF t
<1>5. /\ Len(stack') \in {Len(t), Len(t) + 1}
      /\ \A i \in 1..Len(t) : stack'[i] = t[i]
      /\ Len(stack') = Len(t) + 1 =>
            stack'[Len(t) + 1].kind = kind /\ stack'[Len(t) + 1].key \in Keys
  BY <1>2, <1>4, CallsFacts
<1>6. Depth + 1 + 1 = Depth + 2 /\ 1..Depth \subseteq 1..Depth + 1 /\ Depth + 1 \in 1..Depth + 1
  BY <1>1
<1>7. QED
  BY <1>1, <1>3, <1>5, <1>6

LEMMA MovesFacts ==
    ASSUME TypeOK, NEW f, NEW kind \in ScriptKinds, Moves(f, kind)
    PROVE  /\ f \in Frame /\ Depth > 0 /\ Len(stack') \in {Depth, Depth + 1}
           /\ \A i \in 1..Depth - 1 : stack'[i] = stack[i]
           /\ stack'[Depth] = f
           /\ Len(stack') = Depth + 1 =>
                 stack'[Depth + 1].kind = kind /\ stack'[Depth + 1].key \in Keys
<1>1. Depth \in Nat /\ Depth > 0 /\ f \in Frame
  BY DEF TypeOK, Moves, Depth
<1>2. /\ Moved(f) \in Seq(Frame) /\ Len(Moved(f)) = Depth /\ Moved(f)[Depth] = f
      /\ \A i \in 1..Depth - 1 : Moved(f)[i] = stack[i]
  BY <1>1, MovedFacts
<1>3. /\ Len(stack') \in {Depth, Depth + 1}
      /\ \A i \in 1..Depth : stack'[i] = Moved(f)[i]
      /\ Len(stack') = Depth + 1 =>
            stack'[Depth + 1].kind = kind /\ stack'[Depth + 1].key \in Keys
  BY <1>2, CallsFacts DEF Moves
<1>4. Depth \in 1..Depth /\ 1..Depth - 1 \subseteq 1..Depth
  BY <1>1
<1>5. QED
  BY <1>1, <1>2, <1>3, <1>4

LEMMA AbortsFacts ==
    ASSUME TypeOK, Depth > 1, Aborts
    PROVE  /\ Len(stack') = Depth - 2 /\ stack' \in Seq(Frame)
           /\ \A i \in 1..Depth - 2 : stack'[i] = stack[i]
<1> DEFINE n == Depth - 1 - 1
<1>1. stack \in Seq(Frame) /\ Depth = Len(stack) /\ Depth \in Nat /\ n \in Nat /\ n = Depth - 2
      /\ \A i \in 1..n : stack[i] \in Frame
  BY DEF TypeOK, Depth
<1>2. stack' = SubSeq(stack, 1, n)
  BY DEF Aborts
<1> HIDE DEF n
<1>3. /\ SubSeq(stack, 1, n) \in Seq(Frame)
      /\ Len(SubSeq(stack, 1, n)) = IF 1 <= n THEN n - 1 + 1 ELSE 0
      /\ \A i \in 1..n - 1 + 1 : SubSeq(stack, 1, n)[i] = stack[1 + i - 1]
  BY <1>1, SubSeqProperties
<1>4. n - 1 + 1 = n /\ \A i \in 1..n : i \in Int /\ 1 + i - 1 = i
  BY <1>1
<1>5. Len(SubSeq(stack, 1, n)) = n
  BY <1>1, <1>3, <1>4
<1>6. \A i \in 1..n : SubSeq(stack, 1, n)[i] = stack[i]
  BY <1>3, <1>4
<1>7. QED
  BY <1>1, <1>2, <1>3, <1>5, <1>6

\* Every step of the host has one of the forms.
LEMMA StepForms ==
    ASSUME TypeOK, [Next]_vars
    PROVE  \/ stack' = stack
           \/ Pops
           \/ \E f : \E kind \in ScriptKinds : Enters(f, kind) \/ Moves(f, kind)
           \/ Depth > 1 /\ Aborts
<1>0. {"main", "event"} \subseteq ScriptKinds
  BY DEF ScriptKinds
<1>1. CASE HookStep \/ TickBegin
  BY <1>0, <1>1, HookForms
<1>2. CASE TickStep
  BY <1>0, <1>2, TickForms
<1>3. CASE LoadStep
  BY <1>0, <1>3, LoadForms DEF LoadStep
<1>4. CASE UnloadStep
  BY <1>0, <1>4, UnloadForms DEF UnloadStep
<1>5. CASE ReloadStep
  BY <1>0, <1>5, ReloadForms DEF ReloadStep
<1>6. CASE DisposeStep
  BY <1>0, <1>6, DisposeForms DEF DisposeStep
<1>7. CASE CallbackStep \/ ScriptStep
  <2>1. CASE \/ \E c \in Commands, k \in Keys : CallbackDrop(c, k)
             \/ \E e \in Events : RegisterEvent(e)
             \/ \E n \in Names : RegisterCommand(n)
    BY <2>1 DEF CallbackDrop, RegisterEvent, RegisterCommand
  <2>2. QED
    BY <1>0, <1>7, <2>1, ScriptForms DEF CallbackStep, ScriptStep, RegisterRefused
<1>8. CASE FreeStep \/ UNCHANGED vars
  BY <1>8 DEF FreeStep, ReloadConfig, PluginAddsCommand, vars
<1>9. QED
  BY <1>1, <1>2, <1>3, <1>4, <1>5, <1>6, <1>7, <1>8 DEF Next

-----------------------------------------------------------------------------
(* Quiet steps *)

\* The frames the invariants are about: those that load an addon, those that are
\* about to release one they have taken out of the dictionary, main chunks, and
\* that of Dispose.
Adding(f)    == f.kind = "load"
Removing(f)  == f.kind \in {"unload", "unloadall"} /\ f.at \in {"release", "notify"}
Job(f)       == Adding(f) \/ Removing(f)
Plain(f)     == f.kind \notin {"main", "dispose"} /\ ~Job(f)
Disposing(s) == Len(s) > 0 /\ s[1].kind = "dispose"

\* The lowest n frames stay what they are.
Same(f, g) == g.kind = f.kind /\ g.key = f.key /\ g.at = f.at /\ g.todo = f.todo
Cut(n) == /\ n \in 0..Depth /\ n <= Len(stack')
          /\ \A i \in 1..n : Same(stack[i], stack'[i])

\* Only plain frames come and go.
QuietAbove(n) == /\ \A i \in n + 1..Depth : Plain(stack[i])
                 /\ \A i \in n + 1..Len(stack') : Plain(stack'[i])
QuietStep == /\ \E n \in 0..Depth : Cut(n) /\ QuietAbove(n)
             /\ UNCHANGED <<loaded, state, lua>>

LEMMA DepthIsNat == ASSUME TypeOK PROVE Depth \in Nat /\ Depth = Len(stack) /\ stack \in Seq(Frame)
BY DEF TypeOK, Depth

LEMMA CutOfEnters ==
    ASSUME TypeOK, NEW f, NEW kind \in ScriptKinds, Enters(f, kind)
    PROVE  /\ Cut(Depth) /\ Depth \in 0..Depth
           /\ stack'[Depth + 1] = f
           /\ \A i \in Depth + 1..Len(stack') : i = Depth + 1 \/ (i = Depth + 2 /\ stack'[i].kind = kind)
<1>1. Depth \in Nat
  BY DepthIsNat
<1>2. /\ Len(stack') \in {Depth + 1, Depth + 2}
      /\ \A i \in 1..Depth : stack'[i] = stack[i]
      /\ stack'[Depth + 1] = f
      /\ Len(stack') = Depth + 2 => stack'[Depth + 2].kind = kind
  BY EntersFacts
<1>3. Depth \in 0..Depth /\ Depth <= Len(stack')
  BY <1>1, <1>2
<1>4. Cut(Depth)
  BY <1>2, <1>3 DEF Cut, Same
<1>5. \A i \in Depth + 1..Len(stack') : i = Depth + 1 \/ (i = Depth + 2 /\ stack'[i].kind = kind)
  <2> SUFFICES ASSUME NEW i \in Depth + 1..Len(stack'), i # Depth + 1
               PROVE  i = Depth + 2 /\ stack'[i].kind = kind
    OBVIOUS
  <2>1. i = Depth + 2 /\ Len(stack') = Depth + 2
    BY <1>1, <1>2
  <2>2. QED
    BY <1>2, <2>1
<1>6. QED
  BY <1>2, <1>3, <1>4, <1>5

LEMMA CutOfMoves ==
    ASSUME TypeOK, NEW f, NEW kind \in ScriptKinds, Moves(f, kind)
    PROVE  /\ Depth > 0 /\ Cut(Depth - 1) /\ Depth - 1 \in 0..Depth
           /\ stack'[Depth] = f
           /\ \A i \in Depth..Len(stack') : i = Depth \/ (i = Depth + 1 /\ stack'[i].kind = kind)
<1>1. Depth \in Nat
  BY DepthIsNat
<1>2. /\ Depth > 0 /\ Len(stack') \in {Depth, Depth + 1}
      /\ \A i \in 1..Depth - 1 : stack'[i] = stack[i]
      /\ stack'[Depth] = f
      /\ Len(stack') = Depth + 1 => stack'[Depth + 1].kind = kind
  BY MovesFacts
<1>3. Depth - 1 \in 0..Depth /\ Depth - 1 <= Len(stack')
  BY <1>1, <1>2
<1>4. Cut(Depth - 1)
  BY <1>2, <1>3 DEF Cut, Same
<1>5. \A i \in Depth..Len(stack') : i = Depth \/ (i = Depth + 1 /\ stack'[i].kind = kind)
  <2> SUFFICES ASSUME NEW i \in Depth..Len(stack'), i # Depth
               PROVE  i = Depth + 1 /\ stack'[i].kind = kind
    OBVIOUS
  <2>1. i = Depth + 1 /\ Len(stack') = Depth + 1
    BY <1>1, <1>2
  <2>2. QED
    BY <1>2, <2>1
<1>6. QED
  BY <1>2, <1>3, <1>4, <1>5

LEMMA CutOfPops ==
    ASSUME TypeOK, Pops
    PROVE  Depth > 0 /\ Cut(Depth - 1) /\ Depth - 1 \in 0..Depth /\ Len(stack') = Depth - 1
<1>1. Depth \in Nat /\ Depth > 0
  BY DepthIsNat DEF Pops
<1>2. Len(stack') = Depth - 1 /\ \A i \in 1..Depth - 1 : stack'[i] = stack[i]
  BY PopFacts DEF Pops
<1>3. QED
  BY <1>1, <1>2 DEF Cut, Same

LEMMA QuietForms ==
    ASSUME TypeOK, UNCHANGED <<loaded, state, lua>>,
           \/ stack' = stack
           \/ Pops /\ Plain(Top)
           \/ \E f : Enters(f, "event") /\ Plain(f)
           \/ \E f : Moves(f, "event") /\ Plain(f) /\ Plain(Top)
           \/ /\ Depth > 1 /\ Top.kind = "event" /\ stack[Depth - 1].kind = "hook"
              /\ Aborts
    PROVE  QuietStep
<1>1. Depth \in Nat /\ Depth = Len(stack) /\ "event" \in ScriptKinds
  BY DepthIsNat DEF ScriptKinds
<1>2. CASE stack' = stack
  <2>1. Cut(Depth) /\ QuietAbove(Depth) /\ Depth \in 0..Depth
    BY <1>1, <1>2 DEF Cut, QuietAbove, Same
  <2>2. QED
    BY <2>1 DEF QuietStep
<1>3. CASE Pops /\ Plain(Top)
  <2>1. Cut(Depth - 1) /\ Depth - 1 \in 0..Depth /\ Len(stack') = Depth - 1
    BY <1>3, CutOfPops
  <2>2. QuietAbove(Depth - 1)
    BY <1>1, <1>3, <2>1 DEF QuietAbove, Top
  <2>3. QED
    BY <2>1, <2>2 DEF QuietStep
<1>4. ASSUME NEW f, Enters(f, "event"), Plain(f)
      PROVE  QuietStep
  <2>1. QuietAbove(Depth)
    BY <1>1, <1>4, CutOfEnters DEF QuietAbove, Plain, Job, Adding, Removing
  <2>2. QED
    BY <1>1, <1>4, <2>1, CutOfEnters DEF QuietStep
<1>5. ASSUME NEW f, Moves(f, "event"), Plain(f), Plain(Top)
      PROVE  QuietStep
  <2>1. Cut(Depth - 1) /\ Depth - 1 \in 0..Depth
    BY <1>1, <1>5, CutOfMoves
  <2>2. \A i \in Depth..Len(stack') : Plain(stack'[i])
    BY <1>1, <1>5, CutOfMoves DEF Plain, Job, Adding, Removing
  <2>3. QuietAbove(Depth - 1)
    BY <1>1, <1>5, <2>2 DEF QuietAbove, Top
  <2>4. QED
    BY <2>1, <2>3 DEF QuietStep
<1>6. ASSUME Depth > 1, Top.kind = "event", stack[Depth - 1].kind = "hook", Aborts
      PROVE  QuietStep
  <2>1. Len(stack') = Depth - 2 /\ \A i \in 1..Depth - 2 : stack'[i] = stack[i]
    BY <1>6, AbortsFacts
  <2>2. Cut(Depth - 2) /\ Depth - 2 \in 0..Depth
    BY <1>1, <1>6, <2>1 DEF Cut, Same
  <2>3. QuietAbove(Depth - 2)
    <3>1. \A i \in Depth - 2 + 1..Depth : i = Depth - 1 \/ i = Depth
      BY <1>1
    <3>2. QED
      BY <1>1, <1>6, <2>1, <3>1 DEF QuietAbove, Plain, Job, Adding, Removing, Top
  <2>4. QED
    BY <2>2, <2>3 DEF QuietStep
<1>7. QED
  BY <1>2, <1>3, <1>4, <1>5, <1>6

\* The steps that are not quiet.
LoudStep ==
    \/ \E k \in Keys : \/ TickReload(k) \/ LoadBegin(k) \/ UnloadBegin(k)
                       \/ UnloadAllVisit(k) /\ k \in loaded
                       \/ DisposeVisit(k)
    \/ LoadInitialized \/ LoadAdd
    \/ UnloadRelease \/ NotifyThrows \/ UnloadNotified
    \/ ReloadReinit
    \/ DisposeBegin \/ DisposeRelease \/ DisposeEnd
    \/ (\E ret \in Returns : ScriptReturn(ret)) /\ Top.kind = "main"
    \/ ScriptFails

LEMMA StepKinds ==
    ASSUME TypeOK, [Next]_vars
    PROVE  QuietStep \/ LoudStep
<1> USE DEF Plain, Job, Adding, Removing, addonVars
<1>1. CASE HookStep \/ TickBegin
  <2>1. UNCHANGED <<loaded, state, lua>>
    BY <1>1 DEF HookStep, HookBegin, TickBegin, Dispatch, Visit, HookEnd
  <2>2. \/ \E f : Enters(f, "event") /\ Plain(f)
        \/ \E f : Moves(f, "event") /\ Plain(f) /\ Plain(Top)
        \/ Pops /\ Plain(Top)
    BY <1>1, HookForms DEF Moves
  <2>3. QED
    BY <2>1, <2>2, QuietForms
<1>2. CASE TickStep
  <2>1. CASE \E k \in Keys : TickReload(k)
    BY <2>1 DEF LoudStep
  <2>2. CASE ~\E k \in Keys : TickReload(k)
    <3>1. UNCHANGED <<loaded, state, lua>>
      BY <1>2, <2>2 DEF TickStep, TickScan, TickSkip, TickOnLoad, TickEnd
    <3>2. \/ \E f : Moves(f, "event") /\ Plain(f) /\ Plain(Top)
          \/ Pops /\ Plain(Top)
      BY <1>2, <2>2, TickForms DEF Moves
    <3>3. QED
      BY <3>1, <3>2, QuietForms
  <2>3. QED
    BY <2>1, <2>2
<1>3. CASE LoadStep
  BY <1>3 DEF LoadStep, LoudStep
<1>4. CASE UnloadStep
  <2>1. CASE \/ UnloadRelease \/ NotifyThrows \/ UnloadNotified
             \/ \E k \in Keys : UnloadBegin(k)
    BY <2>1 DEF LoudStep
  <2>2. ASSUME NEW k \in Keys, UnloadAllVisit(k), k \notin loaded
        PROVE  QuietStep
    <3>1. UNCHANGED <<loaded, state, lua>>
      BY <2>2 DEF UnloadAllVisit
    <3>2. \E f : Moves(f, "event") /\ Plain(f) /\ Plain(Top)
      BY <2>2, UnloadForms DEF Moves
    <3>3. QED
      BY <3>1, <3>2, QuietForms
  <2>3. CASE UnloadAllBegin \/ UnloadAllEnd
    <3>1. UNCHANGED <<loaded, state, lua>>
      BY <2>3 DEF UnloadAllBegin, UnloadAllEnd
    <3>2. (\E f : Enters(f, "event") /\ Plain(f)) \/ (Pops /\ Plain(Top))
      BY <2>3, UnloadForms
    <3>3. QED
      BY <3>1, <3>2, QuietForms
  <2>4. QED
    BY <1>4, <2>1, <2>2, <2>3 DEF UnloadStep, LoudStep
<1>5. CASE ReloadStep
  <2>1. CASE ReloadReinit
    BY <2>1 DEF LoudStep
  <2>2. CASE (\E k \in Keys : ReloadBegin(k)) \/ ReloadThrows \/ ReloadOnLoad \/ ReloadEnd
    <3>1. UNCHANGED <<loaded, state, lua>>
      BY <2>2 DEF ReloadBegin, ReloadThrows, ReloadOnLoad, ReloadEnd
    <3>2. \/ \E f : Enters(f, "event") /\ Plain(f)
          \/ \E f : Moves(f, "event") /\ Plain(f) /\ Plain(Top)
          \/ Pops /\ Plain(Top)
      BY <2>2, ReloadForms DEF Moves
    <3>3. QED
      BY <3>1, <3>2, QuietForms
  <2>3. QED
    BY <1>5, <2>1, <2>2 DEF ReloadStep
<1>6. CASE DisposeStep
  BY <1>6 DEF DisposeStep, LoudStep
<1>7. CASE CallbackStep
  <2>1. UNCHANGED <<loaded, state, lua>>
    BY <1>7 DEF CallbackStep, CallbackInvoke, CallbackDrop
  <2>2. stack' = stack \/ \E f : Enters(f, "event") /\ Plain(f)
    BY <1>7, ScriptForms DEF CallbackStep, CallbackDrop
  <2>3. QED
    BY <2>1, <2>2, QuietForms
<1>8. CASE ScriptStep
  <2>1. CASE ScriptFails
    BY <2>1 DEF LoudStep
  <2>2. ASSUME NEW ret \in Returns, ScriptReturn(ret)
        PROVE  QuietStep \/ LoudStep
    <3>1. CASE Top.kind = "main"
      BY <2>2, <3>1 DEF LoudStep
    <3>2. CASE Top.kind # "main"
      <4>1. UNCHANGED <<loaded, state, lua>>
        BY <2>2, <3>2 DEF ScriptReturn
      <4>2. Plain(Top)
        BY <2>2, <3>2, ScriptForms DEF ScriptKinds
      <4>3. \/ Pops
            \/ /\ Depth > 1 /\ Top.kind = "event" /\ stack[Depth - 1].kind = "hook"
               /\ Aborts
        BY <2>2, ScriptForms
      <4>4. QED
        BY <4>1, <4>2, <4>3, QuietForms
    <3>3. QED
      BY <3>1, <3>2
  <2>3. CASE (\E e \in Events : RegisterEvent(e)) \/ (\E n \in Names : RegisterCommand(n))
    <3>1. UNCHANGED <<loaded, state, lua>> /\ stack' = stack
      BY <2>3 DEF RegisterEvent, RegisterCommand
    <3>2. QED
      BY <3>1, QuietForms
  <2>4. QED
    BY <1>8, <2>1, <2>2, <2>3 DEF ScriptStep, RegisterRefused
<1>9. CASE FreeStep \/ UNCHANGED vars
  <2>1. UNCHANGED <<loaded, state, lua>> /\ stack' = stack
    BY <1>9 DEF FreeStep, ReloadConfig, PluginAddsCommand, vars
  <2>2. QED
    BY <2>1, QuietForms
<1>10. QED
  BY <1>1, <1>2, <1>3, <1>4, <1>5, <1>6, <1>7, <1>8, <1>9 DEF Next
-----------------------------------------------------------------------------
(* No addon is left half-way *)

\* Dispose is at the bottom of the call stack.  An addon that a frame loads or is
\* about to release is not in the dictionary; the one that is being loaded is not
\* released, and no other frame loads or releases it.
DisposeFirst == \A i \in 1..Depth : stack[i].kind = "dispose" => i = 1
JobsAside    == \A i \in 1..Depth : Job(stack[i]) => stack[i].key \notin loaded
AddingAlive  == \A i \in 1..Depth : Adding(stack[i]) => state[stack[i].key] # "Released"
AddingAlone  == \A i, j \in 1..Depth :
                   Adding(stack[i]) /\ Job(stack[j]) /\ stack[j].key = stack[i].key => j = i
Jobs == DisposeFirst /\ JobsAside /\ AddingAlive /\ AddingAlone

\* The main chunk of an addon in state Loading is on the stack, and what is loaded
\* and released is Dispose's.
LoadingRuns   == \A k \in Keys : state[k] = "Loading" =>
                    \E i \in 1..Depth : stack[i].kind = "main" /\ stack[i].key = k
ReleasedAtEnd == \A k \in loaded : state[k] = "Released" => Disposing(stack)

\* The addons' frames are kept below n; above it, the first new frame may be one
\* of them.
LEMMA JobsKept ==
    ASSUME TypeOK, Jobs, NEW n \in 0..Depth, Cut(n),
           \A i \in 1..n : Job(stack[i]) => stack[i].key \notin loaded',
           \A i \in 1..n : Adding(stack[i]) => state'[stack[i].key] # "Released",
           \A i \in n + 1..Len(stack') : stack'[i].kind = "dispose" => i = 1,
           \A i \in n + 1..Len(stack') : Job(stack'[i]) =>
              /\ i = n + 1
              /\ stack'[i].key \notin loaded'
              /\ Adding(stack'[i]) => state'[stack'[i].key] # "Released"
              /\ \A j \in 1..n : Adding(stack[j]) \/ (Adding(stack'[i]) /\ Job(stack[j]))
                                 => stack[j].key # stack'[i].key
    PROVE  Jobs'
<1>1. Depth \in Nat /\ Depth' = Len(stack') /\ n \in Nat /\ n <= Depth /\ 1..n \subseteq 1..Depth
  BY DepthIsNat DEF Depth
<1>2. \A i \in 1..n : /\ stack'[i].kind = stack[i].kind /\ stack'[i].key = stack[i].key
                      /\ Adding(stack'[i]) <=> Adding(stack[i])
                      /\ Job(stack'[i]) <=> Job(stack[i])
  BY DEF Cut, Same, Adding, Removing, Job
<1>3. \A i \in 1..Len(stack') : i \in 1..n \/ i \in n + 1..Len(stack')
  BY <1>1
<1>4. DisposeFirst'
  BY <1>1, <1>2, <1>3 DEF Jobs, DisposeFirst
<1>5. JobsAside' /\ AddingAlive'
  <2>1. \A i \in 1..Len(stack') : Job(stack'[i]) => stack'[i].key \notin loaded'
    BY <1>2, <1>3
  <2>2. \A i \in 1..Len(stack') : Adding(stack'[i]) => state'[stack'[i].key] # "Released"
    BY <1>2, <1>3 DEF Job
  <2>3. QED
    BY <1>1, <2>1, <2>2 DEF JobsAside, AddingAlive, Job, Adding, Removing
<1>6. AddingAlone'
  <2>1. ASSUME NEW i \in 1..Len(stack'), NEW j \in 1..Len(stack'),
               Adding(stack'[i]), Job(stack'[j]), stack'[j].key = stack'[i].key
        PROVE  j = i
    <3>1. CASE i \in 1..n /\ j \in 1..n
      BY <1>1, <1>2, <2>1, <3>1 DEF Jobs, AddingAlone
    <3>2. CASE i \in 1..n /\ j \in n + 1..Len(stack')
      BY <1>2, <2>1, <3>2
    <3>3. CASE i \in n + 1..Len(stack') /\ j \in 1..n
      BY <1>2, <2>1, <3>3 DEF Job
    <3>4. CASE i \in n + 1..Len(stack') /\ j \in n + 1..Len(stack')
      BY <2>1, <3>4 DEF Job
    <3>5. QED
      BY <1>3, <3>1, <3>2, <3>3, <3>4
  <2>2. QED
    BY <1>1, <2>1 DEF AddingAlone, Job, Adding, Removing
<1>7. QED
  BY <1>4, <1>5, <1>6 DEF Jobs

\* Nothing but plain frames above n.
LEMMA JobsQuiet ==
    ASSUME TypeOK, Jobs, QuietStep
    PROVE  Jobs'
<1>1. PICK n \in 0..Depth : Cut(n) /\ QuietAbove(n)
  BY DEF QuietStep
<1>2. \A i \in 1..n : i \in 1..Depth
  BY <1>1, DepthIsNat
<1>3. QED
  BY <1>1, <1>2, JobsKept DEF QuietStep, QuietAbove, Plain, Jobs, JobsAside, AddingAlive

\* What remains to be shown when a frame f is entered, moved to, or popped.
KeptBelow(n) ==
    /\ \A i \in 1..n : Job(stack[i]) => stack[i].key \notin loaded'
    /\ \A i \in 1..n : Adding(stack[i]) => state'[stack[i].key] # "Released"
NewJob(f, n) ==
    Job(f) => /\ f.key \notin loaded'
              /\ Adding(f) => state'[f.key] # "Released"
              /\ \A j \in 1..n : Adding(stack[j]) \/ (Adding(f) /\ Job(stack[j]))
                                 => stack[j].key # f.key

LEMMA ScriptsArePlain ==
    ASSUME NEW f, f.kind \in ScriptKinds
    PROVE  ~Job(f) /\ f.kind # "dispose"
BY DEF ScriptKinds, Job, Adding, Removing

LEMMA JobsOnEnter ==
    ASSUME TypeOK, Jobs, NEW f, NEW kind \in ScriptKinds, Enters(f, kind),
           KeptBelow(Depth), NewJob(f, Depth), f.kind = "dispose" => Depth = 0
    PROVE  Jobs'
<1>1. Depth \in Nat /\ Cut(Depth) /\ Depth \in 0..Depth /\ stack'[Depth + 1] = f
  BY DepthIsNat, CutOfEnters
<1>2. \A i \in Depth + 1..Len(stack') :
         i = Depth + 1 \/ (i = Depth + 2 /\ stack'[i].kind \in ScriptKinds)
  BY CutOfEnters
<1>3. \A i \in Depth + 1..Len(stack') :
         i = Depth + 1 \/ (~Job(stack'[i]) /\ stack'[i].kind # "dispose")
  BY <1>2, ScriptsArePlain
<1>4. QED
  BY <1>1, <1>3, JobsKept DEF KeptBelow, NewJob

LEMMA JobsOnMove ==
    ASSUME TypeOK, Jobs, NEW f, NEW kind \in ScriptKinds, Moves(f, kind),
           KeptBelow(Depth - 1), NewJob(f, Depth - 1), f.kind = "dispose" => Depth = 1
    PROVE  Jobs'
<1>1. Depth \in Nat /\ Cut(Depth - 1) /\ Depth - 1 \in 0..Depth /\ stack'[Depth] = f
  BY DepthIsNat, CutOfMoves
<1>2. \A i \in Depth..Len(stack') :
         i = Depth \/ (i = Depth + 1 /\ stack'[i].kind \in ScriptKinds)
  BY CutOfMoves
<1>3. \A i \in Depth..Len(stack') :
         i = Depth \/ (~Job(stack'[i]) /\ stack'[i].kind # "dispose")
  BY <1>2, ScriptsArePlain
<1> DEFINE n == Depth - 1
<1>4. n \in 0..Depth /\ Cut(n) /\ n + 1 = Depth
  BY <1>1
<1>5. \A i \in n + 1..Len(stack') : stack'[i].kind = "dispose" => i = 1
  BY <1>1, <1>3, <1>4
<1>6. \A i \in n + 1..Len(stack') : Job(stack'[i]) =>
         /\ i = n + 1
         /\ stack'[i].key \notin loaded'
         /\ Adding(stack'[i]) => state'[stack'[i].key] # "Released"
         /\ \A j \in 1..n : Adding(stack[j]) \/ (Adding(stack'[i]) /\ Job(stack[j]))
                            => stack[j].key # stack'[i].key
  BY <1>1, <1>3, <1>4 DEF NewJob
<1>7. KeptBelow(n)
  OBVIOUS
<1> HIDE DEF n
<1>8. QED
  BY <1>4, <1>5, <1>6, <1>7, JobsKept DEF KeptBelow

LEMMA JobsOnPop ==
    ASSUME TypeOK, Jobs, Pops, KeptBelow(Depth - 1)
    PROVE  Jobs'
<1> DEFINE n == Depth - 1
<1>1. Cut(n) /\ n \in 0..Depth /\ Len(stack') = n /\ n \in Nat
  BY CutOfPops, DepthIsNat DEF Pops
<1>2. \A i \in n + 1..Len(stack') : FALSE
  BY <1>1
<1>3. KeptBelow(n)
  OBVIOUS
<1> HIDE DEF n
<1>4. QED
  BY <1>1, <1>2, <1>3, JobsKept DEF KeptBelow

\* Below the top frame, the other frames of an addon that the top frame loads or
\* releases do not load it.
LEMMA TopJobAlone ==
    ASSUME TypeOK, Jobs, Depth > 0
    PROVE  /\ Job(Top) => Top.key \notin loaded
           /\ Adding(Top) => state[Top.key] # "Released"
           /\ Job(Top) => \A i \in 1..Depth - 1 : Adding(stack[i]) => stack[i].key # Top.key
           /\ Adding(Top) => \A i \in 1..Depth - 1 : Job(stack[i]) => stack[i].key # Top.key
           /\ Top.kind = "dispose" => Depth = 1
<1>1. Depth \in Nat /\ Depth \in 1..Depth /\ \A i \in 1..Depth - 1 : i \in 1..Depth /\ i # Depth
  BY DepthIsNat
<1>2. QED
  BY <1>1 DEF Jobs, DisposeFirst, JobsAside, AddingAlive, AddingAlone, Top, Job

LEMMA KeptBelowSame ==
    ASSUME TypeOK, Jobs, NEW n \in 0..Depth, loaded' \subseteq loaded,
           \A k \in Keys : state'[k] = "Released" => state[k] = "Released"
    PROVE  KeptBelow(n)
<1>1. \A i \in 1..n : i \in 1..Depth /\ (Adding(stack[i]) => stack[i].key \in Keys)
  <2>1. \A i \in 1..n : i \in 1..Depth /\ stack[i] \in Frame
    BY DepthIsNat
  <2>2. QED
    BY <2>1 DEF Adding, Frame, WorksOnAddon
<1>2. QED
  BY <1>1 DEF KeptBelow, Jobs, JobsAside, AddingAlive

\* A new Lua state, a return or a failure: no addon becomes released.
LEMMA NoneReleased ==
    ASSUME TypeOK,
           \/ UNCHANGED state
           \/ \E k : NewLuaState(k)
           \/ \E k, s : s # "Released" /\ state' = [state EXCEPT ![k] = s]
    PROVE  \A k \in Keys : state'[k] = "Released" => state[k] = "Released"
BY DEF TypeOK, NewLuaState

LEMMA FailureStates ==
    ASSUME TypeOK, ScriptFails
    PROVE  state' = [state EXCEPT ![Top.key] = "Error"]
BY DEF ScriptFails, Release

LEMMA JobsLoad ==
    ASSUME TypeOK, Jobs, LoadStep
    PROVE  Jobs'
<1>0. "main" \in ScriptKinds /\ "event" \in ScriptKinds /\ Depth \in Nat
      /\ Depth \in 0..Depth
  BY DepthIsNat DEF ScriptKinds
<1>1. ASSUME NEW k \in Keys, LoadBegin(k)
      PROVE  Jobs'
  <2>1. PICK f : Enters(f, "main") /\ f.kind = "load" /\ f.key = k
    BY <1>1, LoadForms
  <2>2. UNCHANGED loaded /\ NewLuaState(k) /\ k \notin loaded /\ Idle(k)
    BY <1>1 DEF LoadBegin
  <2>3. KeptBelow(Depth)
    BY <1>0, <2>2, NoneReleased, KeptBelowSame
  <2>4. NewJob(f, Depth)
    BY <2>1, <2>2 DEF NewJob, Idle, NewLuaState, TypeOK
  <2>5. QED
    BY <1>0, <2>1, <2>3, <2>4, JobsOnEnter
<1>2. CASE LoadInitialized
  <2>1. UNCHANGED <<loaded, state>> /\ Depth > 0
    BY <1>2 DEF LoadInitialized, addonVars, TopIs
  <2>2. KeptBelow(Depth - 1)
    <3>1. Depth - 1 \in 0..Depth
      BY <1>0, <2>1
    <3>2. QED
      BY <2>1, <3>1, KeptBelowSame
  <2>3. CASE Pops
    BY <2>2, <2>3, JobsOnPop
  <2>4. ASSUME NEW f, Moves(f, "event"), f.key = Top.key
        PROVE  Jobs'
    <3>1. Adding(Top) /\ Adding(f) /\ f.kind = "load" /\ Job(Top)
      BY <1>2, <2>4, LoadForms DEF Moves, Adding, Job
    <3>2. NewJob(f, Depth - 1)
      BY <2>1, <2>4, <3>1, TopJobAlone DEF NewJob, Job
    <3>3. QED
      BY <1>0, <2>2, <2>4, <3>1, <3>2, JobsOnMove
  <2>5. QED
    BY <1>2, <2>3, <2>4, LoadForms
<1>3. CASE LoadAdd
  <2>1. Pops /\ Adding(Top) /\ Job(Top) /\ Depth > 0
    BY <1>3, LoadForms DEF Adding, Job, Pops
  <2>2. loaded' = loaded \cup {Top.key} /\ UNCHANGED state
    BY <1>3 DEF LoadAdd, addonVars
  <2>3. KeptBelow(Depth - 1)
    <3>1. \A i \in 1..Depth - 1 : i \in 1..Depth
      BY <1>0
    <3>2. QED
      BY <2>1, <2>2, <3>1, TopJobAlone DEF KeptBelow, Jobs, JobsAside, AddingAlive
  <2>4. QED
    BY <2>1, <2>3, JobsOnPop
<1>4. QED
  BY <1>1, <1>2, <1>3 DEF LoadStep

LEMMA JobsUnload ==
    ASSUME TypeOK, Jobs,
           \/ UnloadRelease \/ NotifyThrows \/ UnloadNotified
           \/ \E k \in Keys : UnloadBegin(k) \/ (UnloadAllVisit(k) /\ k \in loaded)
    PROVE  Jobs'
<1>0. "main" \in ScriptKinds /\ "event" \in ScriptKinds /\ Depth \in Nat
      /\ Depth \in 0..Depth /\ (Depth > 0 => Depth - 1 \in 0..Depth)
  BY DepthIsNat DEF ScriptKinds
<1>1. ASSUME NEW k \in loaded, loaded' = loaded \ {k}, NEW f, Removing(f), f.key = k,
             NEW n \in 0..Depth
      PROVE  NewJob(f, n) /\ f.kind # "dispose"
  <2>1. ~Adding(f) /\ k \notin loaded'
    BY <1>1 DEF Removing, Adding
  <2>2. \A i \in 1..n : Adding(stack[i]) => stack[i].key # k
    BY <1>0, <1>1 DEF Jobs, JobsAside, Job
  <2>3. QED
    BY <1>1, <2>1, <2>2 DEF NewJob, Removing
<1>2. ASSUME NEW k \in Keys, UnloadBegin(k)
      PROVE  Jobs'
  <2>1. PICK f : Enters(f, "event") /\ f.kind = "unload" /\ f.at = "release" /\ f.key = k
    BY <1>2, UnloadForms
  <2>2. k \in loaded /\ loaded' = loaded \ {k} /\ UNCHANGED state
    BY <1>2 DEF UnloadBegin, addonVars
  <2>3. KeptBelow(Depth)
    BY <1>0, <2>2, KeptBelowSame
  <2>4. NewJob(f, Depth) /\ f.kind # "dispose"
    BY <1>0, <1>1, <2>1, <2>2 DEF Removing
  <2>5. QED
    BY <1>0, <2>1, <2>3, <2>4, JobsOnEnter
<1>3. ASSUME NEW k \in Keys, UnloadAllVisit(k), k \in loaded
      PROVE  Jobs'
  <2>1. PICK f : Moves(f, "event") /\ f.at = "release" /\ f.key = k
    BY <1>3, UnloadForms
  <2>2. loaded' = loaded \ {k} /\ UNCHANGED state /\ f.kind = "unloadall" /\ Depth > 0
    BY <1>3, <2>1, UnloadForms DEF UnloadAllVisit, addonVars, Moves
  <2>3. KeptBelow(Depth - 1)
    BY <1>0, <2>2, KeptBelowSame
  <2>4. NewJob(f, Depth - 1) /\ f.kind # "dispose"
    BY <1>0, <1>1, <1>3, <2>1, <2>2 DEF Removing
  <2>5. QED
    BY <1>0, <2>1, <2>3, <2>4, JobsOnMove
<1>4. CASE UnloadRelease
  <2>1. Depth > 0 /\ Job(Top) /\ Top.kind \in {"unload", "unloadall"} /\ Top.key \in Keys
    BY <1>4, UnloadForms DEF Job, Removing
  <2>2. UNCHANGED loaded /\ \A k \in Keys \ {Top.key} : state'[k] = state[k]
    BY <1>4 DEF UnloadRelease, Release, TypeOK
  <2>3. KeptBelow(Depth - 1)
    <3>1. \A i \in 1..Depth - 1 : /\ i \in 1..Depth
                                  /\ Adding(stack[i]) => stack[i].key \in Keys \ {Top.key}
      <4>1. \A i \in 1..Depth - 1 : i \in 1..Depth /\ stack[i] \in Frame
        BY <1>0, DepthIsNat
      <4>2. QED
        BY <2>1, <4>1, TopJobAlone DEF Adding, Frame, WorksOnAddon
    <3>2. QED
      BY <2>2, <3>1 DEF KeptBelow, Jobs, JobsAside, AddingAlive
  <2>4. PICK f : Moves(f, "event") /\ f.at = "notify" /\ f.key = Top.key
    BY <1>4, UnloadForms
  <2>5. ~Adding(f) /\ f.kind # "dispose"
    BY <2>1, <2>4 DEF Moves, Adding
  <2>6. Top.key \notin loaded
    BY <2>1, TopJobAlone
  <2>7. NewJob(f, Depth - 1)
    BY <2>1, <2>2, <2>4, <2>5, <2>6, TopJobAlone DEF NewJob
  <2>8. QED
    BY <1>0, <2>3, <2>4, <2>5, <2>7, JobsOnMove
<1>5. CASE NotifyThrows \/ UnloadNotified
  <2>1. Depth > 0 /\ Top.kind \in {"unload", "unloadall"}
    BY <1>5, UnloadForms DEF Pops
  <2>2. UNCHANGED <<loaded, state>>
    BY <1>5 DEF NotifyThrows, UnloadNotified, addonVars
  <2>3. KeptBelow(Depth - 1)
    BY <1>0, <2>1, <2>2, KeptBelowSame
  <2>4. CASE Pops
    BY <2>3, <2>4, JobsOnPop
  <2>5. ASSUME NEW f, Moves(f, "event"), f.at = "visit"
        PROVE  Jobs'
    <3>1. ~Job(f) /\ f.kind # "dispose"
      BY <2>1, <2>5 DEF Moves, Job, Adding, Removing
    <3>2. QED
      BY <1>0, <2>3, <2>5, <3>1, JobsOnMove DEF NewJob
  <2>6. QED
    BY <1>5, <2>4, <2>5, UnloadForms
<1>6. QED
  BY <1>2, <1>3, <1>4, <1>5

LEMMA JobsDispose ==
    ASSUME TypeOK, Jobs, DisposeStep
    PROVE  Jobs'
<1>0. "event" \in ScriptKinds /\ Depth \in Nat
      /\ Depth \in 0..Depth /\ (Depth > 0 => Depth - 1 \in 0..Depth)
  BY DepthIsNat DEF ScriptKinds
<1>1. ASSUME NEW f, f.kind = "dispose"
      PROVE  ~Job(f)
  BY <1>1 DEF Job, Adding, Removing
<1>2. CASE DisposeBegin
  <2>1. PICK f : Enters(f, "event") /\ f.kind = "dispose"
    BY <1>2, DisposeForms
  <2>2. Depth = 0 /\ UNCHANGED <<loaded, state>>
    BY <1>2 DEF DisposeBegin, addonVars
  <2>3. KeptBelow(Depth) /\ NewJob(f, Depth)
    BY <1>0, <1>1, <2>1, <2>2, KeptBelowSame DEF NewJob
  <2>4. QED
    BY <1>0, <2>1, <2>2, <2>3, JobsOnEnter
<1>3. ASSUME Top.kind = "dispose", Depth > 0
      PROVE  Depth = 1 /\ KeptBelow(Depth - 1)
  <2>1. Depth = 1
    BY <1>3, TopJobAlone
  <2>2. \A i \in 1..Depth - 1 : FALSE
    BY <2>1
  <2>3. QED
    BY <2>1, <2>2 DEF KeptBelow
<1>4. ASSUME NEW f, Moves(f, "event"), Top.kind = "dispose"
      PROVE  Jobs'
  <2>1. f.kind = "dispose" /\ Depth > 0 /\ ~Job(f)
    BY <1>1, <1>4 DEF Moves
  <2>2. QED
    BY <1>0, <1>3, <1>4, <2>1, JobsOnMove DEF NewJob
<1>5. CASE (\E k \in Keys : DisposeVisit(k)) \/ DisposeRelease
  BY <1>4, <1>5, DisposeForms
<1>6. CASE DisposeEnd
  <2>1. Pops /\ Top.kind = "dispose" /\ Depth > 0
    BY <1>6, DisposeForms DEF Pops
  <2>2. QED
    BY <1>3, <2>1, JobsOnPop
<1>7. QED
  BY <1>2, <1>5, <1>6 DEF DisposeStep

\* No step breaks the frames' claims on their addons.
LEMMA JobsNext ==
    ASSUME TypeOK, Jobs, [Next]_vars
    PROVE  Jobs'
<1>0. "main" \in ScriptKinds /\ Depth \in Nat /\ (Depth > 0 => Depth - 1 \in 0..Depth)
  BY DepthIsNat DEF ScriptKinds
<1>1. CASE QuietStep
  BY <1>1, JobsQuiet
<1>2. ASSUME NEW f, Moves(f, "main"), Top.kind \in {"tick", "reload"}, UNCHANGED loaded,
             NEW k, NewLuaState(k)
      PROVE  Jobs'
  <2>1. Depth > 0 /\ ~Job(f) /\ f.kind # "dispose"
    BY <1>2 DEF Moves, Job, Adding, Removing
  <2>2. KeptBelow(Depth - 1)
    BY <1>0, <1>2, <2>1, NoneReleased, KeptBelowSame
  <2>3. QED
    BY <1>0, <1>2, <2>1, <2>2, JobsOnMove DEF NewJob
<1>3. ASSUME NEW k \in Keys, TickReload(k)
      PROVE  Jobs'
  <2>1. TickStep /\ UNCHANGED loaded /\ NewLuaState(k)
    BY <1>3 DEF TickStep, TickReload
  <2>2. Top.kind = "tick" /\ \E f : Moves(f, "main")
    BY <1>3, <2>1, ReloadMoves
  <2>3. QED
    BY <1>2, <2>1, <2>2
<1>4. CASE ReloadReinit
  <2>1. UNCHANGED loaded /\ NewLuaState(Top.key)
    BY <1>4 DEF ReloadReinit
  <2>2. QED
    BY <1>2, <1>4, <2>1, ReloadForms
<1>5. CASE ScriptFails \/ ((\E ret \in Returns : ScriptReturn(ret)) /\ Top.kind = "main")
  <2>1. Pops /\ Depth > 0
    BY <1>5, ScriptForms DEF ScriptReturn, Pops
  <2>2. UNCHANGED loaded /\ \E s : s # "Released" /\ state' = [state EXCEPT ![Top.key] = s]
    BY <1>5, FailureStates DEF ScriptFails, ScriptReturn
  <2>3. KeptBelow(Depth - 1)
    BY <1>0, <2>1, <2>2, NoneReleased, KeptBelowSame
  <2>4. QED
    BY <2>1, <2>3, JobsOnPop
<1>6. CASE LoudStep
  BY <1>3, <1>4, <1>5, <1>6, JobsLoad, JobsUnload, JobsDispose
     DEF LoudStep, LoadStep, DisposeStep
<1>7. QED
  BY <1>1, <1>6, StepKinds

\* What every loud step leaves of the stack: only the top frame may go.
LEMMA LoudCut ==
    ASSUME TypeOK, LoudStep
    PROVE  \/ Cut(Depth)
           \/ /\ Depth > 0 /\ Cut(Depth - 1)
              /\ Top.kind = "main" => ScriptFails \/ \E ret \in Returns : ScriptReturn(ret)
              /\ Top.kind = "dispose" =>
                    \/ DisposeEnd
                    \/ \E f : Moves(f, "event")
<1>0. {"main", "event"} \subseteq ScriptKinds
  BY DEF ScriptKinds
<1>1. ASSUME NEW f, Enters(f, "event") \/ Enters(f, "main")
      PROVE  Cut(Depth)
  BY <1>0, <1>1, CutOfEnters
<1>2. ASSUME NEW f, Moves(f, "event") \/ Moves(f, "main")
      PROVE  Depth > 0 /\ Cut(Depth - 1)
  BY <1>0, <1>2, CutOfMoves
<1>3. CASE \/ DisposeBegin
           \/ \E k \in Keys : LoadBegin(k) \/ UnloadBegin(k)
  BY <1>1, <1>3, DisposeForms, LoadForms, UnloadForms
<1>4. ASSUME NEW k \in Keys, TickReload(k)
      PROVE  Depth > 0 /\ Cut(Depth - 1) /\ Top.kind = "tick"
  BY <1>2, <1>4, ReloadMoves
<1>5. CASE ReloadReinit
  BY <1>2, <1>5, ReloadForms
<1>6. ASSUME NEW k \in Keys, UnloadAllVisit(k)
      PROVE  Depth > 0 /\ Cut(Depth - 1) /\ Top.kind = "unloadall"
  BY <1>2, <1>6, UnloadForms
<1>7. ASSUME NEW k \in Keys, DisposeVisit(k)
      PROVE  Depth > 0 /\ Cut(Depth - 1) /\ Top.kind = "dispose" /\ \E f : Moves(f, "event")
  BY <1>2, <1>7, DisposeForms
<1>8. CASE DisposeRelease
  BY <1>2, <1>8, DisposeForms
<1>9. CASE LoadInitialized \/ LoadAdd \/ UnloadRelease \/ NotifyThrows \/ UnloadNotified
  BY <1>2, <1>9, LoadForms, UnloadForms, CutOfPops
<1>10. CASE DisposeEnd
  BY <1>10, DisposeForms, CutOfPops
<1>11. CASE (\E ret \in Returns : ScriptReturn(ret)) /\ Top.kind = "main"
  <2>1. Pops
    BY <1>11, ScriptForms
  <2>2. QED
    BY <1>11, <2>1, CutOfPops
<1>12. CASE ScriptFails
  BY <1>12, ScriptForms, CutOfPops, ScriptsArePlain
<1>13. QED
  BY <1>3, <1>4, <1>5, <1>6, <1>7, <1>8, <1>9, <1>10, <1>11, <1>12 DEF LoudStep

\* Dispose stays at the bottom of the stack until it ends.
LEMMA DisposingStays ==
    ASSUME TypeOK, Jobs, [Next]_vars, Disposing(stack)
    PROVE  Disposing(stack') \/ DisposeEnd
<1>0. Depth \in Nat /\ Depth = Len(stack) /\ Depth > 0 /\ 1 \in 1..Depth
  BY DepthIsNat DEF Disposing
<1>1. ASSUME NEW n \in 0..Depth, Cut(n), n # 0
      PROVE  Disposing(stack')
  BY <1>0, <1>1 DEF Cut, Same, Disposing
<1>2. CASE QuietStep
  <2>1. PICK n \in 0..Depth : Cut(n) /\ QuietAbove(n)
    BY <1>2 DEF QuietStep
  <2>2. n # 0
    BY <1>0, <2>1 DEF QuietAbove, Plain, Disposing
  <2>3. QED
    BY <1>1, <2>1, <2>2
<1>3. CASE LoudStep
  <2>1. CASE Cut(Depth)
    BY <1>0, <1>1, <2>1
  <2>2. CASE Cut(Depth - 1) /\ Depth # 1
    <3>1. Depth - 1 \in 0..Depth /\ Depth - 1 # 0
      BY <1>0, <2>2
    <3>2. QED
      BY <1>1, <2>2, <3>1
  <2>3. CASE Depth = 1 /\ ~Cut(Depth)
    <3>1. Top.kind = "dispose"
      BY <2>3 DEF Top, Disposing
    <3>2. DisposeEnd \/ \E f : Moves(f, "event")
      BY <1>3, <2>3, <3>1, LoudCut
    <3>3. ASSUME NEW f, Moves(f, "event")
          PROVE  Disposing(stack')
      <4>1. stack'[1] = f /\ Len(stack') \in {1, 2} /\ f.kind = "dispose"
        BY <2>3, <3>1, <3>3, MovesFacts DEF ScriptKinds, Moves
      <4>2. QED
        BY <4>1 DEF Disposing
    <3>4. QED
      BY <3>2, <3>3
  <2>4. QED
    BY <1>3, <2>1, <2>2, <2>3, LoudCut
<1>4. QED
  BY <1>2, <1>3, StepKinds

\* An addon becomes released at the end of an unload, or by Dispose.
LEMMA BecomesReleased ==
    ASSUME TypeOK, [Next]_vars, NEW k \in Keys, state'[k] = "Released", state[k] # "Released"
    PROVE  (UnloadRelease \/ DisposeRelease) /\ k = Top.key
<1>1. ~QuietStep
  BY DEF QuietStep
<1>2. LoudStep
  BY <1>1, StepKinds
<1>3. UnloadRelease \/ DisposeRelease
  <2>1. ~UNCHANGED state
    OBVIOUS
  <2>2. ~\E j \in Keys : TickReload(j) \/ LoadBegin(j)
    BY NoneReleased DEF TickReload, LoadBegin
  <2>3. ~ReloadReinit
    BY NoneReleased DEF ReloadReinit
  <2>4. ~(ScriptFails \/ ((\E ret \in Returns : ScriptReturn(ret)) /\ Top.kind = "main"))
    <3>1. ScriptFails \/ ((\E ret \in Returns : ScriptReturn(ret)) /\ Top.kind = "main") =>
             \E s : s # "Released" /\ state' = [state EXCEPT ![Top.key] = s]
      BY FailureStates DEF ScriptReturn
    <3>2. QED
      BY <3>1, NoneReleased
  <2>5. QED
    BY <1>2, <2>1, <2>2, <2>3, <2>4
       DEF LoudStep, UnloadBegin, UnloadAllVisit, DisposeVisit, LoadInitialized, LoadAdd,
           DisposeBegin, DisposeEnd, NotifyThrows, UnloadNotified, addonVars
<1>4. QED
  BY <1>3 DEF UnloadRelease, DisposeRelease, Release, TypeOK

LEMMA ReleasedAtEndNext ==
    ASSUME TypeOK, Jobs, ReleasedAtEnd, [Next]_vars
    PROVE  ReleasedAtEnd'
<1>1. SUFFICES ASSUME NEW k \in loaded', state'[k] = "Released"
               PROVE  Disposing(stack')
  BY DEF ReleasedAtEnd, Disposing
<1>2. DisposeEnd => loaded' = {}
  BY DEF DisposeEnd
<1>3. CASE k \in loaded /\ state[k] = "Released"
  BY <1>1, <1>2, <1>3, DisposingStays DEF ReleasedAtEnd
<1>4. CASE k \notin loaded
  <2>1. LoadAdd /\ k = Top.key
    <3>1. ~QuietStep
      BY <1>1, <1>4 DEF QuietStep
    <3>2. LoudStep
      BY <3>1, StepKinds
    <3>3. LoadAdd
      BY <1>1, <1>4, <3>2
         DEF LoudStep, TickReload, LoadBegin, UnloadBegin, UnloadAllVisit, DisposeVisit,
             LoadInitialized, UnloadRelease, NotifyThrows, UnloadNotified, ReloadReinit, DisposeBegin, DisposeRelease,
             DisposeEnd, ScriptReturn, ScriptFails
    <3>4. QED
      BY <1>1, <1>4, <3>3 DEF LoadAdd
  <2>2. Adding(Top) /\ Depth > 0 /\ state' = state
    BY <2>1 DEF LoadAdd, TopIs, Adding, addonVars
  <2>3. QED
    BY <1>1, <2>1, <2>2, TopJobAlone
<1>5. CASE k \in loaded /\ state[k] # "Released"
  <2>1. (UnloadRelease \/ DisposeRelease) /\ k = Top.key
    <3>1. k \in Keys
      BY <1>5 DEF TypeOK
    <3>2. QED
      BY <1>1, <1>5, <3>1, BecomesReleased
  <2>2. CASE UnloadRelease
    BY <1>5, <2>1, <2>2, UnloadForms, TopJobAlone DEF Job, Removing
  <2>3. CASE DisposeRelease
    <3>1. Depth > 0 /\ Top.kind = "dispose" /\ Top.at = "release"
      BY <2>3 DEF DisposeRelease, TopIs
    <3>2. Depth = 1 /\ Disposing(stack) /\ ~DisposeEnd
      BY <3>1, TopJobAlone, DepthIsNat DEF Disposing, Top, DisposeEnd, TopIs
    <3>3. QED
      BY <3>2, DisposingStays
  <2>4. QED
    BY <2>1, <2>2, <2>3
<1>6. QED
  BY <1>3, <1>4, <1>5

\* A main chunk that is called is on the stack; one below n stays there.
MainRuns(k) == \E i \in 1..Depth : stack[i].kind = "main" /\ stack[i].key = k

LEMMA MainCalled ==
    ASSUME NEW t \in Seq(Frame), NEW k \in Keys, stack' = Append(t, ScriptFrame("main", k))
    PROVE  MainRuns(k)'
<1>1. /\ ScriptFrame("main", k) \in Frame
      /\ ScriptFrame("main", k).kind = "main" /\ ScriptFrame("main", k).key = k
  BY ScriptFrameIsFrame DEF ScriptFrame, HostFrame, ScriptKinds
<1>2. Len(stack') = Len(t) + 1 /\ stack'[Len(t) + 1] = ScriptFrame("main", k)
      /\ Len(t) + 1 \in 1..Len(t) + 1
  BY <1>1, PushFrame
<1>3. QED
  BY <1>1, <1>2 DEF MainRuns, Depth

LEMMA MainStays ==
    ASSUME TypeOK, NEW n \in 0..Depth, Cut(n), NEW k, MainRuns(k),
           \A i \in n + 1..Depth : stack[i].kind = "main" => stack[i].key # k
    PROVE  MainRuns(k)'
<1>1. PICK i \in 1..Depth : stack[i].kind = "main" /\ stack[i].key = k
  BY DEF MainRuns
<1>2. i \in 1..n /\ i \in 1..Len(stack')
  BY <1>1, DepthIsNat DEF Cut
<1>3. QED
  BY <1>1, <1>2 DEF Cut, Same, MainRuns, Depth

LEMMA LoadingRunsNext ==
    ASSUME TypeOK, LoadingRuns, [Next]_vars
    PROVE  LoadingRuns'
<1>0. Depth \in Nat /\ Depth = Len(stack) /\ stack \in Seq(Frame)
  BY DepthIsNat
<1>1. SUFFICES ASSUME NEW k \in Keys, state'[k] = "Loading"
               PROVE  MainRuns(k)'
  BY DEF LoadingRuns, MainRuns, Depth
<1>2. CASE QuietStep
  <2>1. PICK n \in 0..Depth : Cut(n) /\ QuietAbove(n)
    BY <1>2 DEF QuietStep
  <2>2. MainRuns(k)
    BY <1>1, <1>2 DEF QuietStep, LoadingRuns, MainRuns
  <2>3. QED
    BY <2>1, <2>2, MainStays DEF QuietAbove, Plain
<1>3. CASE LoudStep /\ state[k] = "Loading" /\ ~(Depth > 0 /\ Top.kind = "main" /\ Top.key = k)
  <2>1. MainRuns(k)
    BY <1>3 DEF LoadingRuns, MainRuns
  <2>2. CASE Cut(Depth)
    <3>1. Depth \in 0..Depth /\ \A i \in Depth + 1..Depth : FALSE
      BY <1>0
    <3>2. QED
      BY <2>1, <2>2, <3>1, MainStays
  <2>3. CASE Depth > 0 /\ Cut(Depth - 1)
    <3> DEFINE n == Depth - 1
    <3>1. n \in 0..Depth /\ \A i \in n + 1..Depth : i = Depth
      BY <1>0, <2>3
    <3>2. \A i \in n + 1..Depth : stack[i].kind = "main" => stack[i].key # k
      BY <1>3, <2>3, <3>1 DEF Top
    <3>3. Cut(n)
      BY <2>3
    <3> HIDE DEF n
    <3>4. QED
      BY <2>1, <3>1, <3>2, <3>3, MainStays
  <2>4. QED
    BY <1>3, <2>2, <2>3, LoudCut
<1>4. CASE LoudStep /\ state[k] # "Loading"
  <2>1. ASSUME NEW j \in Keys, TickReload(j)
        PROVE  MainRuns(k)'
    <3>1. k = j
      BY <1>1, <1>4, <2>1 DEF TickReload, NewLuaState, TypeOK
    <3>2. PICK f : Moves(f, "main") /\ stack' = Append(Moved(f), ScriptFrame("main", j))
      BY <2>1, ReloadMoves
    <3>3. Moved(f) \in Seq(Frame)
      BY <3>2, MovedFacts DEF Moves
    <3>4. QED
      BY <3>1, <3>2, <3>3, MainCalled
  <2>2. CASE ReloadReinit
    <3>1. Top.key = k
      BY <1>1, <1>4, <2>2 DEF ReloadReinit, NewLuaState, TypeOK
    <3>2. PICK f : Moves(f, "main") /\ stack' = Append(Moved(f), ScriptFrame("main", Top.key))
      BY <2>2, ReloadForms
    <3>3. Moved(f) \in Seq(Frame)
      BY <3>2, MovedFacts DEF Moves
    <3>4. QED
      BY <3>1, <3>2, <3>3, MainCalled
  <2>3. ASSUME NEW j \in Keys, LoadBegin(j)
        PROVE  MainRuns(k)'
    <3>1. k = j
      BY <1>1, <1>4, <2>3 DEF LoadBegin, NewLuaState, TypeOK
    <3>2. PICK f : Enters(f, "main") /\ stack' = Append(Append(stack, f), ScriptFrame("main", j))
      BY <2>3, LoadForms
    <3>3. Append(stack, f) \in Seq(Frame)
      BY <1>0, <3>2 DEF Enters
    <3>4. QED
      BY <3>1, <3>2, <3>3, MainCalled
  <2>4. CASE ScriptFails \/ ((\E ret \in Returns : ScriptReturn(ret)) /\ Top.kind = "main")
    BY <1>1, <1>4, <2>4, FailureStates DEF ScriptReturn, TypeOK
  <2>5. CASE UnloadRelease \/ DisposeRelease
    BY <1>1, <1>4, <2>5 DEF UnloadRelease, DisposeRelease, Release, TypeOK
  <2>6. QED
    BY <1>1, <1>4, <2>1, <2>2, <2>3, <2>4, <2>5
       DEF LoudStep, UnloadBegin, UnloadAllVisit, DisposeVisit, LoadInitialized, LoadAdd,
           DisposeBegin, DisposeEnd, NotifyThrows, UnloadNotified, addonVars
<1>5. CASE LoudStep /\ Depth > 0 /\ Top.kind = "main" /\ Top.key = k
  <2>1. CASE ScriptFails \/ \E ret \in Returns : ScriptReturn(ret)
    BY <1>1, <1>5, <2>1, FailureStates DEF ScriptReturn, TypeOK
  <2>2. CASE Cut(Depth)
    <3>1. Depth \in 1..Len(stack') /\ Depth \in 1..Depth
      BY <1>0, <1>5, <2>2 DEF Cut
    <3>2. stack'[Depth].kind = "main" /\ stack'[Depth].key = k
      BY <1>5, <2>2, <3>1 DEF Cut, Same, Top
    <3>3. QED
      BY <3>1, <3>2 DEF MainRuns, Depth
  <2>3. QED
    BY <1>5, <2>1, <2>2, LoudCut
<1>6. QED
  BY <1>2, <1>3, <1>4, <1>5, StepKinds

\* A Lua state exists while an addon is Ok or Loading, and not once it is released;
\* without one, no function is registered.
StatesFit == \A k \in Keys :
    /\ state[k] \in {"Ok", "Loading"} => lua[k]
    /\ state[k] = "Released" => ~lua[k]
    /\ ~lua[k] => callbacks[k] = {}

\* Every step leaves the addons' states alone, registers a function, makes or
\* releases a Lua state, or ends a script of one.
LEMMA AddonChanges ==
    ASSUME TypeOK, [Next]_vars
    PROVE  \/ UNCHANGED <<state, lua, callbacks>>
           \/ \E k \in Keys, s \in {"Released", "Error"}, n \in Nat : Release(k, s, n)
           \/ \E k \in Keys : NewLuaState(k)
           \/ \E k \in Keys, n \in Names :
                 /\ lua[k] /\ callbacks' = [callbacks EXCEPT ![k] = @ \cup {n}]
                 /\ owned' = [owned EXCEPT ![k] = @ \cup {Lower[n]}]
                 /\ UNCHANGED <<state, lua>>
           \/ \E k \in Keys, s \in {"Ok", "Error"} :
                 /\ s = "Ok" => lua[k]
                 /\ state' = [state EXCEPT ![k] = s] /\ UNCHANGED <<lua, callbacks>>
<1> USE DEF addonVars
<1>1. CASE HookStep \/ TickBegin \/ UNCHANGED vars \/ FreeStep
  BY <1>1 DEF HookStep, HookBegin, TickBegin, Dispatch, Visit, HookEnd, vars, FreeStep,
     ReloadConfig, PluginAddsCommand
<1>2. CASE TickStep
  BY <1>2 DEF TickStep, TickScan, TickReload, TickSkip, TickOnLoad, TickEnd
<1>3. CASE LoadStep
  BY <1>3 DEF LoadStep, LoadBegin, LoadInitialized, LoadAdd
<1>4. CASE UnloadStep
  <2>1. CASE UnloadRelease
    BY <2>1, UnloadForms, DepthIsNat DEF UnloadRelease
  <2>2. QED
    BY <1>4, <2>1 DEF UnloadStep, UnloadBegin, UnloadAllVisit, UnloadAllBegin, NotifyThrows,
       UnloadNotified, UnloadAllEnd
<1>5. CASE ReloadStep
  <2>1. CASE ReloadReinit
    BY <2>1, ReloadForms DEF ReloadReinit
  <2>2. QED
    BY <1>5, <2>1 DEF ReloadStep, ReloadBegin, ReloadThrows, ReloadOnLoad, ReloadEnd
<1>6. CASE DisposeStep
  <2>1. CASE DisposeRelease
    BY <2>1, DisposeForms, DepthIsNat DEF DisposeRelease
  <2>2. QED
    BY <1>6, <2>1 DEF DisposeStep, DisposeBegin, DisposeVisit, DisposeEnd
<1>7. CASE CallbackStep
  BY <1>7 DEF CallbackStep, CallbackInvoke, CallbackDrop
<1>8. CASE ScriptStep
  <2>1. ASSUME Running
        PROVE  Top.key \in Keys /\ lua[Top.key]
    BY <2>1, TopWorksOnAddon DEF Running, ScriptOnTop, WorksOnAddon
  <2>2. CASE \E e \in Events : RegisterEvent(e)
    BY <2>2 DEF RegisterEvent
  <2>3. ASSUME NEW n \in Names, RegisterCommand(n)
        PROVE  /\ Top.key \in Keys /\ lua[Top.key]
               /\ callbacks' = [callbacks EXCEPT ![Top.key] = @ \cup {n}]
               /\ owned' = [owned EXCEPT ![Top.key] = @ \cup {Lower[n]}]
               /\ UNCHANGED <<state, lua>>
    BY <2>1, <2>3 DEF RegisterCommand
  <2>4. ASSUME NEW ret \in Returns, ScriptReturn(ret)
        PROVE  \/ UNCHANGED <<state, lua, callbacks>>
               \/ /\ Top.key \in Keys /\ lua[Top.key]
                  /\ state' = [state EXCEPT ![Top.key] = "Ok"] /\ UNCHANGED <<lua, callbacks>>
    BY <2>4, ScriptForms DEF ScriptReturn
  <2>5. ASSUME ScriptFails
        PROVE  /\ Top.key \in Keys
               /\ \/ \E n \in Nat : Release(Top.key, "Error", n)
                  \/ state' = [state EXCEPT ![Top.key] = "Error"] /\ UNCHANGED <<lua, callbacks>>
    <3>1. Top.key \in Keys /\ Depth > 0
      BY <2>5, ScriptForms DEF Pops
    <3>2. Depth - 1 \in Nat
      BY <3>1, DepthIsNat
    <3>3. QED
      BY <2>5, <3>1, <3>2 DEF ScriptFails
  <2>6. QED
    BY <1>8, <2>2, <2>3, <2>4, <2>5 DEF ScriptStep, RegisterRefused
<1>9. QED
  BY <1>1, <1>2, <1>3, <1>4, <1>5, <1>6, <1>7, <1>8 DEF Next

LEMMA StatesFitNext ==
    ASSUME TypeOK, StatesFit, [Next]_vars
    PROVE  StatesFit'
<1> USE DEF TypeOK, StatesFit
<1>1. ASSUME NEW k \in Keys, NEW s \in {"Released", "Error"}, NEW n \in Nat, Release(k, s, n)
      PROVE  StatesFit'
  BY <1>1 DEF Release
<1>2. ASSUME NEW k \in Keys, NewLuaState(k)
      PROVE  StatesFit'
  BY <1>2 DEF NewLuaState
<1>3. ASSUME NEW k \in Keys, NEW n \in Names,
             lua[k], callbacks' = [callbacks EXCEPT ![k] = @ \cup {n}], UNCHANGED <<state, lua>>
      PROVE  StatesFit'
  BY <1>3
<1>4. ASSUME NEW k \in Keys, NEW s \in {"Ok", "Error"},
             s = "Ok" => lua[k], state' = [state EXCEPT ![k] = s], UNCHANGED <<lua, callbacks>>
      PROVE  StatesFit'
  BY <1>4
<1>5. QED
  BY <1>1, <1>2, <1>3, <1>4, AddonChanges

\* What holds of the addons and the frames that work on them.
SettledInv == TypeOK /\ Jobs /\ LoadingRuns /\ ReleasedAtEnd /\ StatesFit

LEMMA SettledInvariant == Spec => []SettledInv
<1>1. Init => SettledInv
  <2> SUFFICES ASSUME Init PROVE SettledInv
    OBVIOUS
  <2>1. Depth = 0 /\ TypeOK
    BY DEF Init, TypeOK, States, Configs, ChatCommand, Depth
  <2>2. QED
    BY <2>1 DEF Init, SettledInv, Jobs, DisposeFirst, JobsAside, AddingAlive, AddingAlone,
       LoadingRuns, ReleasedAtEnd, StatesFit
<1>2. TypeOK /\ TypeOK' /\ SettledInv /\ [Next]_vars => SettledInv'
  BY JobsNext, LoadingRunsNext, ReleasedAtEndNext, StatesFitNext DEF SettledInv
<1>3. QED
  BY <1>1, <1>2, TypeCorrect, PTL DEF Spec

\* Whenever the lock is free, every addon in the dictionary is Ok and has its Lua
\* state, or is in the Error state, also where scripts manage addons themselves,
\* other plugins add commands late and disposing a Lua state fails.
THEOREM AddonsAreSettled == Spec => []QuiescentAddonsAreSettled
<1>1. SettledInv => QuiescentAddonsAreSettled
  <2> SUFFICES ASSUME SettledInv, Depth = 0, NEW k \in Keys
               PROVE  /\ state[k] # "Loading"
                      /\ k \in loaded => state[k] = "Error" \/ (state[k] = "Ok" /\ lua[k])
    BY DEF QuiescentAddonsAreSettled
  <2>1. state[k] # "Loading"
    BY DEF SettledInv, LoadingRuns
  <2>2. k \in loaded => state[k] # "Released"
    BY DEF SettledInv, ReleasedAtEnd, Disposing, Depth
  <2>3. QED
    BY <2>1, <2>2 DEF SettledInv, StatesFit, TypeOK, States
<1>2. QED
  BY <1>1, SettledInvariant, PTL
-----------------------------------------------------------------------------
(* Released addons own nothing *)

\* An addon that has been released owns nothing, but for the time the message to
\* the player takes, and until Dispose has ended.
Notifies(f, k)  == Removing(f) /\ f.at = "notify" /\ f.key = k
ReleasedIsEmpty == \A k \in Keys : state[k] = "Released" =>
    \/ owned[k] = {}
    \/ Disposing(stack)
    \/ \E i \in 1..Depth : Notifies(stack[i], k)

\* An unload that sends its message stays on the stack until it ends it.
LEMMA NotifiedStays ==
    ASSUME TypeOK, [Next]_vars, NEW k \in Keys, NEW i \in 1..Depth, Notifies(stack[i], k)
    PROVE  \/ \E j \in 1..Len(stack') : Notifies(stack'[j], k)
           \/ NotifyThrows
           \/ UnloadNotified /\ k = Top.key
<1>0. Depth \in Nat /\ i \in Nat
  BY DepthIsNat
<1>1. ASSUME NEW n \in 0..Depth, Cut(n), i <= n
      PROVE  \E j \in 1..Len(stack') : Notifies(stack'[j], k)
  <2>1. i \in 1..Len(stack') /\ Same(stack[i], stack'[i])
    BY <1>0, <1>1 DEF Cut
  <2>2. Notifies(stack'[i], k)
    BY <2>1 DEF Notifies, Removing, Same
  <2>3. QED
    BY <2>1, <2>2
<1>2. CASE QuietStep
  <2>1. PICK n \in 0..Depth : Cut(n) /\ QuietAbove(n)
    BY <1>2 DEF QuietStep
  <2>2. i <= n
    BY <1>0, <2>1 DEF QuietAbove, Plain, Job, Notifies
  <2>3. QED
    BY <1>1, <2>1, <2>2
<1>3. CASE LoudStep
  <2>1. CASE Cut(Depth)
    BY <1>0, <1>1, <2>1
  <2>2. CASE Cut(Depth - 1) /\ i # Depth
    <3>1. Depth - 1 \in 0..Depth /\ i <= Depth - 1
      BY <1>0, <2>2
    <3>2. QED
      BY <1>1, <2>2, <3>1
  <2>3. CASE ~Cut(Depth) /\ i = Depth
    <3>1. Top.kind \in {"unload", "unloadall"} /\ Top.at = "notify" /\ Top.key = k
      BY <2>3 DEF Notifies, Removing, Top
    <3>2. ~\E j \in Keys : LoadBegin(j) \/ UnloadBegin(j)
      BY <1>0, <2>3, LoadForms, UnloadForms, CutOfEnters DEF ScriptKinds
    <3>3. ~DisposeBegin
      BY <1>0, <2>3, DisposeForms, CutOfEnters DEF ScriptKinds
    <3>4. ~ScriptFails /\ ~((\E ret \in Returns : ScriptReturn(ret)) /\ Top.kind = "main")
      BY <3>1 DEF ScriptFails, ScriptOnTop, ScriptKinds
    <3>5. QED
      BY <1>3, <3>1, <3>2, <3>3, <3>4
         DEF LoudStep, TickReload, UnloadAllVisit, DisposeVisit, LoadInitialized, LoadAdd,
             UnloadRelease, ReloadReinit, DisposeRelease, DisposeEnd, TopIs
  <2>4. QED
    BY <1>3, <2>1, <2>2, <2>3, LoudCut
<1>4. QED
  BY <1>2, <1>3, StepKinds

\* Nothing that a step does while no addon is ambiguous, except to end Dispose,
\* gives a released addon a command.
LEMMA ReleasedIsEmptyNext ==
    ASSUME ~PacketsMayThrow, SettledInv, OwnedIsRegistered, ReleasedIsEmpty, [Next]_vars
    PROVE  ReleasedIsEmpty'
<1> USE DEF SettledInv
<1>1. SUFFICES ASSUME NEW k \in Keys, state'[k] = "Released"
               PROVE  \/ owned'[k] = {}
                      \/ Disposing(stack')
                      \/ \E i \in 1..Len(stack') : Notifies(stack'[i], k)
  BY DEF ReleasedIsEmpty, Disposing, Depth
<1>2. DisposeEnd => owned'[k] = {}
  BY DEF DisposeEnd
<1>3. CASE state[k] = "Released" /\ Disposing(stack)
  BY <1>2, <1>3, DisposingStays
<1>4. CASE state[k] = "Released" /\ owned[k] = {}
  <2>1. ~lua[k]
    BY <1>4 DEF StatesFit
  <2>2. ASSUME NEW j \in Keys, NEW c \in Commands, Claims(c, j)
        PROVE  owned'[k] = {}
    BY <1>4, <2>1, <2>2 DEF Claims, TypeOK
  <2>3. ASSUME NEW j \in Keys, NEW c \in Commands, Evicts(c, j)
        PROVE  owned'[k] = {}
    BY <1>4, <2>3 DEF Evicts, TypeOK
  <2>4. ASSUME NEW j \in Keys, Withdraws(j) \/ Joins(j) \/ Leaves(j)
        PROVE  owned'[k] = {}
    BY <1>4, <2>4 DEF Withdraws, RemoveAddonCommands, Joins, Leaves, TypeOK
  <2>5. QED
    BY <1>4, <2>2, <2>3, <2>4, RegistryChanges DEF Keeps, Closes
<1>5. ~RemoveAddonCommandsThrows(k)
  BY DEF RemoveAddonCommandsThrows, Ambiguous, OwnedIsRegistered
<1>6. ASSUME state[k] = "Released", NEW i \in 1..Depth, Notifies(stack[i], k)
      PROVE  \/ owned'[k] = {}
             \/ \E j \in 1..Len(stack') : Notifies(stack'[j], k)
  <2>1. ~NotifyThrows
    BY DEF NotifyThrows
  <2>2. CASE UnloadNotified /\ k = Top.key
    BY <1>5, <2>2 DEF UnloadNotified, RemoveAddonCommands, TypeOK
  <2>3. QED
    BY <1>6, <2>1, <2>2, NotifiedStays
<1>7. CASE state[k] # "Released"
  <2>1. (UnloadRelease \/ DisposeRelease) /\ k = Top.key
    BY <1>1, <1>7, BecomesReleased
  <2>2. CASE UnloadRelease
    <3>1. PICK f : Moves(f, "event") /\ f.at = "notify" /\ f.key = Top.key
      BY <2>2, UnloadForms
    <3>2. Top.kind \in {"unload", "unloadall"} /\ f.kind = Top.kind
      BY <2>2, <3>1, UnloadForms DEF Moves
    <3>3. stack'[Depth] = f /\ Depth \in 1..Len(stack')
      BY <3>1, MovesFacts, DepthIsNat DEF ScriptKinds
    <3>4. QED
      BY <2>1, <3>1, <3>2, <3>3 DEF Notifies, Removing
  <2>3. CASE DisposeRelease
    <3>1. Depth > 0 /\ Top.kind = "dispose" /\ Top.at = "release"
      BY <2>3 DEF DisposeRelease, TopIs
    <3>2. Depth = 1 /\ Disposing(stack) /\ ~DisposeEnd
      BY <3>1, TopJobAlone, DepthIsNat DEF Disposing, Top, DisposeEnd, TopIs
    <3>3. QED
      BY <3>2, DisposingStays
  <2>4. QED
    BY <2>1, <2>2, <2>3
<1>8. QED
  BY <1>3, <1>4, <1>6, <1>7 DEF ReleasedIsEmpty

\* With no late registrations by other plugins and messages that arrive, an addon
\* that has been released owns no command, has no Lua state and no function
\* registered in it as soon as no handler works on it, whatever its "unload"
\* handler and the scripts that the message runs did, and also where disposing Lua
\* states fails; while Dispose runs, the registry is still to be cleared.
THEOREM ReleasedOwnNothing ==
    ASSUME ~LatePlugins, ~PacketsMayThrow
    PROVE  Spec => []ReleasedOwnsNothing
<1>1. Init => ReleasedIsEmpty
  BY DEF Init, ReleasedIsEmpty
<1>2. SettledInv /\ ReleasedIsEmpty => ReleasedOwnsNothing
  <2> SUFFICES ASSUME SettledInv, ReleasedIsEmpty,
                      NEW k \in Keys, state[k] = "Released", Idle(k)
               PROVE  \/ owned[k] = {} /\ callbacks[k] = {} /\ ~lua[k]
                      \/ \E i \in 1..Depth : stack[i].kind = "dispose"
    BY DEF ReleasedOwnsNothing
  <2>1. ~lua[k] /\ callbacks[k] = {}
    BY DEF SettledInv, StatesFit
  <2>2. Disposing(stack) => 1 \in 1..Depth /\ stack[1].kind = "dispose"
    BY DepthIsNat DEF Disposing, SettledInv
  <2>3. ~\E i \in 1..Depth : Notifies(stack[i], k)
    BY DEF Idle, Notifies
  <2>4. QED
    BY <2>1, <2>2, <2>3 DEF ReleasedIsEmpty
<1>3. QED
  BY <1>1, <1>2, ReleasedIsEmptyNext, SettledInvariant, OwnedRegistered, PTL DEF Spec
-----------------------------------------------------------------------------
(* The functions of live addons are under commands they own *)

\* Where scripts do not manage addons, the frame at the bottom of the call stack
\* says which Lua states there are.  An addon that is not in the dictionary has
\* one only while it is being loaded or about to be released; the frame that loads an addon
\* waits for the main chunk right above it; what Dispose has still to visit or
\* to release has one; and an addon that is being reloaded stays loaded.
Keeping(f)      == Job(f) /\ f.at # "notify"
UnloadedHasJob  == \A k \in Keys \ loaded :
    lua[k] => Depth > 0 /\ Keeping(stack[1]) /\ stack[1].key = k
Initializing(s) == Len(s) > 0 /\ Adding(s[1]) /\ s[1].at = "init"
MainDecides     == Initializing(stack) =>
    \/ Depth = 1 /\ (state[stack[1].key] = "Ok" \/ ~lua[stack[1].key])
    \/ Depth > 1 /\ stack[2].kind = "main" /\ stack[2].key = stack[1].key
DisposeReaches  == Disposing(stack) => \A k \in Keys :
    lua[k] => k \in stack[1].todo \/ (stack[1].at = "release" /\ stack[1].key = k)
ReloadedIsLoaded == Depth > 0 /\ stack[1].kind = "reload" => stack[1].key \in loaded

LEMMA BottomOfEnters ==
    ASSUME TypeOK, NEW f, NEW kind \in ScriptKinds, Enters(f, kind)
    PROVE  /\ Len(stack') > 0
           /\ Depth = 0 => stack'[1] = f
           /\ Depth > 0 => stack'[1] = stack[1]
<1>1. Depth \in Nat
  BY DepthIsNat
<1>2. /\ Len(stack') \in {Depth + 1, Depth + 2}
      /\ \A i \in 1..Depth : stack'[i] = stack[i]
      /\ stack'[Depth + 1] = f
  BY EntersFacts
<1>3. QED
  BY <1>1, <1>2

LEMMA BottomOfMoves ==
    ASSUME TypeOK, NEW f, NEW kind \in ScriptKinds, Moves(f, kind)
    PROVE  /\ Depth > 0 /\ Len(stack') > 0
           /\ Depth = 1 => stack'[1] = f /\ f.kind = stack[1].kind
           /\ Depth > 1 => stack'[1] = stack[1]
<1>1. Depth \in Nat
  BY DepthIsNat
<1>2. /\ Depth > 0 /\ Len(stack') \in {Depth, Depth + 1}
      /\ \A i \in 1..Depth - 1 : stack'[i] = stack[i]
      /\ stack'[Depth] = f
  BY MovesFacts
<1>3. f.kind = Top.kind
  BY DEF Moves
<1>4. QED
  BY <1>1, <1>2, <1>3 DEF Top

LEMMA BottomOfPops ==
    ASSUME TypeOK, Pops
    PROVE  /\ Depth = 1 => Len(stack') = 0
           /\ Depth > 1 => Len(stack') > 0 /\ stack'[1] = stack[1]
           /\ Depth > 2 => Len(stack') > 1 /\ stack'[2] = stack[2]
           /\ Len(stack') = Depth - 1
<1>1. Depth \in Nat /\ Depth > 0
  BY DepthIsNat DEF Pops
<1>2. Len(stack') = Depth - 1 /\ \A i \in 1..Depth - 1 : stack'[i] = stack[i]
  BY PopFacts DEF Pops
<1>3. QED
  BY <1>1, <1>2

\* A handler begins a job with the lock free and ends it on top of the stack; only
\* scripts come and go on top of it.
LEMMA LoudByDepth ==
    ASSUME ~ScriptsManage, LiveInv, LoudStep
    PROVE  \/ /\ Depth = 0
              /\ DisposeBegin \/ \E k \in Keys : LoadBegin(k) \/ UnloadBegin(k)
           \/ /\ Depth = 1
              /\ \/ \E k \in Keys : TickReload(k) \/ UnloadAllVisit(k) \/ DisposeVisit(k)
                 \/ LoadInitialized \/ LoadAdd \/ UnloadRelease \/ NotifyThrows \/ UnloadNotified
                 \/ ReloadReinit
                 \/ DisposeRelease \/ DisposeEnd
           \/ ScriptFails
           \/ (\E ret \in Returns : ScriptReturn(ret)) /\ Top.kind = "main"
<1>1. CASE DisposeBegin \/ \E k \in Keys : LoadBegin(k) \/ UnloadBegin(k)
  BY <1>1 DEF DisposeBegin, LoadBegin, UnloadBegin, CommandEntry
<1>2. CASE \/ \E k \in Keys : TickReload(k) \/ UnloadAllVisit(k) \/ DisposeVisit(k)
           \/ LoadInitialized \/ LoadAdd \/ UnloadRelease \/ NotifyThrows \/ UnloadNotified
           \/ ReloadReinit
           \/ DisposeRelease \/ DisposeEnd
  <2>1. Depth > 0 /\ Top.kind \in ManageKinds
    BY <1>2 DEF TickReload, UnloadAllVisit, DisposeVisit, LoadInitialized, LoadAdd,
       UnloadRelease, NotifyThrows, UnloadNotified, ReloadReinit, DisposeRelease, DisposeEnd, TopIs, ManageKinds
  <2>2. QED
    BY <1>2, <2>1, ManagerIsAlone
<1>3. QED
  BY <1>1, <1>2 DEF LoudStep

\* The main chunk of an addon runs right above the handler that called it.
LEMMA ScriptEnd ==
    ASSUME LiveInv,
           ScriptFails \/ ((\E ret \in Returns : ScriptReturn(ret)) /\ Top.kind = "main")
    PROVE  /\ Pops /\ Depth > 0 /\ UNCHANGED loaded /\ Top.key \in Keys
           /\ Top.kind \in ScriptKinds
           /\ Top.kind = "main" => Depth = 2
           /\ \A k \in Keys : lua'[k] => lua[k]
<1>1. TypeOK
  BY DEF LiveInv
<1>2. Pops /\ Top.kind \in ScriptKinds /\ Depth > 0 /\ Top.key \in Keys
  <2>1. "main" \in ScriptKinds
    BY DEF ScriptKinds
  <2>2. QED
    BY <1>1, <2>1, ScriptForms DEF Pops
<1>3. Top.kind = "main" => Depth = 2
  BY <1>1, <1>2, DepthIsNat DEF LiveInv, Shape, Top
<1>4. UNCHANGED loaded /\ \A k \in Keys : lua'[k] => lua[k]
  BY <1>1 DEF ScriptFails, ScriptReturn, Release, TypeOK
<1>5. QED
  BY <1>2, <1>3, <1>4

LEMMA LeavesDictionary ==
    ASSUME TypeOK, [Next]_vars, NEW k \in loaded, k \notin loaded'
    PROVE  UnloadBegin(k) \/ UnloadAllVisit(k) \/ DisposeEnd
<1>1. ~QuietStep
  BY DEF QuietStep
<1>2. LoudStep
  BY <1>1, StepKinds
<1>3. QED
  BY <1>2 DEF LoudStep, TickReload, LoadBegin, UnloadBegin, UnloadAllVisit, DisposeVisit,
     LoadInitialized, LoadAdd, UnloadRelease, NotifyThrows, UnloadNotified, ReloadReinit,
     DisposeBegin, DisposeRelease, DisposeEnd, ScriptReturn, ScriptFails

LEMMA ReloadedIsLoadedNext ==
    ASSUME ~ScriptsManage, LiveInv, ReloadedIsLoaded, [Next]_vars
    PROVE  ReloadedIsLoaded'
<1>0. TypeOK /\ {"main", "event"} \subseteq ScriptKinds /\ Depth \in Nat
  BY DepthIsNat DEF LiveInv, ScriptKinds
<1>1. SUFFICES ASSUME Len(stack') > 0, stack'[1].kind = "reload"
               PROVE  stack'[1].key \in loaded'
  BY DEF ReloadedIsLoaded, Depth
<1> DEFINE Stays == Depth > 0 /\ stack'[1].kind = stack[1].kind /\ stack'[1].key = stack[1].key
<1>2. ASSUME NEW f, NEW kind \in ScriptKinds, Enters(f, kind), f.kind # "reload"
      PROVE  Stays
  BY <1>0, <1>1, <1>2, BottomOfEnters
<1>3. ASSUME NEW f, NEW kind \in ScriptKinds, Moves(f, kind),
             Top.kind # "reload" \/ f.key = Top.key
      PROVE  Stays
  BY <1>0, <1>1, <1>3, BottomOfMoves DEF Top
<1>4. ASSUME Pops
      PROVE  Stays
  <2>1. Depth > 1
    BY <1>0, <1>1, <1>4, BottomOfPops DEF Pops
  <2>2. QED
    BY <1>0, <1>4, <2>1, BottomOfPops
<1>5. ASSUME Depth > 1, Aborts
      PROVE  Stays
  <2>1. Len(stack') = Depth - 2 /\ \A i \in 1..Depth - 2 : stack'[i] = stack[i]
    BY <1>0, <1>5, AbortsFacts
  <2>2. QED
    BY <1>0, <1>1, <1>5, <2>1
<1>6. CASE Stays
  <2>1. stack[1].key \in loaded /\ Depth > 0 /\ stack[1].kind = "reload"
    BY <1>1, <1>6 DEF ReloadedIsLoaded
  <2>2. ASSUME Depth > 0, Top.kind \in ManageKinds
        PROVE  Top.kind = "reload"
    BY <2>1, <2>2, ManagerIsAlone DEF Top
  <2>3. ~UnloadBegin(stack[1].key)
    BY <1>0, <2>1 DEF UnloadBegin, CommandEntry
  <2>4. ~UnloadAllVisit(stack[1].key) /\ ~DisposeEnd
    BY <2>2 DEF UnloadAllVisit, DisposeEnd, TopIs, ManageKinds
  <2>5. QED
    BY <1>0, <1>6, <2>1, <2>3, <2>4, LeavesDictionary
<1> HIDE DEF Stays
<1>7. CASE HookStep \/ TickBegin
  BY <1>0, <1>2, <1>3, <1>4, <1>6, <1>7, HookForms
<1>8. CASE TickStep
  BY <1>0, <1>3, <1>4, <1>6, <1>8, TickForms
<1>9. CASE LoadStep
  BY <1>0, <1>2, <1>3, <1>4, <1>6, <1>9, LoadForms DEF LoadStep
<1>10. CASE UnloadStep
  BY <1>0, <1>2, <1>3, <1>4, <1>6, <1>10, UnloadForms DEF UnloadStep
<1>11. CASE ReloadStep
  <2>1. ASSUME NEW k \in Keys, ReloadBegin(k)
        PROVE  stack'[1].key \in loaded'
    <3>1. Depth = 0 /\ k \in loaded /\ loaded' = loaded
      BY <2>1 DEF ReloadBegin, CommandEntry
    <3>2. PICK f : Enters(f, "event") /\ f.key = k
      BY <1>0, <2>1, ReloadForms
    <3>3. QED
      BY <1>0, <3>1, <3>2, BottomOfEnters
  <2>2. QED
    BY <1>0, <1>3, <1>4, <1>6, <1>11, <2>1, ReloadForms DEF ReloadStep
<1>12. CASE DisposeStep
  BY <1>0, <1>2, <1>3, <1>4, <1>6, <1>12, DisposeForms DEF DisposeStep
<1>13. CASE stack' = stack
  BY <1>0, <1>1, <1>6, <1>13 DEF Stays, Depth
<1>14. CASE CallbackStep
  <2>1. stack' = stack \/ \E f : Enters(f, "event") /\ f.kind # "reload"
    BY <1>0, <1>14, ScriptForms DEF CallbackStep, CallbackDrop
  <2>2. QED
    BY <1>0, <1>2, <1>6, <1>13, <2>1
<1>15. CASE ScriptStep
  <2>1. CASE ScriptFails
    BY <1>0, <1>4, <1>6, <2>1, ScriptForms
  <2>2. ASSUME NEW ret \in Returns, ScriptReturn(ret)
        PROVE  Stays
    BY <1>0, <1>4, <1>5, <2>2, ScriptForms
  <2>3. CASE (\E e \in Events : RegisterEvent(e)) \/ (\E n \in Names : RegisterCommand(n))
    BY <1>13, <2>3 DEF RegisterEvent, RegisterCommand
  <2>4. QED
    BY <1>6, <1>15, <2>1, <2>2, <2>3 DEF ScriptStep, RegisterRefused
<1>16. CASE FreeStep \/ UNCHANGED vars
  BY <1>13, <1>16 DEF FreeStep, ReloadConfig, PluginAddsCommand, vars
<1>17. QED
  BY <1>7, <1>8, <1>9, <1>10, <1>11, <1>12, <1>14, <1>15, <1>16 DEF Next

\* Quiet steps keep a bottom frame that works on an addon or disposes them.
LEMMA QuietBottom ==
    ASSUME TypeOK, QuietStep
    PROVE  /\ Depth > 0 /\ ~Plain(stack[1]) => Len(stack') > 0 /\ Same(stack[1], stack'[1])
           /\ Len(stack') > 0 /\ ~Plain(stack'[1]) => Depth > 0 /\ Same(stack[1], stack'[1])
<1>1. PICK n \in 0..Depth : Cut(n) /\ QuietAbove(n)
  BY DEF QuietStep
<1>2. Depth \in Nat
  BY <1>1, DepthIsNat DEF Cut
<1>3. CASE n = 0
  BY <1>1, <1>2, <1>3 DEF QuietAbove
<1>4. CASE n > 0
  BY <1>1, <1>2, <1>4 DEF Cut
<1>5. QED
  BY <1>2, <1>3, <1>4

\* The invariant of the bottom frame.
BottomInv == /\ LiveInv /\ SettledInv
             /\ UnloadedHasJob /\ MainDecides /\ DisposeReaches /\ ReloadedIsLoaded

LEMMA UnloadedHasJobNext ==
    ASSUME ~ScriptsManage, ~DisposeMayThrow, BottomInv, [Next]_vars
    PROVE  UnloadedHasJob'
<1>0. TypeOK /\ {"main", "event"} \subseteq ScriptKinds /\ Depth \in Nat /\ LiveInv
  BY DepthIsNat DEF BottomInv, LiveInv, ScriptKinds
<1>1. SUFFICES ASSUME NEW k \in Keys, k \notin loaded', lua'[k]
               PROVE  Len(stack') > 0 /\ Keeping(stack'[1]) /\ stack'[1].key = k
  BY DEF UnloadedHasJob, Depth
<1>2. ASSUME lua[k], k \notin loaded
      PROVE  Depth > 0 /\ Keeping(stack[1]) /\ stack[1].key = k
  BY <1>2 DEF BottomInv, UnloadedHasJob
<1>3. CASE QuietStep
  <2>1. lua[k] /\ k \notin loaded
    BY <1>1, <1>3 DEF QuietStep
  <2>2. Depth > 0 /\ ~Plain(stack[1])
    BY <1>2, <2>1 DEF Plain, Keeping
  <2>3. Len(stack') > 0 /\ Same(stack[1], stack'[1])
    BY <1>0, <1>3, <2>2, QuietBottom
  <2>4. QED
    BY <1>2, <2>1, <2>3 DEF Same, Keeping, Job, Adding, Removing
<1>4. ASSUME NEW j \in Keys, Depth = 0, LoadBegin(j)
      PROVE  Len(stack') > 0 /\ Keeping(stack'[1]) /\ stack'[1].key = k
  <2>1. loaded' = loaded /\ lua' = [lua EXCEPT ![j] = TRUE]
    BY <1>4 DEF LoadBegin, NewLuaState
  <2>2. k = j
    BY <1>0, <1>1, <1>2, <1>4, <2>1 DEF TypeOK
  <2>3. QED
    BY <1>0, <1>4, <2>2, LoadForms, BottomOfEnters DEF Keeping, Job, Adding
<1>5. ASSUME NEW j \in Keys, Depth = 0, UnloadBegin(j)
      PROVE  Len(stack') > 0 /\ Keeping(stack'[1]) /\ stack'[1].key = k
  <2>1. loaded' = loaded \ {j} /\ lua' = lua
    BY <1>5 DEF UnloadBegin, addonVars
  <2>2. k = j
    BY <1>1, <1>2, <1>5, <2>1
  <2>3. QED
    BY <1>0, <1>5, <2>2, UnloadForms, BottomOfEnters DEF Keeping, Job, Removing
<1>6. ~(Depth = 0 /\ DisposeBegin)
  BY <1>1, <1>2 DEF DisposeBegin, addonVars
<1>7. ASSUME ScriptFails \/ ((\E ret \in Returns : ScriptReturn(ret)) /\ Top.kind = "main")
      PROVE  Len(stack') > 0 /\ Keeping(stack'[1]) /\ stack'[1].key = k
  <2>1. Pops /\ Depth > 0 /\ lua[k] /\ k \notin loaded /\ Top.kind \in ScriptKinds
    BY <1>0, <1>1, <1>7, ScriptEnd
  <2>2. Depth # 1
    BY <1>2, <2>1, ScriptsArePlain DEF Top, Keeping
  <2>3. QED
    BY <1>0, <1>2, <2>1, <2>2, BottomOfPops
<1>8. CASE Depth = 1 /\ LoudStep
  <2>0. stack[1] = Top
    BY <1>8 DEF Top
  <2>1. ASSUME NEW j \in Keys, TickReload(j)
        PROVE  FALSE
    <3>1. loaded' = loaded /\ j \in loaded /\ lua' = [lua EXCEPT ![j] = TRUE]
      BY <2>1 DEF TickReload, NewLuaState
    <3>2. lua[k]
      BY <1>0, <1>1, <3>1 DEF TypeOK
    <3>3. QED
      BY <1>0, <1>1, <1>2, <2>0, <2>1, <3>1, <3>2, ReloadMoves DEF Keeping, Job, Adding, Removing
  <2>2. ASSUME NEW j \in Keys, UnloadAllVisit(j)
        PROVE  Len(stack') > 0 /\ Keeping(stack'[1]) /\ stack'[1].key = k
    <3>1. /\ loaded' = loaded \ {j} /\ lua' = lua
          /\ Top.kind = "unloadall" /\ Top.at = "visit"
      BY <1>0, <2>2, UnloadForms DEF UnloadAllVisit, addonVars
    <3>2. k = j /\ j \in loaded
      BY <1>1, <1>2, <2>0, <3>1 DEF Keeping, Job, Adding, Removing
    <3>3. PICK f : Moves(f, "event") /\ f.at = "release" /\ f.key = j
      BY <1>0, <2>2, <3>2, UnloadForms
    <3>4. Len(stack') > 0 /\ stack'[1] = f /\ f.kind = "unloadall"
      BY <1>0, <1>8, <2>0, <3>1, <3>3, BottomOfMoves
    <3>5. QED
      BY <3>2, <3>3, <3>4 DEF Keeping, Job, Removing
  <2>3. ASSUME NEW j \in Keys, DisposeVisit(j)
        PROVE  FALSE
    <3>1. loaded' = loaded /\ lua' = lua /\ Top.kind = "dispose"
      BY <1>0, <2>3, DisposeForms DEF DisposeVisit, addonVars
    <3>2. QED
      BY <1>1, <1>2, <2>0, <3>1 DEF Keeping, Job, Adding, Removing
  <2>4. CASE LoadInitialized
    <3>1. loaded' = loaded /\ lua' = lua /\ Top.kind = "load" /\ Top.at = "init"
      BY <2>4 DEF LoadInitialized, addonVars, TopIs
    <3>2. Top.key = k /\ lua[k]
      BY <1>1, <1>2, <2>0, <3>1
    <3>3. state[k] = "Ok"
      <4>1. Initializing(stack)
        BY <1>8, <2>0, <3>1 DEF Initializing, Adding, Depth
      <4>2. QED
        BY <1>8, <2>0, <3>2, <4>1 DEF BottomInv, MainDecides
    <3>4. PICK f : Moves(f, "event") /\ f.key = Top.key /\ f.at = "add"
      BY <1>0, <2>4, <3>2, <3>3, LoadForms
    <3>5. Len(stack') > 0 /\ stack'[1] = f /\ f.kind = "load"
      BY <1>0, <1>8, <2>0, <3>1, <3>4, BottomOfMoves
    <3>6. QED
      BY <3>2, <3>4, <3>5 DEF Keeping, Job, Adding
  <2>5. CASE LoadAdd
    BY <1>1, <1>2, <2>0, <2>5 DEF LoadAdd, addonVars
  <2>6. CASE UnloadRelease \/ NotifyThrows \/ UnloadNotified
    <3>1. CASE UnloadRelease
      <4>1. loaded' = loaded /\ Top.key \in Keys /\ lua' = [lua EXCEPT ![Top.key] = FALSE]
        BY <1>0, <3>1, UnloadForms DEF UnloadRelease, Release
      <4>2. k # Top.key /\ lua[k]
        BY <1>0, <1>1, <4>1 DEF TypeOK
      <4>3. QED
        BY <1>1, <1>2, <2>0, <4>1, <4>2
    <3>2. CASE NotifyThrows \/ UnloadNotified
      <4>1. loaded' = loaded /\ lua' = lua /\ Top.at = "notify"
        BY <3>2 DEF NotifyThrows, UnloadNotified, addonVars, TopIs
      <4>2. QED
        BY <1>1, <1>2, <2>0, <4>1 DEF Keeping
    <3>3. QED
      BY <2>6, <3>1, <3>2
  <2>7. CASE ReloadReinit
    <3>1. /\ loaded' = loaded /\ Top.key \in Keys /\ Top.kind = "reload"
          /\ lua' = [lua EXCEPT ![Top.key] = TRUE]
      BY <1>0, <2>7, ReloadForms DEF ReloadReinit, NewLuaState
    <3>2. Top.key \in loaded
      BY <1>8, <2>0, <3>1 DEF BottomInv, ReloadedIsLoaded
    <3>3. lua[k]
      BY <1>0, <1>1, <3>1, <3>2 DEF TypeOK
    <3>4. QED
      BY <1>1, <1>2, <2>0, <3>1, <3>3 DEF Keeping, Job, Adding, Removing
  <2>8. CASE DisposeRelease
    <3>1. loaded' = loaded /\ Top.kind = "dispose" /\ lua[k]
      BY <1>0, <1>1, <2>8, DisposeForms DEF DisposeRelease, Release, TypeOK
    <3>2. QED
      BY <1>1, <1>2, <2>0, <3>1 DEF Keeping, Job, Adding, Removing
  <2>9. CASE DisposeEnd
    <3>1. Top.kind = "dispose" /\ Top.at = "visit" /\ Top.todo = {} /\ lua' = lua
      BY <2>9 DEF DisposeEnd, TopIs, addonVars
    <3>2. Disposing(stack)
      BY <1>8, <2>0, <3>1 DEF Disposing, Depth
    <3>3. QED
      BY <1>1, <2>0, <3>1, <3>2 DEF BottomInv, DisposeReaches
  <2>10. QED
    BY <1>0, <1>8, <2>1, <2>2, <2>3, <2>4, <2>5, <2>6, <2>7, <2>8, <2>9, LoudByDepth, <1>7
<1>9. QED
  BY <1>0, <1>3, <1>4, <1>5, <1>6, <1>7, <1>8, LoudByDepth, StepKinds

LEMMA DisposeReachesNext ==
    ASSUME ~ScriptsManage, ~DisposeMayThrow, BottomInv, [Next]_vars
    PROVE  DisposeReaches'
<1>0. TypeOK /\ {"main", "event"} \subseteq ScriptKinds /\ Depth \in Nat /\ LiveInv
  BY DepthIsNat DEF BottomInv, LiveInv, ScriptKinds
<1>1. SUFFICES ASSUME NEW k \in Keys, lua'[k], Len(stack') > 0, stack'[1].kind = "dispose"
               PROVE  \/ k \in stack'[1].todo
                      \/ stack'[1].at = "release" /\ stack'[1].key = k
  BY DEF DisposeReaches, Disposing
<1>2. ASSUME lua[k], Depth > 0, stack[1].kind = "dispose"
      PROVE  k \in stack[1].todo \/ (stack[1].at = "release" /\ stack[1].key = k)
  BY <1>2 DEF BottomInv, DisposeReaches, Disposing, Depth
<1>3. ASSUME lua[k], Depth > 0, Same(stack[1], stack'[1])
      PROVE  k \in stack'[1].todo \/ (stack'[1].at = "release" /\ stack'[1].key = k)
  BY <1>1, <1>2, <1>3 DEF Same
<1>4. CASE QuietStep
  <2>1. Depth > 0 /\ Same(stack[1], stack'[1])
    BY <1>0, <1>1, <1>4, QuietBottom DEF Plain
  <2>2. QED
    BY <1>1, <1>3, <1>4, <2>1 DEF QuietStep
<1>5. ASSUME Depth = 0, DisposeBegin \/ \E j \in Keys : LoadBegin(j) \/ UnloadBegin(j)
      PROVE  k \in stack'[1].todo
  <2>1. ~\E j \in Keys : LoadBegin(j) \/ UnloadBegin(j)
    BY <1>0, <1>1, <1>5, LoadForms, UnloadForms, BottomOfEnters
  <2>2. lua[k] /\ k \in loaded
    BY <1>1, <1>5, <2>1 DEF DisposeBegin, addonVars, BottomInv, UnloadedHasJob
  <2>3. PICK f : Enters(f, "event") /\ f.todo = loaded
    BY <1>0, <1>5, <2>1, DisposeForms
  <2>4. QED
    BY <1>0, <1>5, <2>2, <2>3, BottomOfEnters
<1>6. ASSUME ScriptFails \/ ((\E ret \in Returns : ScriptReturn(ret)) /\ Top.kind = "main")
      PROVE  k \in stack'[1].todo \/ (stack'[1].at = "release" /\ stack'[1].key = k)
  <2>1. Pops /\ Depth > 0 /\ lua[k]
    BY <1>0, <1>1, <1>6, ScriptEnd
  <2>2. stack'[1] = stack[1]
    BY <1>0, <1>1, <2>1, BottomOfPops
  <2>3. QED
    BY <1>3, <2>1, <2>2 DEF Same
<1>7. CASE Depth = 1 /\ LoudStep
  <2>0. stack[1] = Top
    BY <1>7 DEF Top
  <2>1. ASSUME NEW f, NEW kind \in ScriptKinds, Moves(f, kind)
        PROVE  stack'[1] = f /\ Top.kind = "dispose"
    BY <1>0, <1>1, <1>7, <2>0, <2>1, BottomOfMoves
  <2>2. ~Pops
    BY <1>0, <1>1, <1>7, BottomOfPops
  <2>3. ASSUME NEW j \in Keys, TickReload(j) \/ UnloadAllVisit(j)
        PROVE  FALSE
    BY <1>0, <2>1, <2>3, ReloadMoves, UnloadForms
  <2>4. ~(LoadInitialized \/ LoadAdd \/ UnloadRelease \/ NotifyThrows \/ UnloadNotified
         \/ ReloadReinit \/ DisposeEnd)
    BY <1>0, <2>1, <2>2, LoadForms, UnloadForms, ReloadForms, DisposeForms
  <2>5. ASSUME NEW j \in Keys, DisposeVisit(j)
        PROVE  k \in stack'[1].todo \/ (stack'[1].at = "release" /\ stack'[1].key = k)
    <3>1. PICK f : Moves(f, "event") /\ f.at = "release" /\ f.key = j /\ f.todo = Top.todo \ {j}
      BY <1>0, <2>5, DisposeForms
    <3>2. lua[k] /\ Top.kind = "dispose" /\ Top.at = "visit"
      BY <1>0, <1>1, <2>5, DisposeForms DEF DisposeVisit, addonVars
    <3>3. k \in Top.todo
      BY <1>2, <1>7, <2>0, <3>2
    <3>4. QED
      BY <1>0, <2>1, <3>1, <3>3
  <2>6. CASE DisposeRelease
    <3>1. PICK f : Moves(f, "event") /\ f.at = "visit" /\ f.todo = Top.todo
      BY <1>0, <2>6, DisposeForms
    <3>2. Top.kind = "dispose" /\ Top.key \in Keys /\ lua' = [lua EXCEPT ![Top.key] = FALSE]
      BY <1>0, <2>6, DisposeForms DEF DisposeRelease, Release
    <3>3. lua[k] /\ k # Top.key
      BY <1>0, <1>1, <3>2 DEF TypeOK
    <3>4. k \in Top.todo
      BY <1>2, <1>7, <2>0, <3>2, <3>3
    <3>5. QED
      BY <1>0, <2>1, <3>1, <3>4
  <2>7. QED
    BY <1>0, <1>6, <1>7, <2>3, <2>4, <2>5, <2>6, LoudByDepth
<1>8. QED
  BY <1>0, <1>4, <1>5, <1>6, <1>7, LoudByDepth, StepKinds

\* The handler that initializes an addon goes on once it is on top again.
LEMMA InitializerGoesOn ==
    ASSUME ~ScriptsManage, TypeOK, [Next]_vars, Depth > 0, Top.kind = "load", Top.at = "init"
    PROVE  LoadInitialized \/ UNCHANGED <<stack, state, lua>>
<1>1. ~Running /\ ~CommandEntry /\ ~HookEntry /\ Depth # 0
  BY DEF Running, ScriptOnTop, CommandEntry, HookEntry, TopIs, ScriptKinds
<1> USE DEF TopIs, addonVars
<1>2. ~(HookStep \/ TickBegin)
  BY <1>1 DEF HookStep, TickBegin, HookBegin, Visit, HookEnd
<1>3. ~TickStep
  BY <1>1 DEF TickStep, TickScan, TickReload, TickSkip, TickOnLoad, TickEnd
<1>4. LoadStep => LoadInitialized
  BY <1>1 DEF LoadStep, LoadBegin, LoadAdd
<1>5. ~UnloadStep
  BY <1>1 DEF UnloadStep, UnloadBegin, UnloadAllVisit, UnloadAllBegin, UnloadRelease,
     NotifyThrows, UnloadNotified, UnloadAllEnd
<1>6. ~ReloadStep
  BY <1>1 DEF ReloadStep, ReloadBegin, ReloadReinit, ReloadThrows, ReloadOnLoad, ReloadEnd
<1>7. ~DisposeStep
  BY <1>1 DEF DisposeStep, DisposeBegin, DisposeVisit, DisposeRelease, DisposeEnd
<1>8. ~CallbackStep /\ ~ScriptStep
  BY <1>1 DEF CallbackStep, CallbackInvoke, CallbackDrop, ScriptStep, RegisterEvent,
     RegisterCommand, RegisterRefused, ScriptReturn, ScriptFails, ScriptOnTop, ScriptKinds
<1>9. FreeStep \/ UNCHANGED vars => UNCHANGED <<stack, state, lua>>
  BY DEF FreeStep, ReloadConfig, PluginAddsCommand, vars
<1>10. QED
  BY <1>2, <1>3, <1>4, <1>5, <1>6, <1>7, <1>8, <1>9 DEF Next

LEMMA MainDecidesNext ==
    ASSUME ~ScriptsManage, ~DisposeMayThrow, BottomInv, [Next]_vars
    PROVE  MainDecides'
<1>0. TypeOK /\ {"main", "event"} \subseteq ScriptKinds /\ Depth \in Nat /\ LiveInv
      /\ Depth = Len(stack)
  BY DepthIsNat DEF BottomInv, LiveInv, ScriptKinds
<1> DEFINE Goal == \/ /\ Len(stack') = 1
                      /\ state'[stack'[1].key] = "Ok" \/ ~lua'[stack'[1].key]
                   \/ /\ Len(stack') > 1
                      /\ stack'[2].kind = "main" /\ stack'[2].key = stack'[1].key
<1>1. SUFFICES ASSUME Len(stack') > 0, stack'[1].kind = "load", stack'[1].at = "init"
               PROVE  Goal
  BY DEF MainDecides, Initializing, Adding, Depth
<1>2. ASSUME Depth > 0, Same(stack[1], stack'[1])
      PROVE  \/ Depth = 1 /\ (state[stack[1].key] = "Ok" \/ ~lua[stack[1].key])
             \/ Depth > 1 /\ stack[2].kind = "main" /\ stack[2].key = stack[1].key
  BY <1>0, <1>1, <1>2 DEF Same, Initializing, Adding, BottomInv, MainDecides
<1>3. ASSUME NEW f, NEW kind \in ScriptKinds, Moves(f, kind), Depth = 1
      PROVE  stack'[1] = f /\ Top.kind = "load"
  BY <1>0, <1>1, <1>3, BottomOfMoves DEF Top
<1>4. Depth = 1 => ~LoadInitialized /\ ~LoadAdd
  <2>1. Depth = 1 => ~Pops
    BY <1>0, <1>1, BottomOfPops
  <2>2. QED
    BY <1>0, <1>1, <1>3, <2>1, LoadForms
<1>5. CASE QuietStep
  <2>1. Depth > 0 /\ Same(stack[1], stack'[1])
    BY <1>0, <1>1, <1>5, QuietBottom DEF Plain, Job, Adding
  <2>2. CASE Depth = 1
    <3>1. Top.kind = "load" /\ Top.at = "init"
      BY <1>1, <2>1, <2>2 DEF Top, Same
    <3>2. UNCHANGED <<stack, state, lua>>
      BY <1>0, <1>4, <2>2, <3>1, InitializerGoesOn
    <3>3. QED
      BY <1>0, <1>2, <2>1, <2>2, <3>2
  <2>3. CASE Depth # 1
    <3>1. Depth > 1 /\ stack[2].kind = "main" /\ stack[2].key = stack[1].key
      BY <1>2, <2>1, <2>3
    <3>2. PICK n \in 0..Depth : Cut(n) /\ QuietAbove(n)
      BY <1>5 DEF QuietStep
    <3>3. n > 1
      BY <1>0, <3>1, <3>2 DEF QuietAbove, Plain
    <3>4. Len(stack') > 1 /\ Same(stack[2], stack'[2])
      BY <1>0, <3>2, <3>3 DEF Cut
    <3>5. QED
      BY <2>1, <3>1, <3>4 DEF Same
  <2>4. QED
    BY <2>2, <2>3
<1>6. ASSUME Depth = 0, DisposeBegin \/ \E j \in Keys : LoadBegin(j) \/ UnloadBegin(j)
      PROVE  Goal
  <2>1. ~DisposeBegin /\ ~\E j \in Keys : UnloadBegin(j)
    BY <1>0, <1>1, <1>6, DisposeForms, UnloadForms, BottomOfEnters
  <2>2. PICK j \in Keys : LoadBegin(j)
    BY <1>6, <2>1
  <2>3. PICK f : /\ Enters(f, "main") /\ f.key = j
                 /\ stack' = Append(Append(stack, f), ScriptFrame("main", j))
    BY <1>0, <2>2, LoadForms
  <2>4. stack'[1] = f
    BY <1>0, <1>6, <2>3, BottomOfEnters
  <2> DEFINE t == Append(stack, f)
  <2>5. t \in Seq(Frame) /\ Len(t) = 1
    <3>1. stack \in Seq(Frame) /\ f \in Frame /\ Len(stack) = 0
      BY <1>0, <1>6, <2>3, DepthIsNat DEF Enters
    <3>2. QED
      BY <3>1
  <2>6. /\ ScriptFrame("main", j) \in Frame
        /\ ScriptFrame("main", j).kind = "main" /\ ScriptFrame("main", j).key = j
    BY <1>0, ScriptFrameIsFrame DEF ScriptFrame, HostFrame
  <2> HIDE DEF t
  <2>7. Len(stack') = 2 /\ stack'[2] = ScriptFrame("main", j)
    <3>1. stack' = Append(t, ScriptFrame("main", j))
      BY <2>3 DEF t
    <3>2. Len(stack') = Len(t) + 1 /\ stack'[Len(t) + 1] = ScriptFrame("main", j)
      BY <2>5, <2>6, <3>1, PushFrame
    <3>3. QED
      BY <2>5, <3>2
  <2>8. QED
    BY <2>3, <2>4, <2>6, <2>7
<1>7. ASSUME ScriptFails \/ ((\E ret \in Returns : ScriptReturn(ret)) /\ Top.kind = "main")
      PROVE  Goal
  <2>1. Pops /\ Depth > 0 /\ Top.key \in Keys
    BY <1>0, <1>7, ScriptEnd
  <2>2. Depth > 1 /\ stack'[1] = stack[1] /\ Len(stack') = Depth - 1
    BY <1>0, <1>1, <2>1, BottomOfPops
  <2>3. stack[2].kind = "main" /\ stack[2].key = stack[1].key
    BY <1>0, <1>2, <2>2 DEF Same
  <2>4. CASE Depth = 2
    <3>1. Top = stack[2] /\ Len(stack') = 1
      BY <2>2, <2>4 DEF Top
    <3>2. state'[Top.key] = "Ok" \/ ~lua'[Top.key]
      BY <1>0, <1>7, <2>1, <2>3, <3>1 DEF ScriptReturn, ScriptFails, Release, TypeOK
    <3>3. QED
      BY <2>2, <2>3, <3>1, <3>2
  <2>5. CASE Depth > 2
    BY <1>0, <2>1, <2>2, <2>3, <2>5, BottomOfPops
  <2>6. QED
    BY <1>0, <2>2, <2>4, <2>5
<1>8. CASE Depth = 1 /\ LoudStep
  <2>1. ~Pops
    BY <1>0, <1>1, <1>8, BottomOfPops
  <2>2. ASSUME NEW j \in Keys, TickReload(j) \/ UnloadAllVisit(j) \/ DisposeVisit(j)
        PROVE  FALSE
    BY <1>0, <1>3, <1>8, <2>2, ReloadMoves, UnloadForms, DisposeForms
  <2>3. ~(UnloadRelease \/ NotifyThrows \/ UnloadNotified \/ ReloadReinit \/ DisposeRelease
         \/ DisposeEnd)
    BY <1>0, <1>3, <1>8, <2>1, UnloadForms, ReloadForms, DisposeForms
  <2>4. QED
    BY <1>0, <1>4, <1>7, <1>8, <2>2, <2>3, LoudByDepth
<1> HIDE DEF Goal
<1>9. QED
  BY <1>0, <1>5, <1>6, <1>7, <1>8, LoudByDepth, StepKinds

LEMMA BottomInvariant ==
    ASSUME ~ScriptsManage, ~DisposeMayThrow
    PROVE  Spec => []BottomInv
<1>1. Init => UnloadedHasJob /\ MainDecides /\ DisposeReaches /\ ReloadedIsLoaded
  BY DEF Init, UnloadedHasJob, MainDecides, Initializing, DisposeReaches, Disposing,
     ReloadedIsLoaded, Depth
<1> DEFINE Parts == UnloadedHasJob /\ MainDecides /\ DisposeReaches /\ ReloadedIsLoaded
<1>2. LiveInv /\ SettledInv /\ Parts /\ [Next]_vars => Parts'
  <2> SUFFICES ASSUME BottomInv, [Next]_vars
               PROVE  Parts'
    BY DEF BottomInv
  <2>1. UnloadedHasJob' /\ MainDecides' /\ DisposeReaches'
    BY UnloadedHasJobNext, MainDecidesNext, DisposeReachesNext
  <2>2. ReloadedIsLoaded'
    BY ReloadedIsLoadedNext DEF BottomInv
  <2>3. QED
    BY <2>1, <2>2
<1>3. LiveInv /\ SettledInv /\ Parts => BottomInv
  BY DEF BottomInv
<1>4. Init => Parts
  BY <1>1
<1> HIDE DEF Parts
<1>5. QED
  BY <1>2, <1>3, <1>4, LiveInvariant, SettledInvariant, PTL DEF Spec

\* The steps that take commands from an addon: an unload, a reload, Dispose, and a
\* call of a command whose owner is not loaded.
LEMMA LosesCommands ==
    ASSUME TypeOK, [Next]_vars, NEW k \in Keys, NEW c \in owned[k], c \notin owned'[k]
    PROVE  \/ (UnloadNotified \/ ReloadReinit) /\ k = Top.key
           \/ DisposeEnd
           \/ \E d \in Commands : CallbackDrop(d, k)
<1>1. ~(HookStep \/ TickBegin \/ TickStep \/ LoadStep \/ FreeStep \/ UNCHANGED vars)
  BY DEF HookStep, HookBegin, TickBegin, Dispatch, Visit, HookEnd, TickStep, TickScan, TickReload,
     TickSkip, TickOnLoad, TickEnd, LoadStep, LoadBegin, LoadInitialized, LoadAdd, FreeStep,
     ReloadConfig, PluginAddsCommand, vars
<1>2. UnloadStep => UnloadNotified /\ k = Top.key
  BY DEF UnloadStep, UnloadBegin, UnloadAllVisit, UnloadAllBegin, UnloadAllEnd,
     UnloadRelease, NotifyThrows, UnloadNotified,
     RemoveAddonCommands, RemoveAddonCommandsThrows, TypeOK
<1>3. ReloadStep => ReloadReinit /\ k = Top.key
  BY DEF ReloadStep, ReloadBegin, ReloadReinit, ReloadThrows, ReloadOnLoad, ReloadEnd,
     RemoveAddonCommands, RemoveAddonCommandsThrows, TypeOK
<1>4. DisposeStep => DisposeEnd
  BY DEF DisposeStep, DisposeBegin, DisposeVisit, DisposeRelease, DisposeEnd
<1>5. CallbackStep => \E d \in Commands : CallbackDrop(d, k)
  BY DEF CallbackStep, CallbackInvoke, CallbackDrop, TypeOK
<1>6. ~ScriptStep
  <2>1. ~\E n \in Names : RegisterCommand(n)
    BY DEF RegisterCommand, TypeOK
  <2>2. ~\E e \in Events : RegisterEvent(e)
    BY DEF RegisterEvent
  <2>3. ~ScriptFails /\ ~\E ret \in Returns : ScriptReturn(ret)
    BY DEF ScriptReturn, ScriptFails
  <2>4. QED
    BY <2>1, <2>2, <2>3 DEF ScriptStep, RegisterRefused
<1>7. QED
  BY <1>1, <1>2, <1>3, <1>4, <1>5, <1>6 DEF Next

LEMMA CallbacksAreOwnedNext ==
    ASSUME ~ScriptsManage, ~DisposeMayThrow, BottomInv, CallbacksAreOwned, [Next]_vars
    PROVE  CallbacksAreOwned'
<1>0. TypeOK
  BY DEF BottomInv, LiveInv
<1>1. SUFFICES ASSUME NEW k \in Keys, lua'[k], NEW n \in callbacks'[k]
               PROVE  Lower[n] \in owned'[k]
  BY DEF CallbacksAreOwned
\* The function was registered before, or is registered now.
<1>2. \/ lua[k] /\ n \in callbacks[k] /\ Lower[n] \in owned[k]
      \/ Lower[n] \in owned'[k]
  <2>1. ASSUME lua[k], n \in callbacks[k]
        PROVE  Lower[n] \in owned[k]
    BY <2>1 DEF CallbacksAreOwned
  <2>2. ASSUME NEW j \in Keys, NewLuaState(j)
        PROVE  lua[k] /\ n \in callbacks[k]
    BY <1>0, <1>1, <2>2 DEF NewLuaState, TypeOK
  <2>3. ASSUME NEW j \in Keys, NEW s \in {"Released", "Error"}, NEW m \in Nat,
               Release(j, s, m)
        PROVE  lua[k] /\ n \in callbacks[k]
    BY <1>0, <1>1, <2>3 DEF Release, TypeOK
  <2>4. ASSUME NEW j \in Keys, NEW m \in Names, lua[j],
               callbacks' = [callbacks EXCEPT ![j] = @ \cup {m}],
               owned' = [owned EXCEPT ![j] = @ \cup {Lower[m]}],
               UNCHANGED <<state, lua>>
        PROVE  \/ lua[k] /\ n \in callbacks[k]
               \/ Lower[n] \in owned'[k]
    BY <1>0, <1>1, <2>4 DEF TypeOK
  <2>5. QED
    BY <1>0, <1>1, <2>1, <2>2, <2>3, <2>4, AddonChanges
<1>3. ASSUME lua[k], n \in callbacks[k], Lower[n] \in owned[k], Lower[n] \notin owned'[k]
      PROVE  FALSE
  <2>1. CASE UnloadNotified /\ k = Top.key
    <3>1. Depth > 0 /\ Top.kind \in {"unload", "unloadall"} /\ Top.at = "notify"
      BY <2>1 DEF UnloadNotified, TopIs
    <3>2. k \notin loaded
      BY <1>0, <2>1, <3>1, TopJobAlone DEF BottomInv, SettledInv, Job, Removing
    <3>3. Depth = 1
      BY <3>1, ManagerIsAlone DEF BottomInv, ManageKinds
    <3>4. QED
      BY <1>3, <3>1, <3>2, <3>3 DEF Top, BottomInv, UnloadedHasJob, Keeping
  <2>2. CASE ReloadReinit /\ k = Top.key
    BY <1>0, <1>1, <2>2 DEF ReloadReinit, NewLuaState, TypeOK
  <2>3. CASE DisposeEnd
    <3>1. Depth > 0 /\ Top.kind = "dispose" /\ Top.at = "visit" /\ Top.todo = {}
      BY <2>3 DEF DisposeEnd, TopIs
    <3>2. Depth = 1
      BY <3>1, ManagerIsAlone DEF BottomInv, ManageKinds
    <3>3. QED
      BY <1>3, <3>1, <3>2 DEF Top, Depth, BottomInv, DisposeReaches, Disposing
  <2>4. ASSUME NEW d \in Commands, CallbackDrop(d, k)
        PROVE  FALSE
    <3>1. k \notin loaded /\ Depth = 0
      BY <2>4 DEF CallbackDrop, CommandEntry
    <3>2. QED
      BY <1>3, <3>1 DEF BottomInv, UnloadedHasJob
  <2>5. QED
    BY <1>0, <1>3, <2>1, <2>2, <2>3, <2>4, LosesCommands
<1>4. QED
  BY <1>2, <1>3

\* Where scripts do not issue /addon commands themselves and disposing a Lua state
\* does not fail, a function in the command table of a live addon is under a
\* command that the addon owns: a command never calls another addon's function.
\* Other plugins may add chat commands at any time.
THEOREM LiveCallbacksAreOwned ==
    ASSUME ~ScriptsManage, ~DisposeMayThrow
    PROVE  Spec => []CallbacksAreOwned
<1>1. Init => CallbacksAreOwned
  BY DEF Init, CallbacksAreOwned
<1>2. QED
  BY <1>1, CallbacksAreOwnedNext, BottomInvariant, PTL DEF Spec
-----------------------------------------------------------------------------
(* The host implements the command registry *)

\* Whatever a step does to the addons, it does to one.
Spared(k) == \A j \in Keys \ {k} : state'[j] = state[j] /\ lua'[j] = lua[j]

LEMMA OneAddonChanges ==
    ASSUME TypeOK, [Next]_vars
    PROVE  UNCHANGED <<state, lua>> \/ \E k \in Keys : Spared(k)
<1>1. ASSUME NEW k \in Keys, NEW s, NEW n, Release(k, s, n)
      PROVE  Spared(k)
  BY <1>1 DEF Release, Spared, TypeOK
<1>2. ASSUME NEW k \in Keys, NewLuaState(k)
      PROVE  Spared(k)
  BY <1>2 DEF NewLuaState, Spared, TypeOK
<1>3. ASSUME NEW k \in Keys, NEW s, state' = [state EXCEPT ![k] = s], UNCHANGED lua
      PROVE  Spared(k)
  BY <1>3 DEF Spared, TypeOK
<1>4. QED
  BY <1>1, <1>2, <1>3, AddonChanges

Status(k)  == StatusIn(loaded, state, lua, k)
StatusMap  == [k \in Keys |-> Status(k)]
RouteMap   == [c \in Commands |-> Owner(c)]

LEMMA StatusFacts ==
    /\ \A k \in Keys : StatusMap[k] \in {"out", "busy", "serving"}
    /\ \A k \in Keys : StatusMap'[k] \in {"out", "busy", "serving"}
    /\ \A k \in Keys : StatusMap[k] = "out" <=> k \notin loaded
    /\ UNCHANGED <<loaded, state, lua>> => StatusMap' = StatusMap
BY DEF StatusMap, Status, StatusIn

\* A step that changes one addon only changes its status.
LEMMA OneStatusChanges ==
    ASSUME NEW k \in Keys, Spared(k),
           \A j \in Keys \ {k} : j \in loaded' <=> j \in loaded
    PROVE  StatusMap' = [StatusMap EXCEPT ![k] = StatusMap'[k]]
<1>1. \A j \in Keys \ {k} : Status(j)' = Status(j)
  BY DEF Status, StatusIn, Spared
<1>2. QED
  BY <1>1 DEF StatusMap

\* What the owners of the commands are before and after a step.
LEMMA RouteFacts ==
    ASSUME TypeOK, CommandOwnedOnce, [Next]_vars, NEW c \in Commands
    PROVE  /\ \A k \in Keys : c \in owned[k] => Owner(c) = k
           /\ (\A k \in Keys : c \notin owned[k]) => Owner(c) = NoKey
           /\ Owner(c) = NoKey => \A k \in Keys : c \notin owned[k]
           /\ \A k \in Keys : c \in owned'[k] => Owner(c)' = k
           /\ (\A k \in Keys : c \notin owned'[k]) => Owner(c)' = NoKey
<1>1. CommandOwnedOnce'
  BY OwnedOnceStep
<1>2. QED
  BY <1>1, OwnerFacts DEF CommandOwnedOnce, Owner

LEMMA RouteOfWithdrawal ==
    ASSUME TypeOK, CommandOwnedOnce, [Next]_vars, NEW k \in Keys, Withdraws(k)
    PROVE  RouteMap' = [c \in Commands |-> IF RouteMap[c] = k THEN NoKey ELSE RouteMap[c]]
<1>1. owned' = [owned EXCEPT ![k] = {}] /\ owned \in [Keys -> SUBSET Commands]
  BY DEF Withdraws, RemoveAddonCommands, TypeOK
<1>2. ASSUME NEW c \in Commands
      PROVE  Owner(c)' = IF Owner(c) = k THEN NoKey ELSE Owner(c)
  <2>1. CASE c \in owned[k]
    <3>1. Owner(c) = k /\ \A j \in Keys : c \notin owned'[j]
      BY <1>1, <2>1, RouteFacts DEF CommandOwnedOnce
    <3>2. QED
      BY <3>1, RouteFacts
  <2>2. CASE \E j \in Keys \ {k} : c \in owned[j]
    BY <1>1, <2>2, RouteFacts
  <2>3. CASE \A j \in Keys : c \notin owned[j]
    <3>1. \A j \in Keys : c \notin owned'[j]
      BY <1>1, <2>3
    <3>2. QED
      BY <2>3, <3>1, RouteFacts
  <2>4. QED
    BY <2>1, <2>2, <2>3
<1>3. QED
  BY <1>2 DEF RouteMap

LEMMA RefinesStep ==
    ASSUME TypeOK, CommandOwnedOnce, Jobs, [Next]_vars
    PROVE  [Registry!RegistryNext]_(Registry!registryVars)
<1> USE DEF TypeOK
<1>0. /\ Registry!registryVars = <<RouteMap, StatusMap>>
      /\ Registry!registryVars' = <<RouteMap', StatusMap'>>
      /\ \A k \in Keys : Registry!Without(k) =
            [c \in Commands |-> IF RouteMap[c] = k THEN NoKey ELSE RouteMap[c]]
  BY DEF Registry!registryVars, Registry!Without, RouteMap, StatusMap, Status
<1>1. UNCHANGED owned => RouteMap' = RouteMap
  BY DEF RouteMap, Owner
<1>2. ASSUME NEW k \in Keys, Spared(k), UNCHANGED owned,
             \A j \in Keys \ {k} : j \in loaded' <=> j \in loaded
      PROVE  Registry!Change(k)
  <2>1. StatusMap' = [StatusMap EXCEPT ![k] = StatusMap'[k]]
    BY <1>2, OneStatusChanges
  <2>2. StatusMap'[k] \in {"out", "busy", "serving"}
    BY StatusFacts
  <2>3. StatusMap' \in {[StatusMap EXCEPT ![k] = s] : s \in {"out", "busy", "serving"}}
    BY <2>1, <2>2
  <2>4. QED
    BY <1>1, <1>2, <2>3 DEF Registry!Change, RouteMap, StatusMap, Status
<1>3. CASE Keeps
  <2>1. CASE UNCHANGED <<state, lua>>
    BY <1>0, <1>1, <1>3, <2>1, StatusFacts DEF Keeps
  <2>2. ASSUME NEW k \in Keys, Spared(k)
        PROVE  Registry!RegistryNext
    BY <1>2, <1>3, <2>2 DEF Keeps, Registry!RegistryNext
  <2>3. QED
    BY <2>1, <2>2, OneAddonChanges
<1>4. ASSUME NEW k \in Keys, Withdraws(k)
      PROVE  Registry!RegistryNext
  <2>1. RouteMap' = Registry!Without(k) /\ UNCHANGED loaded
    BY <1>0, <1>4, RouteOfWithdrawal DEF Withdraws
  <2>2. CASE StatusMap[k] = "out" /\ StatusMap' = StatusMap
    <3>1. Registry!Withdraw(k)
      BY <2>1, <2>2 DEF Registry!Withdraw, RouteMap, StatusMap, Status
    <3>2. QED
      BY <3>1 DEF Registry!RegistryNext
  <2>3. CASE UnloadNotified
    <3>1. Depth > 0 /\ Removing(Top) /\ UNCHANGED <<state, lua>>
      BY <2>3 DEF UnloadNotified, TopIs, Removing, addonVars
    <3>2. k \notin loaded
      BY <1>4, <3>1, TopJobAlone DEF Withdraws, Job
    <3>3. QED
      BY <2>1, <2>2, <3>1, <3>2, StatusFacts
  <2>4. CASE ReloadReinit
    <3>1. NewLuaState(k) /\ Spared(k)
      BY <1>4, <2>4 DEF ReloadReinit, Withdraws, NewLuaState, Spared
    <3>2. StatusMap' = [StatusMap EXCEPT ![k] = StatusMap'[k]]
      BY <2>1, <3>1, OneStatusChanges
    <3>3. StatusMap'[k] = IF k \in loaded THEN "busy" ELSE "out"
      BY <2>1, <3>1 DEF StatusMap, Status, StatusIn, NewLuaState
    <3>4. CASE k \in loaded
      <4>1. StatusMap[k] # "out" /\ StatusMap' = [StatusMap EXCEPT ![k] = "busy"]
        BY <3>2, <3>3, <3>4, StatusFacts
      <4>2. Registry!Reset(k)
        BY <2>1, <4>1 DEF Registry!Reset, RouteMap, StatusMap, Status
      <4>3. QED
        BY <4>2 DEF Registry!RegistryNext
    <3>5. CASE k \notin loaded
      <4>1. StatusMap[k] = "out"
        BY <3>5, StatusFacts
      <4>2. StatusMap' = StatusMap
        BY <3>2, <3>3, <3>5, <4>1 DEF StatusMap
      <4>3. QED
        BY <2>2, <4>1, <4>2
    <3>6. QED
      BY <3>4, <3>5
  <2>5. QED
    BY <1>4, <2>3, <2>4 DEF Withdraws
<1>5. ASSUME NEW c \in Commands, NEW k \in Keys, Evicts(c, k)
      PROVE  Registry!Evict(c)
  <2>1. RouteMap[c] = k /\ RouteMap[c] # NoKey /\ StatusMap[k] = "out" /\ StatusMap' = StatusMap
    BY <1>5, RouteFacts, StatusFacts, NoKeyAssumption DEF Evicts, RouteMap
  <2>2. Owner(c)' = NoKey
    <3>1. \A j \in Keys : c \notin owned'[j]
      BY <1>5 DEF Evicts, CommandOwnedOnce
    <3>2. QED
      BY <3>1, RouteFacts
  <2>3. ASSUME NEW d \in Commands, d # c
        PROVE  Owner(d)' = Owner(d)
    <3>1. \A j \in Keys : d \in owned'[j] <=> d \in owned[j]
      BY <1>5, <2>3 DEF Evicts
    <3>2. QED
      BY <3>1, RouteFacts
  <2>4. RouteMap' = [RouteMap EXCEPT ![c] = NoKey]
    BY <2>2, <2>3 DEF RouteMap
  <2>5. QED
    BY <2>1, <2>4 DEF Registry!Evict, RouteMap, StatusMap, Status
<1>6. ASSUME NEW c \in Commands, NEW k \in Keys, Claims(c, k)
      PROVE  Registry!Claim(c, k)
  <2>1. RouteMap[c] = NoKey /\ StatusMap' = StatusMap
    BY <1>6, RouteFacts, StatusFacts DEF Claims, Unowned, RouteMap
  <2>2. Owner(c)' = k
    BY <1>6, RouteFacts DEF Claims
  <2>3. ASSUME NEW d \in Commands, d # c
        PROVE  Owner(d)' = Owner(d)
    <3>1. \A j \in Keys : d \in owned'[j] <=> d \in owned[j]
      BY <1>6, <2>3 DEF Claims
    <3>2. QED
      BY <3>1, RouteFacts
  <2>4. RouteMap' = [RouteMap EXCEPT ![c] = k]
    BY <2>2, <2>3 DEF RouteMap
  <2>5. QED
    BY <2>1, <2>4 DEF Registry!Claim, RouteMap, StatusMap, Status
<1>7. ASSUME NEW k \in Keys, Joins(k) \/ Leaves(k)
      PROVE  Registry!Change(k)
  <2>1. /\ Spared(k) /\ UNCHANGED owned
        /\ \A j \in Keys \ {k} : j \in loaded' <=> j \in loaded
    BY <1>7 DEF Joins, Leaves, Spared
  <2>2. QED
    BY <1>2, <2>1
<1>8. CASE Closes
  <2>1. RouteMap' = [c \in Commands |-> NoKey]
    <3>1. \A c \in Commands : Owner(c)' = NoKey
      BY <1>8, RouteFacts DEF Closes
    <3>2. QED
      BY <3>1 DEF RouteMap
  <2>2. StatusMap' = [k \in Keys |-> "out"]
    BY <1>8 DEF Closes, StatusMap, Status, StatusIn
  <2>3. QED
    BY <2>1, <2>2 DEF Registry!Close, Registry!RegistryNext, RouteMap, StatusMap, Status
<1>9. QED
  BY <1>3, <1>4, <1>5, <1>6, <1>7, <1>8, RegistryChanges DEF Registry!RegistryNext

\* The host implements the abstract command registry: a command is claimed only
\* when nobody has it and never changes hands; an addon in the dictionary loses its
\* commands only all together, in the step that takes it out of service, and an
\* addon that is out all together or one that a player called.  No switch is
\* assumed: scripts may manage addons, and disposing and messages may fail.
THEOREM HostImplementsRegistry == Spec => ImplementsRegistry
<1>1. Init => Registry!RegistryInit
  <2> SUFFICES ASSUME Init
               PROVE  /\ RouteMap = [c \in Commands |-> NoKey]
                      /\ StatusMap = [k \in Keys |-> "out"]
    BY DEF Registry!RegistryInit, RouteMap, StatusMap, Status
  <2>1. \A c \in Commands : \A k \in Keys : c \notin owned[k]
    BY DEF Init
  <2>2. QED
    BY <2>1 DEF Init, Owner, OwnerIn, RouteMap, StatusMap, Status, StatusIn
<1>2. TypeOK /\ CommandOwnedOnce /\ SettledInv /\ [Next]_vars
         => [Registry!RegistryNext]_(Registry!registryVars)
  BY RefinesStep DEF SettledInv
<1>3. QED
  BY <1>1, <1>2, TypeCorrect, OwnedOnce, SettledInvariant, PTL
     DEF Spec, ImplementsRegistry, Registry!RegistrySpec
=============================================================================

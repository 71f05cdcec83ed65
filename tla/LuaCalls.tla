----------------------------- MODULE LuaCalls -----------------------------
(***************************************************************************)
(* How Lua calls functions, raises and catches errors, and switches        *)
(* coroutines (ldo.cpp, with lua_callk, lua_pcallk and the coroutine       *)
(* library).  All threads of a Lua state share one C stack: an error or a  *)
(* yield jumps to the innermost luaD_rawrunprotected of the thread and     *)
(* takes the C frames above with it, while the CallInfos of the thread     *)
(* remain and tell 'unroll' and 'recover' what the lost C frames had left  *)
(* to do.                                                                  *)
(*                                                                         *)
(* An error of a .NET method that Lua has called is raised on the main     *)
(* thread, whichever thread runs (Lua.SetPendingException).  Then the jump *)
(* ends at a luaD_rawrunprotected of the running thread, which has no      *)
(* status for it, while the status is left in one of the main thread.      *)
(*                                                                         *)
(* Steps in Lua code are the program's choice; every other step is the one *)
(* the C code takes next.                                                  *)
(***************************************************************************)
EXTENDS Integers, SequencesExt

CONSTANTS Threads, Main,
          MaxCCalls,   \* LUAI_MAXCCALLS
          Reserve,     \* LUAI_MAXCCALLS >> 3, for the handling of an overflow
          CCallsMod,   \* number of values of nCcalls
          MaxFrames,   \* bound on the calls in progress
          MaxShared    \* bound on the open upvalues

ASSUME MainAssumption == Main \in Threads
ASSUME CCallsAssumption == CCallsMod \in Nat \ {0}

VARIABLES L,     \* the lua_State of each thread
          cs,    \* the C stack: what luaD_call and luaD_rawrunprotected keep there
          ctl,   \* "run"; "raise": luaG_errormsg is called; "error", "yield": luaD_throw is;
                 \* "raisemain", "foreign": so they are, on the main thread, by another one
          ok,    \* what the library function that has just returned reports
          foreign  \* an error was raised on the main thread by another one (history)

vars == <<L, cs, ctl, ok, foreign>>

Functions == {"lua", "handler"}
CFunctions == {"pcall", "xpcall", "dofile", "sort", "resume", "wrap", "failed", "yield",
               "raise", "host"}

\* A CallInfo.  reentry: CIST_REENTRY; ypcall: CIST_YPCALL, with old_errfunc in
\* h; stat: the protected call has caught an error (CIST_STAT for ypcall).
Info(fn) == [fn |-> fn, reentry |-> FALSE, ypcall |-> FALSE, h |-> 0, stat |-> FALSE]

\* The thread of a new state; 'started' is FALSE while its function waits on its
\* stack.  open: the calls with open upvalues; errfunc: the call whose handler
\* is set.
NewState == [ci |-> <<>>, status |-> "ok", started |-> TRUE, nny |-> 1, nCcalls |-> 0,
             errfunc |-> 0, open |-> {}]

Count(n) == n % CCallsMod

R == cs[Len(cs)].t          \* the running thread
Size(t) == Len(L[t].ci)
Top == L[R].ci[Size(R)]

\* A luaD_rawrunprotected, of luaD_pcall ("pcall", called by the host: "host")
\* or lua_resume; base: calls below it; failed: its status was set by a jump that went
\* elsewhere; the rest is what is restored.
Try(kind, t, base, n) ==
  [k |-> kind, t |-> t, base |-> base, nny |-> L[t].nny, errfunc |-> L[t].errfunc, ncc |-> n,
   failed |-> FALSE]
Tries == {"pcall", "host", "resume"}

Done == cs[Len(cs)].k \in Tries /\ cs[Len(cs)].base = Size(R)
InLua == ctl = "run" /\ cs # <<>> /\ ~Done /\ Top.fn \in Functions
InC == ctl = "run" /\ cs # <<>> /\ ~Done /\ Top.fn \notin Functions

Init ==
  /\ L = [t \in Threads |-> NewState]
  /\ cs = <<>>
  /\ ctl = "run"
  /\ ok = TRUE
  /\ foreign = FALSE

\* luaD_call, and luaD_precall of a Lua function, in thread t; the caller has
\* made l of L and left the C frames below.  base: calls below it; allow: the
\* callee may yield.
LuaDCall(t, l, below, allow, fn) ==
  LET n == Count(l[t].nCcalls + 1)
      fails == n = MaxCCalls \/ n >= MaxCCalls + Reserve
  IN /\ cs' = Append(below, [k |-> "call", t |-> t, base |-> Len(l[t].ci),
                             allow |-> allow \/ fails])
     /\ L' = [l EXCEPT ![t].nCcalls = n,
                       ![t].nny = IF allow \/ fails THEN @ ELSE @ + 1,
                       ![t].ci = IF fails THEN @ ELSE Append(@, Info(fn))]
     /\ ctl' = (IF n = MaxCCalls THEN "raise" ELSE IF fails THEN "error" ELSE "run")

Room(n) == SumFunction([t \in Threads |-> Size(t)]) + n <= MaxFrames
Push(t, info) == [L EXCEPT ![t].ci = Append(@, info)]
Relabel(l, t, fn) == [l EXCEPT ![t].ci[Len(l[t].ci)].fn = fn]

-----------------------------------------------------------------------------
(* Steps of a Lua function. *)

\* OP_CALL of a Lua function: luaV_execute goes on with it.
CallLua ==
  /\ InLua /\ Room(1)
  /\ L' = Push(R, [Info("lua") EXCEPT !.reentry = TRUE])
  /\ ok' = TRUE
  /\ UNCHANGED <<cs, ctl>>

CallTM ==
  /\ InLua /\ Room(1)
  /\ LuaDCall(R, L, cs, TRUE, "lua")
  /\ ok' = TRUE

\* luaF_findupval for a new closure.
FindUpval ==
  /\ InLua
  /\ SumFunction([t \in Threads |-> Cardinality(L[t].open)]) < MaxShared
  /\ L' = [L EXCEPT ![R].open = @ \cup {Size(R)}]
  /\ ok' = TRUE
  /\ UNCHANGED <<cs, ctl>>

\* OP_TAILCALL of a Lua function: it takes the place of its caller.
TailCall ==
  /\ InLua
  /\ L' = [L EXCEPT ![R].open = @ \ {Size(R)}]
  /\ ok' = TRUE
  /\ UNCHANGED <<cs, ctl>>

\* A library function that calls a Lua function with lua_callk, with a
\* continuation (dofile) or without one (sort).
CallK(fn) ==
  /\ InLua /\ Room(2)
  /\ LuaDCall(R, Push(R, Info(fn)), cs, fn = "dofile" /\ L[R].nny = 0, "lua")
  /\ ok' = TRUE

\* lua_pcallk: where no yield is possible it is luaD_pcall; otherwise the call
\* is marked for 'recover'.
PCallK(fn) ==
  LET frame == Size(R) + 1
      handled(info) == [Push(R, info) EXCEPT ![R].errfunc = IF fn = "xpcall" THEN frame ELSE 0]
  IN /\ InLua /\ Room(2)
     /\ IF L[R].nny > 0
        THEN LuaDCall(R, handled(Info(fn)), Append(cs, Try("pcall", R, frame, L[R].nCcalls)),
                      FALSE, "lua")
        ELSE LuaDCall(R, handled([Info(fn) EXCEPT !.ypcall = TRUE, !.h = L[R].errfunc]), cs,
                      TRUE, "lua")
     /\ ok' = TRUE

Raise ==
  /\ InLua
  /\ L' = Push(R, Info("raise"))
  /\ ctl' = "raise"
  /\ ok' = TRUE
  /\ UNCHANGED cs

\* A .NET method that a coroutine calls raises an exception.  (One that the main
\* thread calls: Raise.)
HostRaises ==
  /\ InLua
  /\ R # Main
  /\ L' = Push(R, Info("host"))
  /\ ctl' = "raisemain"
  /\ ok' = TRUE
  /\ UNCHANGED cs

\* The host calls a Lua function on the main thread, whichever thread runs.
HostCall ==
  LET l == IF cs = <<>> THEN L ELSE Push(R, Info("host"))
  IN /\ cs = <<>> \/ (InLua /\ Room(2))
     /\ LuaDCall(Main, [l EXCEPT ![Main].errfunc = 0],
                 Append(cs, Try("host", Main, Len(l[Main].ci), L[Main].nCcalls)), FALSE, "lua")
     /\ ok' = TRUE

\* luaF_close, then luaD_poscall; luaV_execute goes on with the caller or
\* returns to what called it: luaD_call, resume or unroll.
LuaReturns ==
  /\ InLua
  /\ LET popped == [L EXCEPT ![R].ci = Front(@), ![R].open = @ \ {Size(R)}]
         call == Last(cs)
     IN IF Top.reentry \/ call.k # "call"
        THEN L' = popped /\ UNCHANGED <<cs, ctl>>
        ELSE /\ L' = [popped EXCEPT ![R].nCcalls = Count(@ - 1),
                                    ![R].nny = IF call.allow THEN @ ELSE @ - 1]
             /\ cs' = Front(cs)
             /\ ctl' = (IF Top.fn # "handler" THEN "run"
                        ELSE IF Last(cs').t = R THEN "error" ELSE "foreign")
  /\ ok' = TRUE

-----------------------------------------------------------------------------
(* Steps of C code. *)

\* Mutant: finishCcall leaves the error handler of the protected call in force.
CReturnsHandled ==
  /\ InC
  /\ L' = [L EXCEPT ![R].ci = Front(@)]
  /\ ok' = (~Top.stat /\ Top.fn # "failed")
  /\ UNCHANGED <<cs, ctl>>

\* A library function returns, from luaD_precall or from finishCcall.  A
\* protected call that was marked is finished first.
CReturns ==
  /\ InC
  /\ L' = [L EXCEPT ![R].ci = Front(@), ![R].errfunc = IF Top.ypcall THEN Top.h ELSE @]
  /\ ok' = (~Top.stat /\ Top.fn # "failed")
  /\ UNCHANGED <<cs, ctl>>

\* luaD_rawrunprotected returns without an error.
TryReturns ==
  /\ ctl = "run" /\ cs # <<>> /\ Done /\ ~Last(cs).failed
  /\ LET try == Last(cs)
     IN L' = [L EXCEPT ![R] =
                IF try.k = "resume"
                THEN [@ EXCEPT !.nny = try.nny, !.nCcalls = Count(try.ncc - 1)]
                ELSE [@ EXCEPT !.errfunc = try.errfunc, !.nCcalls = try.ncc]]
  /\ cs' = Front(cs)
  /\ ok' = TRUE
  /\ UNCHANGED ctl

\* luaG_errormsg: the handler is called where the error was raised, unless there
\* is none or it is not a function.
ErrorMsg ==
  /\ ctl = "raise"
  /\ \/ L[R].errfunc # 0 /\ LuaDCall(R, L, cs, FALSE, "handler")
     \/ ctl' = "error" /\ UNCHANGED <<L, cs>>
  /\ ok' = TRUE

\* So is the handler of the main thread, where that thread stands.
ErrorMsgOnMain ==
  /\ ctl = "raisemain"
  /\ IF L[Main].errfunc # 0 THEN LuaDCall(Main, L, cs, FALSE, "handler")
     ELSE ctl' = "foreign" /\ UNCHANGED <<L, cs>>
  /\ ok' = TRUE

\* LUAI_TRY catches every exception, of whatever thread.
InnermostTry(S) == Max({i \in 1 .. Len(cs) : cs[i].k \in Tries /\ cs[i].t \in S})
Catcher == InnermostTry(Threads)

\* An activation has failed; l is L then.  Its caller is a library function:
\* coroutine.resume reports the error, coroutine.wrap raises it again, the host
\* does either: in the thread that has called it (Metatables), or on the main
\* thread (LuaMethodWrapper).
Fail(l, rest) ==
  /\ cs' = rest
  /\ IF rest = <<>> THEN L' = l /\ ctl' = "run"
     ELSE LET t == Last(rest).t
              fn == Last(l[t].ci).fn
          IN \/ /\ fn \in {"wrap", "host"}
                /\ L' = Relabel(l, t, "raise")
                /\ ctl' = "raise"
             \/ /\ fn \in {"resume", "host"}
                /\ L' = Relabel(l, t, IF fn = "resume" THEN "failed" ELSE fn)
                /\ ctl' = "run"
             \/ /\ fn = "host" /\ t # Main
                /\ L' = l
                /\ ctl' = "raisemain"

\* Mutant: the stack is cut without luaF_close.
ClosedNone(open, n) == open

\* luaF_close at the level of the call after the n-th.
Closed(open, n) == {i \in open : i <= n}

\* The rest of luaD_pcall after an error, with what is below it on the C stack.
PCallFails(try, rest) ==
  LET l == [L EXCEPT ![R] = [@ EXCEPT !.ci = SubSeq(L[R].ci, 1, try.base), !.nny = try.nny,
                                      !.errfunc = try.errfunc, !.nCcalls = try.ncc,
                                      !.open = Closed(L[R].open, try.base)]]
  IN IF try.k = "host" THEN Fail(l, rest)
     ELSE L' = [l EXCEPT ![R].ci[try.base].stat = TRUE] /\ cs' = rest /\ ctl' = "run"

CatchPCall ==
  LET try == cs[Catcher]
  IN /\ ctl \in {"error", "yield"}
     /\ try.t = R /\ try.k \in {"pcall", "host"}
     /\ PCallFails(try, SubSeq(cs, 1, Catcher - 1))
     /\ ok' = TRUE

\* luaD_pcall of the main thread finds the status that such a jump has left.
FoundFailed ==
  /\ ctl = "run" /\ cs # <<>> /\ Done /\ Last(cs).failed
  /\ PCallFails(Last(cs), Front(cs))
  /\ ok' = TRUE

\* lua_resume after a yield.
CatchYield ==
  LET try == cs[Catcher]
  IN /\ ctl = "yield" /\ try.t = R /\ try.k = "resume"
     /\ L' = [L EXCEPT ![R].nny = try.nny, ![R].nCcalls = Count(try.ncc - 1)]
     /\ cs' = SubSeq(cs, 1, Catcher - 1)
     /\ ctl' = "run"
     /\ ok' = TRUE

Marked(t) == {i \in 1 .. Size(t) : L[t].ci[i].ypcall}

\* Mutant: the calls that could not be yielded across are gone, nny stays.
RecoveredPinned(l, p, n) ==
  [l EXCEPT !.ci = [SubSeq(@, 1, p) EXCEPT ![p].stat = TRUE], !.errfunc = l.ci[p].h,
            !.nCcalls = n, !.open = Closed(@, p)]

\* 'recover' goes back to the marked protected call p.
Recovered(l, p, n) ==
  [l EXCEPT !.ci = [SubSeq(@, 1, p) EXCEPT ![p].stat = TRUE], !.nny = 0,
            !.errfunc = l.ci[p].h, !.nCcalls = n, !.open = Closed(@, p)]

\* lua_resume after an error: it recovers in the last marked protected call and
\* 'unroll' continues there.
Recover ==
  LET try == cs[Catcher]
  IN /\ ctl = "error" /\ try.t = R /\ try.k = "resume" /\ Marked(R) # {}
     /\ L' = [L EXCEPT ![R] = Recovered(@, Max(Marked(R)), try.ncc)]
     /\ cs' = SubSeq(cs, 1, Catcher)
     /\ ctl' = "run"
     /\ ok' = TRUE

\* Mutant: the coroutine is not marked as dead.
DiesUnmarked ==
  LET try == cs[Catcher]
  IN /\ ctl = "error" /\ try.t = R /\ try.k = "resume" /\ Marked(R) = {}
     /\ Fail([L EXCEPT ![R].nny = try.nny, ![R].nCcalls = Count(try.ncc - 1)],
             SubSeq(cs, 1, Catcher - 1))
     /\ ok' = TRUE

\* lua_resume after an error nothing in the coroutine protects: it is dead.
Dies ==
  LET try == cs[Catcher]
  IN /\ ctl = "error" /\ try.t = R /\ try.k = "resume" /\ Marked(R) = {}
     /\ Fail([L EXCEPT ![R].status = "error", ![R].nny = try.nny,
                       ![R].nCcalls = Count(try.ncc - 1)],
             SubSeq(cs, 1, Catcher - 1))
     /\ ok' = TRUE

\* luaD_throw on the main thread leaves the error in the status of its innermost
\* luaD_rawrunprotected, and the C stack is cut at that of the running thread, whose
\* status becomes -1: to luaD_pcall an error as any other, to lua_resume one
\* that was not in the coroutine, which it neither recovers nor marks as dead.
CatchForeign ==
  LET try == cs[Catcher]
      rest == SubSeq([cs EXCEPT ![InnermostTry({Main})].failed = TRUE], 1, Catcher - 1)
  IN /\ ctl = "foreign"
     /\ IF try.k = "pcall" THEN PCallFails(try, rest)
        ELSE Fail([L EXCEPT ![R].nny = try.nny, ![R].nCcalls = Count(try.ncc - 1)], rest)
     /\ ok' = TRUE

\* The handler of the main thread fails itself, or cannot be called, above C frames of
\* another thread: the jump leaves the main thread in the handler, whose C frames are
\* gone.  What follows is not defined.
Derailed == ctl = "error" /\ cs[Catcher].t # R /\ UNCHANGED <<L, cs, ctl, ok>>

-----------------------------------------------------------------------------
(* The coroutine library. *)

\* Nothing is left on the stack of the thread.
Empty(c) == L[c].status = "ok" /\ L[c].ci = <<>> /\ L[c].started

\* lua_newthread for a thread that is not in use.
CoCreate(c) ==
  /\ InLua
  /\ c # Main
  /\ L[c].status = "error" \/ Empty(c)
  /\ \A i \in 1 .. Len(cs) : cs[i].t # c
  /\ L' = [L EXCEPT ![c] = [NewState EXCEPT !.started = FALSE]]
  /\ ok' = TRUE
  /\ UNCHANGED <<cs, ctl>>

\* auxresume finds nothing on the stack of the thread: it has ended, or waits in
\* auxwrap, which has moved its arguments to another one.
Bare(c) == Empty(c) \/ (c # R /\ Size(c) > 0 /\ L[c].status = "ok" /\ L[c].ci[Size(c)].fn = "wrap")

\* resume_error; lua_resume has already counted the call.
Refused(c) ==
  \/ Count(L[R].nCcalls + 1) >= MaxCCalls
  \/ (L[c].status = "ok" /\ L[c].ci # <<>>)
  \/ L[c].status = "error"

ResumeFails(c, f) ==
  /\ InLua /\ Room(1)
  /\ Bare(c) \/ Refused(c)
  /\ LET l == Push(R, Info(f))
     IN Fail(IF Bare(c) THEN l ELSE [l EXCEPT ![c].nCcalls = L[R].nCcalls], cs)
  /\ ok' = TRUE

\* lua_resume of a coroutine that has not started, or has yielded.
Resume(c, f) ==
  /\ InLua /\ Room(2)
  /\ ~Empty(c) /\ ~Refused(c)
  /\ LET n == Count(L[R].nCcalls + 1)
     IN /\ cs' = Append(cs, Try("resume", c, 0, n))
        /\ L' = [Push(R, Info(f)) EXCEPT ![c] =
                   [@ EXCEPT !.nCcalls = n, !.nny = 0, !.status = "ok", !.started = TRUE,
                             !.ci = IF L[c].status = "ok" THEN <<Info("lua")>> ELSE Front(L[c].ci)]]
  /\ ok' = TRUE
  /\ UNCHANGED ctl

\* lua_yieldk without a continuation, called by a function of the library.
Yield ==
  /\ InLua
  /\ IF L[R].nny > 0 THEN L' = Push(R, Info("raise")) /\ ctl' = "raise"
     ELSE L' = [Push(R, Info("yield")) EXCEPT ![R].status = "yield"] /\ ctl' = "yield"
  /\ ok' = TRUE
  /\ UNCHANGED cs

-----------------------------------------------------------------------------

Step ==
  \/ CallLua \/ CallTM \/ FindUpval \/ TailCall \/ LuaReturns \/ Raise \/ HostRaises \/ HostCall \/ Yield
  \/ \E fn \in {"dofile", "sort"} : CallK(fn)
  \/ \E fn \in {"pcall", "xpcall"} : PCallK(fn)
  \/ \E c \in Threads : CoCreate(c) \/ \E f \in {"resume", "wrap"} : Resume(c, f) \/ ResumeFails(c, f)
  \/ CReturns \/ TryReturns \/ ErrorMsg \/ CatchPCall \/ CatchYield \/ Recover \/ Dies
  \/ ErrorMsgOnMain \/ FoundFailed \/ CatchForeign \/ Derailed

Next == Step /\ foreign' = (foreign \/ ctl' = "raisemain")

Spec == Init /\ [][Next]_vars

-----------------------------------------------------------------------------
(* Properties. *)

\* Every field has its type: the stored error handler is a call of its thread,
\* the upvalues of a thread that is not dead are of its calls.
TypeOK ==
  /\ \A t \in Threads :
       /\ L[t].status \in {"ok", "yield", "error"}
       /\ L[t].started \in BOOLEAN
       /\ L[t].nny \in Nat
       /\ L[t].nCcalls \in 0 .. CCallsMod - 1
       /\ \A i \in 1 .. Size(t) : L[t].ci[i].fn \in Functions \cup CFunctions
       /\ L[t].status # "error" => L[t].open \subseteq 1 .. Size(t) /\ L[t].errfunc \in 0 .. Size(t)
  /\ ctl \in {"run", "raise", "error", "yield", "raisemain", "foreign"}
  /\ foreign \in BOOLEAN
  /\ ok \in BOOLEAN

\* nny is the number of calls on the C stack that a yield cannot cross (ldo.cpp,
\* lua_assert(L->nny == 0) in finishCcall; lstate.h): whatever errors and yields
\* took away, and whatever 'recover' resets, a coroutine can yield where it
\* could before, and the main thread never.
Activation(t) == {i \in 1 .. Len(cs) : cs[i].k = "resume" /\ cs[i].t = t}
CallsOf(t) == {i \in 1 .. Len(cs) : cs[i].k = "call" /\ cs[i].t = t
                                    /\ \A j \in Activation(t) : i > j}
NonYieldableCounted ==
  \A t \in Threads :
    L[t].nny = (IF Activation(t) = {} THEN 1 ELSE 0)
               + Cardinality({i \in CallsOf(t) : ~cs[i].allow})

\* A coroutine with calls to finish can be resumed, or is on the C stack, as long as no
\* error was raised on the main thread by another one; lua_resume strands the coroutine of
\* such an error: not dead, and never to be resumed again.
NoneStranded ==
  foreign \/ \A t \in Threads :
    L[t].status = "ok" /\ L[t].ci # <<>> => \E i \in 1 .. Len(cs) : cs[i].t = t

\* nCcalls counts the nested C calls (lstate.h): a thread on the C stack has the
\* number luaD_rawrunprotected has saved, and one for each luaD_call since.
CCallsCounted ==
  \A i \in 1 .. Len(cs) :
    (/\ cs[i].k \in Tries
     /\ \A j \in i + 1 .. Len(cs) : cs[j].k \in Tries => cs[j].t # cs[i].t)
    => L[cs[i].t].nCcalls = cs[i].ncc + Cardinality({j \in CallsOf(cs[i].t) : j > i})

-----------------------------------------------------------------------------
(* The C stack implements the abstract coroutines. *)

Label(info) == IF info.stat THEN "caught" ELSE info.fn
Calls(t) ==
  IF L[t].status = "error" THEN <<>>
  ELSE SubSeq([i \in 1 .. Size(t) |-> [fn |-> Label(L[t].ci[i]), shared |-> i \in L[t].open]],
              1, IF ctl = "yield" /\ t = R THEN Size(t) - 1 ELSE Size(t))

\* The luaD_pcalls of the host and the lua_resumes on the C stack, from the bottom
\* up.
Activations ==
  LET starts == {i \in 1 .. Len(cs) : cs[i].k \in {"host", "resume"}}
      nth(n) == CHOOSE i \in starts : Cardinality({j \in starts : j <= i}) = n
  IN [n \in 1 .. Cardinality(starts) |-> [t |-> cs[nth(n)].t, base |-> cs[nth(n)].base]]

C == INSTANCE Coroutines WITH
  frames <- [t \in Threads |-> Calls(t)],
  active <- Activations,
  resumable <- {t \in Threads : \/ L[t].status = "yield" /\ ~(ctl = "yield" /\ t = R)
                                \/ L[t].status = "ok" /\ ~L[t].started}

\* Errors end in the innermost protected call of their activation and nowhere
\* else, its result says so, a handler runs for that call, a yield crosses
\* no call that it cannot, and no call that goes on loses its place or its upvalues,
\* whether C frames are still there or not; until an error is raised on the main thread
\* by another one.
ImplementsCoroutines == C!Init /\ [][foreign' \/ C!Next]_(C!vars)
=============================================================================

---------------------------- MODULE Coroutines ----------------------------
(***************************************************************************)
(* What Lua promises of calls, errors and coroutines, without a C stack:   *)
(* every thread has a stack of calls; control is with the last activation, *)
(* which a host call or a resume started; an error ends everything down to *)
(* the innermost protected call of its activation, or the activation; a    *)
(* coroutine gives control back whenever no call in it stands in the way.  *)
(***************************************************************************)
EXTENDS Sequences, FiniteSetsExt

CONSTANTS Threads, Main

VARIABLES frames,     \* [Threads -> Seq([fn, shared])]: the calls of a thread;
                      \* shared: a closure uses the locals of the call
          active,     \* Seq([t, base]): activations, and the calls below each
          resumable,  \* coroutines that are suspended, or not started
          ok          \* what the last call into a library has reported

vars == <<frames, active, resumable, ok>>

Functions == {"lua", "handler"}        \* written in Lua
Protected == {"pcall", "xpcall"}
Barriers == {"sort", "host", "handler"}   \* a yield cannot cross these

Frame(fn) == [fn |-> fn, shared |-> FALSE]
Now == active[Len(active)]
T == Now.t
Top == frames[T][Len(frames[T])].fn
Running == active # <<>> /\ Len(frames[T]) > Now.base
InLua == Running /\ Top \in Functions
Pushed(t, fns) == frames[t] \o [i \in 1 .. Len(fns) |-> Frame(fns[i])]
Cut(seq, n, fn) == Append(SubSeq(seq, 1, n - 1), [seq[n] EXCEPT !.fn = fn])

\* The protected calls of the activation that have not caught an error yet.
Guards == {i \in Now.base + 1 .. Len(frames[T]) : frames[T][i].fn \in Protected}

Init ==
  /\ frames = [t \in Threads |-> <<>>]
  /\ active = <<>>
  /\ resumable = {}
  /\ ok = TRUE

Create(c) ==
  /\ c \notin resumable \cup {Main} \cup {active[i].t : i \in 1 .. Len(active)}
  /\ UNCHANGED active
  /\ resumable' = resumable \cup {c}
  /\ ok' = TRUE
  /\ frames' = [frames EXCEPT ![c] = <<>>]

\* A Lua function calls another, or a library function that calls one; a call
\* may fail before the callee runs.
Call(fns) ==
  /\ UNCHANGED <<active, resumable>>
  /\ ok' = TRUE
  /\ frames' = [frames EXCEPT ![T] = Pushed(T, fns)]

Share(b) ==
  /\ UNCHANGED <<active, resumable>>
  /\ ok' = TRUE
  /\ frames' = [frames EXCEPT ![T][Len(frames[T])].shared = b]

Return ==
  /\ Running
  /\ Top # "raise"
  /\ UNCHANGED <<active, resumable>>
  /\ ok' = (Top \notin {"caught", "failed"})
  /\ frames' = [frames EXCEPT ![T] = SubSeq(@, 1, Len(@) - 1)]

\* The activation is over: its caller goes on.
Finish ==
  /\ ~Running
  /\ active' = SubSeq(active, 1, Len(active) - 1)
  /\ ok' = TRUE
  /\ UNCHANGED <<frames, resumable>>

\* The handler of xpcall runs where the error was raised.
Handle ==
  LET guards == Guards
  IN /\ guards # {} /\ frames[T][Max(guards)].fn = "xpcall"
     /\ UNCHANGED <<active, resumable>>
     /\ ok' = TRUE
     /\ frames' = [frames EXCEPT ![T] = Pushed(T, <<"handler">>)]

\* After an error the caller of an activation sees it fail: coroutine.resume
\* reports it, coroutine.wrap raises it again, the host does either, in the thread that
\* has called it.  (A host that raises it on the main thread while a coroutine runs is
\* outside of this: see LuaCalls.ImplementsCoroutines.)
Failures == {<<"resume", "failed">>, <<"wrap", "raise">>, <<"host", "host">>, <<"host", "raise">>}

Throw ==
  LET guards == Guards
  IN
  /\ UNCHANGED resumable
  /\ ok' = TRUE
  /\ IF guards # {}
     THEN /\ UNCHANGED active
          /\ frames' = [frames EXCEPT ![T] = Cut(@, Max(guards), "caught")]
     ELSE LET rest == SubSeq(active, 1, Len(active) - 1)
              left(t) == IF t = T THEN SubSeq(frames[t], 1, Now.base) ELSE frames[t]
          IN /\ active' = rest
             /\ IF rest = <<>> THEN frames' = [t \in Threads |-> left(t)]
                ELSE LET c == rest[Len(rest)].t
                         n == Len(left(c))
                     IN \E f \in Failures :
                          /\ left(c)[n].fn = f[1]
                          /\ frames' = [t \in Threads |-> IF t = c THEN Cut(left(c), n, f[2])
                                                          ELSE left(t)]

\* f is "resume" or "wrap".  The coroutine starts, or its yield returns.
Resume(c, f) ==
  /\ c \in resumable
  /\ resumable' = resumable \ {c}
  /\ active' = Append(active, [t |-> c, base |-> 0])
  /\ ok' = TRUE
  /\ frames' = [frames EXCEPT ![T] = Pushed(T, <<f>>),
                              ![c] = IF @ = <<>> THEN <<Frame("lua")>> ELSE SubSeq(@, 1, Len(@) - 1)]

Yield ==
  /\ T # Main
  /\ \A i \in 1 .. Len(frames[T]) : frames[T][i].fn \notin Barriers
  /\ resumable' = resumable \cup {T}
  /\ active' = SubSeq(active, 1, Len(active) - 1)
  /\ ok' = TRUE
  /\ frames' = [frames EXCEPT ![T] = Pushed(T, <<"yield">>)]

\* The host runs Lua code on the main thread, called from any thread or by the
\* server; the call may fail before the Lua code runs.
HostCall(fns) ==
  LET below(t) == IF active # <<>> /\ t = T THEN Pushed(t, <<"host">>) ELSE frames[t]
  IN /\ UNCHANGED resumable
     /\ active' = Append(active, [t |-> Main, base |-> Len(below(Main))])
     /\ ok' = TRUE
     /\ frames' = [t \in Threads |-> IF t = Main THEN below(t) \o [i \in 1 .. Len(fns) |-> Frame(fns[i])]
                                     ELSE below(t)]

\* What a Lua function does.
LuaStep ==
  \/ \E c \in Threads : Create(c) \/ \E f \in {"resume", "wrap"} : Resume(c, f)
  \/ \E fns \in {<<"lua">>, <<"raise">>, <<"failed">>} : Call(fns)
  \/ \E f \in Protected \cup {"dofile", "sort"} : Call(<<f>>) \/ Call(<<f, "lua">>)
  \/ \E b \in BOOLEAN : Share(b)
  \/ Yield
  \/ \E fns \in {<<>>, <<"lua">>} : HostCall(fns)

Next ==
  \/ InLua /\ LuaStep
  \/ active # <<>> /\ (Return \/ Finish \/ Handle \/ Throw)
  \/ active = <<>> /\ \E fns \in {<<>>, <<"lua">>} : HostCall(fns)

Spec == Init /\ [][Next]_vars
=============================================================================

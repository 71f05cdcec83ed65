--------------------------- MODULE CommandRegistry ---------------------------
(***************************************************************************)
(* What the addon host promises about chat commands, without call stacks,  *)
(* Lua states or the chat command list: a directory that names at most one *)
(* addon for a command, and what each addon can do for its commands.       *)
(*                                                                         *)
(* The promise is in what is missing: no step moves a command from one     *)
(* addon to another, and an addon that is in the host loses its commands   *)
(* only all together, in a step that takes it out of service.              *)
(***************************************************************************)
CONSTANTS Commands, Addons, Nobody

VARIABLES
    route,      \* route[c]: the addon that answers to command c, or Nobody
    status      \* status[a]: "out" of the host, in it but "busy" with a load or
                \* an error, or "serving" its commands

registryVars == <<route, status>>

RegistryInit ==
    /\ route = [c \in Commands |-> Nobody]
    /\ status = [a \in Addons |-> "out"]

\* The directory without the commands of a.
Without(a) == [c \in Commands |-> IF route[c] = a THEN Nobody ELSE route[c]]

Claim(c, a) ==
    /\ route[c] = Nobody
    /\ route' = [route EXCEPT ![c] = a]
    /\ UNCHANGED status

\* The last step of taking an addon out: all its commands go at once.
Withdraw(a) ==
    /\ status[a] = "out"
    /\ route' = Without(a)
    /\ UNCHANGED status

\* A command of an addon that is out is dropped when a player calls it.
Evict(c) ==
    /\ route[c] # Nobody /\ status[route[c]] = "out"
    /\ route' = [route EXCEPT ![c] = Nobody]
    /\ UNCHANGED status

\* An addon starts again from nothing.
Reset(a) ==
    /\ status[a] # "out"
    /\ route' = Without(a)
    /\ status' = [status EXCEPT ![a] = "busy"]

\* An addon comes, goes, fails or recovers: its commands stay its own.
Change(a) ==
    /\ status' \in {[status EXCEPT ![a] = s] : s \in {"out", "busy", "serving"}}
    /\ UNCHANGED route

Close ==
    /\ route' = [c \in Commands |-> Nobody]
    /\ status' = [a \in Addons |-> "out"]

RegistryNext ==
    \/ \E c \in Commands : Evict(c) \/ \E a \in Addons : Claim(c, a)
    \/ \E a \in Addons : Withdraw(a) \/ Reset(a) \/ Change(a)
    \/ Close

RegistrySpec == RegistryInit /\ [][RegistryNext]_registryVars
=============================================================================

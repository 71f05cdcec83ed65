------------------------------- MODULE MCLuaGC -------------------------------
(* Values of the constants of LuaGC for TLC. *)
EXTENDS LuaGC, TLC
CONSTANTS o1, o2, o3, o4

\* Up to four addresses with what a script makes of them.
O(kind, fields, gc) == [kind |-> kind, fields |-> fields, gc |-> gc]
None == O("none", {}, FALSE)
Cast(oa, ob, oc, od) == o1 :> oa @@ o2 :> ob @@ o3 :> oc @@ o4 :> od
MCCasts ==
  {Cast(O("strong", {1}, TRUE), O("strong", {1}, FALSE), None, None),
   Cast(O("udata", {1}, TRUE), O("strong", {1}, FALSE), None, None),
   Cast(O("cclosure", {1}, FALSE), O("udata", {}, TRUE), None, None),
   Cast(O("weakvalue", {1}, FALSE), O("string", {}, FALSE), O("udata", {}, TRUE), None),
   Cast(O("weakvalue", {1, o2}, FALSE), O("strong", {}, FALSE), None, None),
   Cast(O("strong", {o2}, FALSE), O("udata", {}, TRUE), None, None),
   Cast(O("ephemeron", {o2}, FALSE), O("strong", {1}, TRUE), None, None),
   Cast(O("allweak", {o2}, FALSE), O("udata", {}, TRUE), O("string", {}, FALSE), None),
   Cast(O("thread", {1}, FALSE), O("udata", {}, TRUE), None, None),
   Cast(O("proto", {}, FALSE), O("lclosure", {}, FALSE), O("open", {}, FALSE),
        O("thread", {}, FALSE))}

\* For liveness: two tables that refer to each other, one with a finalizer; a
\* userdata with a finalizer in a weak table.
LiveCasts ==
  {o1 :> O("strong", {1}, TRUE) @@ o2 :> O("strong", {1}, FALSE),
   o1 :> O("weakvalue", {1}, FALSE) @@ o2 :> O("udata", {}, TRUE)}

\* A userdata and its user value, both with finalizers; an all-weak table with one.
RelinkCasts == {Cast(O("udata", {1}, TRUE), O("strong", {}, TRUE), None, None),
                Cast(O("allweak", {}, TRUE), None, None, None)}
=============================================================================

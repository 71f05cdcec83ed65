SPECIFICATION Spec
CONSTANTS
  o1 = o1
  o2 = o2
  o3 = o3
  o4 = o4
  Main = Main
  Nil = Nil
  Objs = {o1, o2, o3, o4}
  NSlots = 2
  Casts <- RelinkCasts
INVARIANTS MarkingEnds

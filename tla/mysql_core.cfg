SPECIFICATION FairSpec
CONSTANTS
  Nil = Nil
  Main = Main
  Globals = Globals
  Env = Env
  Function = Function
  names1 = names1
  types1 = types1
  q1 = q1
  Conns = {c1}
  Curs = {q1}
  Wrappers = {w1}
  Forgetful = {w1}
  NameTable <- MCNameTable
  TypeTable <- MCTypeTable
  Careless <- MCCareless
  Holders <- MCHolders
  Values <- MCValues
  MaxSlot = 7
INVARIANTS TypeOK SlotsResolve EverySlotAccounted CursorKeepsConnection ReferencesMatchUse
PROPERTIES RegSpec CloseReleasesServer
CHECK_DEADLOCK FALSE

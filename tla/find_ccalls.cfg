SPECIFICATION Spec
CONSTANTS
  a = a
  b = b
  Main = Main
  Threads = {Main, a}
  MaxCCalls = 4
  Reserve = 2
  CCallsMod = 65536
  MaxFrames = 5
  MaxShared = 1
INVARIANTS CCallsCounted
